------------------------------- MODULE CashAddr -------------------------------
(***************************************************************************)
(* The CashAddr content codec (src/cashaddrenc.h: CashAddrType,            *)
(* CashAddrContent, PackCashAddrContent, DecodeCashAddrContent,            *)
(* DecodeCashAddrDestination, EncodeCashAddr, DecodeCashAddr) over the     *)
(* base-32 codec cashaddr::Encode / cashaddr::Decode.  The .cpp files are  *)
(* not in this tree: the operators follow spec.md 3 and 4.1-4.2 and the    *)
(* behaviour src/catch_tests/cashaddrenc_tests.cpp pins down.              *)
(*                                                                         *)
(* A base-32 string is kept as its 5-bit groups.  The 40-bit BCH checksum  *)
(* is abstracted to what it is for: it verifies exactly when prefix and    *)
(* groups are those it was computed over (a collision, 2^-40, is left      *)
(* out).  Letter case and the charset mapping are formatting and are left  *)
(* out.                                                                    *)
(*                                                                         *)
(* The reserved bit is bit 4 of the first 5-bit group, which is bit 7      *)
(* (0x80) of the version byte: the test sets data[0] |= 0x10 on the 5-bit  *)
(* data, and type 15 (version 0x78) round-trips in the test vectors.       *)
(***************************************************************************)
EXTENDS Integers, Sequences, Bitwise

CONSTANTS
  Prefixes,     \* network prefixes (CChainParams::CashAddrPrefix)
  Types,        \* CashAddrType values a caller packs (uint8_t)
  Hashes,       \* hash byte sequences, of valid and invalid lengths
  RawPayloads,  \* 5-bit group sequences handed to cashaddr::Encode directly
  NoPrefix      \* an address typed without "prefix:"

VARIABLE call   \* the call in progress: its inputs and its result

PUBKEY_TYPE == 0
SCRIPT_TYPE == 1

\* CashAddrContent{} : type 0, empty hash.
EmptyContent == [type |-> 0, hash |-> <<>>]

\* CTxDestination: CNoDestination, CKeyID or CScriptID.
NoDestination == [kind |-> "none", hash |-> <<>>]

Idle == [kind |-> "idle"]

-----------------------------------------------------------------------------
(* ConvertBits<frombits, tobits, pad>: regroup a sequence of frombits-bit  *)
(* values into tobits-bit values, most significant bit first.              *)

\* The inner while: emit every whole tobits group the accumulator holds.
RECURSIVE EmitGroups(_, _, _, _)
EmitGroups(acc, bits, tobits, out) ==
  IF bits >= tobits
    THEN EmitGroups(acc, bits - tobits, tobits,
                    Append(out, (acc \div 2^(bits - tobits)) % 2^tobits))
    ELSE [bits |-> bits, out |-> out]

\* The outer while: st is the state after st.i input values, acc masked
\* to frombits + tobits - 1 bits.
RECURSIVE ConvertLoop(_, _, _, _)
ConvertLoop(frombits, tobits, in, st) ==
  IF st.i = Len(in) THEN st
  ELSE LET a == (st.acc * 2^frombits + in[st.i + 1]) % 2^(frombits + tobits - 1)
           e == EmitGroups(a, st.bits + frombits, tobits, st.out)
       IN ConvertLoop(frombits, tobits, in,
                      [i |-> st.i + 1, acc |-> a, bits |-> e.bits, out |-> e.out])

\* The final check without its test of the dropped bits: a non-zero
\* remainder is accepted.
ConvertBitsPaddingUnchecked(frombits, tobits, pad, in) ==
  LET r == ConvertLoop(frombits, tobits, in,
                       [i |-> 0, acc |-> 0, bits |-> 0, out |-> <<>>])
      rest == (r.acc * 2^(tobits - r.bits)) % 2^tobits
  IN IF pad
       THEN [ok |-> TRUE,
             out |-> IF r.bits > 0 THEN Append(r.out, rest) ELSE r.out]
       ELSE [ok |-> ~(r.bits >= frombits), out |-> r.out]

\* With pad, the remaining bits go out zero-filled; without, a whole
\* frombits group left over, or a non-zero remainder, is a failure.
ConvertBits(frombits, tobits, pad, in) ==
  LET r == ConvertLoop(frombits, tobits, in,
                       [i |-> 0, acc |-> 0, bits |-> 0, out |-> <<>>])
      rest == (r.acc * 2^(tobits - r.bits)) % 2^tobits
  IN IF pad
       THEN [ok |-> TRUE,
             out |-> IF r.bits > 0 THEN Append(r.out, rest) ELSE r.out]
       ELSE [ok |-> ~(r.bits >= frombits \/ rest # 0), out |-> r.out]

-----------------------------------------------------------------------------
(* The content packer.                                                     *)

\* The switch on hash.size() * 8: the size class of each allowed length.
EncodedSize == [n \in {20, 24, 28, 32, 40, 48, 56, 64} |->
                  CASE n = 20 -> 0 [] n = 24 -> 1 [] n = 28 -> 2 [] n = 32 -> 3
                    [] n = 40 -> 4 [] n = 48 -> 5 [] n = 56 -> 6 [] n = 64 -> 7]

\* PackCashAddrContent: the version byte uint8_t(type << 3) | encoded_size,
\* then the hash, as 5-bit groups; any other length throws.
PackCashAddrContent(content) ==
  IF Len(content.hash) \notin DOMAIN EncodedSize
    THEN [ok |-> FALSE, out |-> <<>>]
    ELSE LET version == ((content.type * 8) % 256) + EncodedSize[Len(content.hash)]
         IN ConvertBits(8, 5, TRUE, <<version>> \o content.hash)

\* The hash size a version byte announces: 20 + 4 * (version & 0x03),
\* doubled when version & 0x04.
HashSizeOf(version) ==
  (20 + 4 * (version & 3)) * (IF (version & 4) # 0 THEN 2 ELSE 1)

\* The reserved bit read as bit 4 (0x10) of the version byte, as spec.md 3
\* words it.
VersionReservedBit4(version) == (version & 16) # 0

\* The reserved bit of the version byte.
VersionReserved(version) == (version & 128) # 0

-----------------------------------------------------------------------------
(* The base-32 codec, with the checksum abstracted.                        *)

\* cashaddr::Encode: prefix, ':', the groups, then the checksum.
Encode(prefix, values) ==
  [prefix |-> prefix, values |-> values, checksum |-> <<prefix, values>>]

\* The empty string (what EncodeCashAddr gives for CNoDestination).
EmptyAddress == [prefix |-> NoPrefix, values |-> <<>>, checksum |-> <<>>]

\* cashaddr::Decode: the prefix before the last ':' or the default one; a
\* failing checksum, or no payload at all, gives {"", {}}.
Decode(addr, defaultPrefix) ==
  LET prefix == IF addr.prefix = NoPrefix THEN defaultPrefix ELSE addr.prefix
  IN IF addr.checksum = <<prefix, addr.values>>
       THEN [prefix |-> prefix, payload |-> addr.values]
       ELSE [prefix |-> "", payload |-> <<>>]

\* DecodeCashAddrContent: the prefix must be the expected one; the groups
\* back to bytes without padding; no data, the reserved bit, or a length
\* other than the version's hash size gives CashAddrContent{}.
DecodeCashAddrContent(addr, expectedPrefix) ==
  LET d == Decode(addr, expectedPrefix)
      c == ConvertBits(5, 8, FALSE, d.payload)
  IN IF d.prefix # expectedPrefix \/ d.payload = <<>> \/ ~c.ok \/ c.out = <<>>
       THEN EmptyContent
     ELSE IF VersionReserved(c.out[1]) THEN EmptyContent
     ELSE IF Len(c.out) # HashSizeOf(c.out[1]) + 1 THEN EmptyContent
     ELSE [type |-> (c.out[1] \div 8) % 32, hash |-> Tail(c.out)]

\* DecodeCashAddrDestination: a 20-byte hash of type 0 or 1, else none.
DecodeCashAddrDestination(content) ==
  IF Len(content.hash) # 20 THEN NoDestination
  ELSE CASE content.type = PUBKEY_TYPE -> [kind |-> "key", hash |-> content.hash]
         [] content.type = SCRIPT_TYPE -> [kind |-> "script", hash |-> content.hash]
         [] OTHER -> NoDestination

\* EncodeCashAddr(dst, params): CNoDestination encodes to "".
EncodeCashAddr(dst, prefix) ==
  IF dst.kind = "none" THEN EmptyAddress
  ELSE Encode(prefix,
              PackCashAddrContent([type |-> IF dst.kind = "key" THEN PUBKEY_TYPE
                                                                ELSE SCRIPT_TYPE,
                                   hash |-> dst.hash]).out)

DecodeCashAddr(addr, prefix) ==
  DecodeCashAddrDestination(DecodeCashAddrContent(addr, prefix))

\* The address as the user hands it on: whole, or without "prefix:".
Handed(addr, stripped) == IF stripped THEN [addr EXCEPT !.prefix = NoPrefix]
                                      ELSE addr

Destinations ==
  {NoDestination} \cup
  {[kind |-> k, hash |-> h] : k \in {"key", "script"},
                              h \in {g \in Hashes : Len(g) = 20}}

-----------------------------------------------------------------------------

Init == call = Idle

\* EncodeCashAddr(prefix, content): PackCashAddrContent, then
\* cashaddr::Encode; a PackCashAddrContent that throws ends the call.
EncodeContent(type, hash, p) ==
  LET content == [type |-> type, hash |-> hash]
      packed == PackCashAddrContent(content)
  IN /\ call = Idle
     /\ call' = [kind |-> "content", content |-> content, p |-> p,
                 threw |-> ~packed.ok,
                 addr |-> IF packed.ok THEN Encode(p, packed.out) ELSE EmptyAddress,
                 q |-> NoPrefix, done |-> FALSE, decoded |-> EmptyContent]

\* 5-bit data handed to cashaddr::Encode as it is (the tests'
\* check_padding, check_type and check_size).
EncodeRaw(values, p) ==
  /\ call = Idle
  /\ call' = [kind |-> "raw", values |-> values, p |-> p, threw |-> FALSE,
              addr |-> Encode(p, values),
              q |-> NoPrefix, done |-> FALSE, decoded |-> EmptyContent]

\* EncodeCashAddr(dst, params).
EncodeDestination(dst, p) ==
  /\ call = Idle
  /\ call' = [kind |-> "dst", dst |-> dst, p |-> p, threw |-> FALSE,
              addr |-> EncodeCashAddr(dst, p),
              q |-> NoPrefix, done |-> FALSE, decoded |-> NoDestination]

\* The address handed back, whole or without its prefix, and decoded on
\* network q: DecodeCashAddr for a destination, DecodeCashAddrContent
\* otherwise.
DecodeAddress(q, stripped) ==
  LET addr == Handed(call.addr, stripped) IN
  /\ call # Idle
  /\ ~call.done
  /\ ~call.threw
  /\ call' = [call EXCEPT !.q = q, !.done = TRUE,
                          !.decoded = IF call.kind = "dst" THEN DecodeCashAddr(addr, q)
                                      ELSE DecodeCashAddrContent(addr, q)]

\* The caller drops the result (or the exception) and makes the next call.
Return ==
  /\ call # Idle
  /\ call.done \/ call.threw
  /\ call' = Idle

Next ==
  \/ /\ call = Idle
     /\ \/ \E t \in Types, h \in Hashes, p \in Prefixes : EncodeContent(t, h, p)
        \/ \E v \in RawPayloads, p \in Prefixes : EncodeRaw(v, p)
        \/ \E d \in Destinations, p \in Prefixes : EncodeDestination(d, p)
  \/ \E q \in Prefixes, s \in BOOLEAN : DecodeAddress(q, s)
  \/ Return

Spec == Init /\ [][Next]_call

-----------------------------------------------------------------------------
(* Properties.                                                             *)

\* PackCashAddrContent throws exactly for a hash length outside the size
\* table; otherwise decoding under the encoding network gives the content
\* back for every type below 16 (a larger type sets the reserved bit and
\* gives CashAddrContent{}), and under another network, with or without the
\* prefix in the string, gives CashAddrContent{}.  A destination comes
\* back as itself on its network and as CNoDestination on any other.  The
\* packer's size table and the decoder's size formula must agree, and the
\* reserved bit must be the one the type never reaches below 16.
DecodeInvertsEncode ==
  /\ call.kind = "content" =>
       call.threw = (Len(call.content.hash) \notin DOMAIN EncodedSize)
  /\ call.kind = "content" /\ call.done =>
       call.decoded = IF call.content.type < 16 /\ call.p = call.q
                        THEN call.content ELSE EmptyContent
  /\ call.kind = "dst" /\ call.done =>
       call.decoded = IF call.p = call.q THEN call.dst ELSE NoDestination

\* Every 5-bit payload DecodeCashAddrContent accepts is the one
\* PackCashAddrContent makes of what it decoded: no padding bits, extra
\* group or short payload slips through, so an address has one spelling.
CanonicalDecode ==
  call.kind = "raw" /\ call.done /\ call.decoded # EmptyContent =>
    PackCashAddrContent(call.decoded) = [ok |-> TRUE, out |-> call.values]
=============================================================================
