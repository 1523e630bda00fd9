------------------------------ MODULE WalletTx ------------------------------
(***************************************************************************)
(* How a CWalletTx's metadata is kept in its "tx" record (src/wallet/      *)
(* wallet.h, CWalletTx::Serialize and Unserialize, ReadOrderPos and        *)
(* WriteOrderPos).                                                         *)
(*                                                                         *)
(* A string is a sequence of one-character strings.  mapValue is a         *)
(* function from key names to strings.  strFromAccount, nOrderPos and      *)
(* nTimeSmart are not stored as fields: Serialize adds them to a copy of   *)
(* mapValue under "fromaccount", "n" and "timesmart", as decimal text,     *)
(* and Unserialize takes them out again.  The other fields of the record   *)
(* are written and read as they are and are left out.  unsigned int has   *)
(* UIntBits bits (32 in the build; fewer under TLC, whose integers are     *)
(* 32-bit signed).                                                         *)
(***************************************************************************)
EXTENDS Integers, Sequences, Functions, TLC

CONSTANT UIntBits

UIntLimit == 2^UIntBits

DigitChar == <<"0", "1", "2", "3", "4", "5", "6", "7", "8", "9">>

IsDigit(c) == \E d \in 1..10 : DigitChar[d] = c

DigitValue(c) == (CHOOSE d \in 1..10 : DigitChar[d] = c) - 1

\* The decimal digits of n >= 0.
RECURSIVE Decimal(_)
Decimal(n) ==
  IF n < 10 THEN <<DigitChar[n + 1]>>
  ELSE Decimal(n \div 10) \o <<DigitChar[(n % 10) + 1]>>

\* i64tostr(n): strprintf("%d", n).
I64ToStr(n) == IF n < 0 THEN <<"-">> \o Decimal(-n) ELSE Decimal(n)

\* strprintf("%u", n) of an unsigned int.
FormatUnsigned(n) == Decimal(n)

\* The value of the leading digits of s, after acc.
RECURSIVE LeadingDigits(_, _)
LeadingDigits(s, acc) ==
  IF s # <<>> /\ IsDigit(Head(s))
    THEN LeadingDigits(Tail(s), 10 * acc + DigitValue(Head(s)))
    ELSE acc

\* std::atoll: an optional sign, then digits up to the first non-digit.
Atoll(s) ==
  IF s # <<>> /\ Head(s) = "-" THEN -LeadingDigits(Tail(s), 0)
  ELSE IF s # <<>> /\ Head(s) = "+" THEN LeadingDigits(Tail(s), 0)
  ELSE LeadingDigits(s, 0)

\* Keys Serialize adds to the map and Unserialize takes out ("spent" is
\* the vfSpent of wallets before 2014).
ReservedKeys == {"fromaccount", "n", "timesmart", "spent"}

\* m with k set to v (mapValue[k] = v).
MapSet(m, k, v) == (k :> v) @@ m

\* ReadOrderPos: -1 when there is no "n".
ReadOrderPos(m) == IF "n" \in DOMAIN m THEN Atoll(m["n"]) ELSE -1

\* WriteOrderPos: nothing for -1.
WriteOrderPos(pos, m) == IF pos = -1 THEN m ELSE MapSet(m, "n", I64ToStr(pos))

\* CWalletTx::Serialize: the mapValue the record holds.
Serialize(wtx) ==
  LET withAccount == MapSet(wtx.mapValue, "fromaccount", wtx.strFromAccount)
      withPos == WriteOrderPos(wtx.nOrderPos, withAccount)
  IN IF wtx.nTimeSmart # 0
       THEN MapSet(withPos, "timesmart", FormatUnsigned(wtx.nTimeSmart))
       ELSE withPos

\* Forgets mapValue.erase("n"): the order position stays in the map.
UnserializeKeepingOrderKey(m) ==
  [mapValue |-> Restrict(m, DOMAIN m \ {"fromaccount", "spent", "timesmart"}),
   strFromAccount |-> IF "fromaccount" \in DOMAIN m THEN m["fromaccount"]
                                                      ELSE <<>>,
   nOrderPos |-> ReadOrderPos(m),
   nTimeSmart |-> IF "timesmart" \in DOMAIN m
                    THEN Atoll(m["timesmart"]) % UIntLimit ELSE 0]

\* CWalletTx::Unserialize from the record's mapValue: Init(), then the
\* fields out of the map ("fromaccount" through mapValue[], which yields ""
\* when it is missing; nTimeSmart cast to unsigned int), then the erases.
Unserialize(m) ==
  [mapValue |-> Restrict(m, DOMAIN m \ ReservedKeys),
   strFromAccount |-> IF "fromaccount" \in DOMAIN m THEN m["fromaccount"]
                                                      ELSE <<>>,
   nOrderPos |-> ReadOrderPos(m),
   nTimeSmart |-> IF "timesmart" \in DOMAIN m
                    THEN Atoll(m["timesmart"]) % UIntLimit ELSE 0]
=============================================================================
