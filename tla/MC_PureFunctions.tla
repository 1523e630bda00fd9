-------------------------- MODULE MC_PureFunctions --------------------------
(***************************************************************************)
(* The pure functions of the project checked over bounded inputs:          *)
(* transformNamedArguments (RPCNamedArgs), the CashAddr content codec      *)
(* (CashAddr) and CRPCTable::help (RPCHelp).  None keeps state between     *)
(* calls and none calls another, so one run checks them as the parts of a  *)
(* disjoint union: a behaviour exercises one and holds the others fixed.   *)
(***************************************************************************)
EXTENDS Integers, Sequences

VARIABLES params, argNames, call, tableRPC, request, part

\* "x" is a name no command declares.
MCKeys == {"a", "b", "c", "x"}

\* Single names and both orders of a two-alias entry.
MCPatterns == {<<"a">>, <<"b">>, <<"c">>, <<"b", "c">>, <<"c", "b">>}

\* A hash of n bytes that are not all alike.
Ramp(n) == [i \in 1..n |-> (i * 37 + 11) % 256]

\* The 20-byte hash of the test vectors, F5BF48B3...DAC9.
VectorHash == <<245, 191, 72, 179, 151, 218, 231, 11, 232, 43,
                60, 202, 71, 147, 248, 235, 43, 108, 218, 201>>

\* Every valid length, the lengths one off a valid one, and none.
MCHashes ==
  {Ramp(n) : n \in {0, 19, 20, 21, 24, 28, 32, 40, 48, 56, 63, 64, 65}} \cup
  {VectorHash, [i \in 1..20 |-> 255]}

\* The tests' hand-made 5-bit data: check_padding (a 20-byte payload of
\* ones with every last group), check_type (every first group of a zero
\* payload), check_size (each size class, one group longer and shorter),
\* and the empty, one-group and reserved-bit-only payloads.
SizeClassData(sc, n) ==
  [i \in 1..((8 * (1 + n) + 4) \div 5) |-> IF i = 2 THEN sc * 4 ELSE 0]

MCRawPayloads ==
  {<<0>> \o [i \in 1..33 |-> IF i = 33 THEN v ELSE 1] : v \in 0..31} \cup
  {[i \in 1..34 |-> IF i = 1 THEN v ELSE 0] : v \in 0..31} \cup
  UNION {{d, d \o <<0>>, SubSeq(d, 1, Len(d) - 1)} :
           d \in {SizeClassData(sc, n) :
                    <<sc, n>> \in {<<0, 20>>, <<1, 24>>, <<2, 28>>, <<3, 32>>,
                                   <<4, 40>>, <<5, 48>>, <<6, 56>>, <<7, 64>>}}} \cup
  {<<>>, <<0>>, <<16>>}

\* Strings as character codes.  Categories "control" < "hidden" <
\* "wallet", none a prefix of another, as are the categories of the
\* node's commands; "label" is <<7, 8>>.
CTL == <<1>>
HID == <<2>>
WAL == <<3>>
MCLabel == <<7, 8>>

\* A ContextFreeRPCCommand: its category, name, and whether its handler
\* throws its help text when called with fHelp.
Cmd(cat, nm, throws) == [category |-> cat, name |-> nm, throws |-> throws]

\* help, stop, a handler that returns on fHelp, a wallet command whose
\* name has another as a prefix, a hidden one and a deprecated *label*.
MCCommands ==
  { Cmd(CTL, <<1>>, TRUE), Cmd(CTL, <<2, 1>>, TRUE),
    Cmd(CTL, <<4>>, FALSE), Cmd(WAL, <<1, 2>>, TRUE),
    Cmd(HID, <<5>>, TRUE), Cmd(WAL, <<6, 7, 8>>, TRUE) }

\* Keys appendCommand may be given besides a command's own name: one that
\* sorts before every name and one after.
MCAliasKeys == {<<0>>, <<9>>}

\* The constructor and appendCommand register each command under its
\* name; at most one command is also registered under an alias key.
ByName(S) == [k \in {c.name : c \in S} |-> CHOOSE c \in S : c.name = k]

MCTables ==
  UNION { {ByName(S)} \cup
          {[k \in DOMAIN ByName(S) \cup {a} |->
              IF k = a THEN c ELSE ByName(S)[k]] : a \in MCAliasKeys, c \in S}
          : S \in SUBSET MCCommands }

MCRequests == {<<>>} \cup {c.name : c \in MCCommands} \cup MCAliasKeys \cup {<<3>>}

H == INSTANCE RPCHelp WITH
       HIDDEN <- HID, LABEL <- MCLabel, Tables <- MCTables,
       Requests <- MCRequests

N == INSTANCE RPCNamedArgs WITH
       Keys <- MCKeys, Patterns <- MCPatterns, MaxParams <- 3, MaxArgs <- 3

C == INSTANCE CashAddr WITH
       Prefixes <- {"devault", "dvtest", "dvreg"}, Types <- 0..31,
       Hashes <- MCHashes, RawPayloads <- MCRawPayloads, NoPrefix <- "none"

allVars == <<params, argNames, call, tableRPC, request, part>>

NoHelpCall == tableRPC = <<>> /\ request = <<>>

Init ==
  \/ part = "namedargs" /\ N!Init /\ C!Init /\ NoHelpCall
  \/ part = "cashaddr" /\ params = <<>> /\ argNames = <<>> /\ C!Init
     /\ NoHelpCall
  \/ part = "help" /\ params = <<>> /\ argNames = <<>> /\ C!Init /\ H!Init

Next ==
  \/ part = "namedargs" /\ N!NextCall
     /\ UNCHANGED <<call, tableRPC, request, part>>
  \/ part = "cashaddr" /\ C!Next
     /\ UNCHANGED <<params, argNames, tableRPC, request, part>>
  \/ part = "help" /\ H!NextCall /\ UNCHANGED <<params, argNames, call, part>>

MCSpec == Init /\ [][Next]_allVars

\* transformNamedArguments gives the reference's positional parameters.
NamedArgsMatchReference == N!TransformMatchesReference

\* Decoding under the encoding network inverts packing and encoding, and
\* any other network gives nothing.
CashAddrDecodeInvertsEncode == C!DecodeInvertsEncode

\* Every accepted 5-bit payload is the packing of what it decodes to.
CashAddrCanonicalDecode == C!CanonicalDecode

\* help lists each visible command once, under one header per category,
\* and gives the full help of the commands named in a request.
HelpMatchesReference == part = "help" => H!HelpMatchesReference

\* help answers for every command registered under its own name.
HelpAnswersEveryCommand == part = "help" => H!HelpAnswersEveryCommand
=============================================================================
