---------------------------- MODULE RPCNamedArgs ----------------------------
(***************************************************************************)
(* transformNamedArguments (src/rpc/server.cpp): a call made with a JSON   *)
(* object of named parameters is turned into positional parameters by the  *)
(* command's argNames, each an alias list "a|b" split on '|'.              *)
(*                                                                         *)
(* params is the object as UniValue keeps it: a sequence of <<key, value>> *)
(* pairs in which a key may repeat.  A value is the position of its pair,  *)
(* so the output shows which pair was taken; JSON null is Null.            *)
(***************************************************************************)
EXTENDS Integers, Sequences, SequencesExt, FiniteSets

CONSTANTS
  Keys,        \* parameter names a client may send
  Patterns,    \* argNames entries, as alias sequences
  MaxParams,   \* longest parameter object
  MaxArgs      \* longest argNames

VARIABLES params, argNames

vars == <<params, argNames>>

Null == 0
NoKey == "none"

ParamObjects == SeqOf(Keys, MaxParams)

\* Each alias appears in at most one argNames entry, as in vRPCCommands.
ArgNameLists ==
  {a \in SeqOf(Patterns, MaxArgs) :
     \A i, j \in DOMAIN a : i # j => ToSet(a[i]) \cap ToSet(a[j]) = {}}

\* Keeps the first of repeated names (argsIn.emplace instead of []).
ArgsInFirstWins(p) == [k \in ToSet(p) |-> Min({i \in DOMAIN p : p[i] = k})]

\* argsIn[keys[i]] = &values[i] for every i in order: a later repeat wins.
ArgsIn(p) == [k \in ToSet(p) |-> Max({i \in DOMAIN p : p[i] = k})]

\* The first alias of the entry present in argsIn.
FindAlias(aliases, argsIn) ==
  LET hits == {i \in DOMAIN aliases : aliases[i] \in DOMAIN argsIn} IN
  IF hits = {} THEN NoKey ELSE aliases[Min(hits)]

Nulls(n) == [i \in 1..n |-> Null]

\* The loop over argNames: fill the hole before a found parameter, take
\* the parameter out of argsIn, or widen the hole.
RECURSIVE Process(_, _, _, _)
Process(names, argsIn, hole, out) ==
  IF names = <<>> THEN [out |-> out, left |-> DOMAIN argsIn]
  ELSE LET fr == FindAlias(Head(names), argsIn) IN
       IF fr # NoKey
         THEN Process(Tail(names),
                      [k \in DOMAIN argsIn \ {fr} |-> argsIn[k]], 0,
                      out \o Nulls(hole) \o <<argsIn[fr]>>)
         ELSE Process(Tail(names), argsIn, hole + 1, out)

\* The outcome: the positional parameters, or the set of names the error
\* may report ("Unknown named parameter", argsIn.begin() of an
\* unordered_map).
TransformNamedArguments(p, names) ==
  LET r == Process(names, ArgsIn(p), 0, <<>>) IN
  IF r.left # {} THEN [ok |-> FALSE, out |-> <<>>, unknown |-> r.left]
  ELSE [ok |-> TRUE, out |-> r.out, unknown |-> {}]

-----------------------------------------------------------------------------
(* The reference: what a named call means.                                 *)

\* Entry i is given when one of its aliases is sent; the first such alias
\* names it, and a repeated name means its last value.
Given(p, names) == {i \in DOMAIN names : ToSet(names[i]) \cap ToSet(p) # {}}

Chosen(p, names, i) ==
  names[i][Min({j \in DOMAIN names[i] : names[i][j] \in ToSet(p)})]

LastValue(p, k) ==
  CHOOSE i \in DOMAIN p : p[i] = k /\ \A j \in DOMAIN p : j > i => p[j] # k

Reference(p, names) ==
  LET G == Given(p, names)
      used == {Chosen(p, names, i) : i \in G}
      last == IF G = {} THEN 0 ELSE Max(G)
  IN IF ToSet(p) \ used # {}
       THEN [ok |-> FALSE, out |-> <<>>, unknown |-> ToSet(p) \ used]
       ELSE [ok |-> TRUE, unknown |-> {},
             out |-> [i \in 1..last |->
                        IF i \in G THEN LastValue(p, Chosen(p, names, i))
                        ELSE Null]]

-----------------------------------------------------------------------------

Init ==
  /\ params \in ParamObjects
  /\ argNames \in ArgNameLists

\* The next call, with any parameter object and any command's argNames.
NextCall ==
  /\ params' \in ParamObjects
  /\ argNames' \in ArgNameLists

Spec == Init /\ [][NextCall]_vars

\* transformNamedArguments gives the reference's positional parameters: a
\* given entry's value (the last repeat of its first present alias), nulls
\* only in holes before a given entry, and an error naming exactly the
\* names no entry took, with an alias sent under two of its names among
\* them.
TransformMatchesReference ==
  TransformNamedArguments(params, argNames) = Reference(params, argNames)
=============================================================================
