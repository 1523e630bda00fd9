------------------------------ MODULE RPCHelp ------------------------------
(***************************************************************************)
(* CRPCTable::help (src/rpc/server.cpp): the text of the "help" RPC.       *)
(*                                                                         *)
(* A std::string is a sequence of character codes, compared by             *)
(* std::string's lexicographic order, so the sort of the (category + key)  *)
(* strings is the code's.  A ContextFreeRPCCommand is a record; equal      *)
(* records are the same pointer.  The help text a handler throws when      *)
(* fHelp is set is abstracted to the command and whether only its first    *)
(* line is kept; the "== Category ==" header, the blank line between       *)
(* categories and the "unknown command" answer are items of the result.   *)
(* Capitalisation of the header and the final strip of the trailing "\n"   *)
(* are layout and left out.                                                *)
(***************************************************************************)
EXTENDS Integers, Sequences, SequencesExt, FiniteSets

CONSTANTS
  HIDDEN,   \* the category "hidden"
  LABEL,    \* the string "label"
  Tables,   \* mapCommands as the constructor and appendCommand leave it
  Requests  \* strCommand values: "" and command names

VARIABLES
  tableRPC,  \* tableRPC.mapCommands
  request    \* the strCommand of the help call

vars == <<tableRPC, request>>

\* std::string operator<.
StrLess(a, b) ==
  \/ IsStrictPrefix(a, b)
  \/ \E i \in 1..Len(a) : /\ i =< Len(b) /\ a[i] < b[i]
                          /\ SubSeq(a, 1, i - 1) = SubSeq(b, 1, i - 1)

\* std::string::find(s) != npos.
Finds(t, s) == \E i \in 0..(Len(t) - Len(s)) : SubSeq(t, i + 1, i + Len(s)) = s

Blank == [kind |-> "blank"]
Header(cat) == [kind |-> "header", category |-> cat]
HelpText(p, firstLine) == [kind |-> "text", cmd |-> p, firstLine |-> firstLine]
Unknown(s) == [kind |-> "unknown", command |-> s]

\* Mutant: vCommands keyed by the map key alone.
EntriesByKey(mapCommands) ==
  {<<k, mapCommands[k]>> : k \in DOMAIN mapCommands}

\* The pairs (category + key, pcmd) of vCommands.  Ties on the string are
\* broken by pointer order; a well-formed table never has them.
Entries(mapCommands) ==
  {<<mapCommands[k].category \o k, mapCommands[k]>> : k \in DOMAIN mapCommands}

VCommands(mapCommands) ==
  SetToSortSeq(Entries(mapCommands), LAMBDA x, y : StrLess(x[1], y[1]))

\* One iteration of the loop over vCommands; st.ret is strRet, st.category
\* the category whose header was printed last, st.setDone the pointers
\* already called.
HelpStep(strCommand, st, entry) ==
  LET pcmd == entry[2]
      strMethod == pcmd.name
      listing == strCommand = <<>>
      hdr == IF listing /\ st.category # pcmd.category
               THEN (IF st.category # <<>> THEN <<Blank>> ELSE <<>>)
                      \o <<Header(pcmd.category)>>
               ELSE <<>>
  IN IF \/ Finds(strMethod, LABEL)
        \/ (~listing \/ pcmd.category = HIDDEN) /\ strMethod # strCommand
       THEN st
     ELSE IF pcmd \in st.setDone \/ ~pcmd.throws
       THEN [st EXCEPT !.setDone = @ \cup {pcmd}]
     ELSE [ret |-> st.ret \o hdr \o <<HelpText(pcmd, listing)>>,
           category |-> IF hdr # <<>> THEN pcmd.category ELSE st.category,
           setDone |-> st.setDone \cup {pcmd}]

help(mapCommands, strCommand) ==
  LET st == FoldLeft(LAMBDA s, e : HelpStep(strCommand, s, e),
                     [ret |-> <<>>, category |-> <<>>, setDone |-> {}],
                     VCommands(mapCommands))
  IN IF st.ret = <<>> THEN <<Unknown(strCommand)>> ELSE st.ret

\* The "help" RPC's own text: "List all commands, or get help for a
\* specified command."  execute() looks a command up by its map key.
Callable(mapCommands, k) == mapCommands[k].throws

\* Any table the node starts RPC with; appendCommand refuses changes once
\* RPC is running, so every help call of the run sees the same table.
Init ==
  /\ tableRPC \in Tables
  /\ request \in Requests

NextCall ==
  /\ request' \in Requests
  /\ UNCHANGED tableRPC

Spec == Init /\ [][NextCall]_vars

-----------------------------------------------------------------------------
(* The reference: what the listing is meant to be.                         *)

\* The least key a command is registered under.
FirstKey(mapCommands, p) ==
  CHOOSE k \in DOMAIN mapCommands :
    mapCommands[k] = p /\ \A j \in DOMAIN mapCommands :
      mapCommands[j] = p => k = j \/ StrLess(k, j)

\* The commands help lists: no "label" name, help text thrown, not hidden
\* in the listing, and named strCommand otherwise.
Listed(mapCommands, strCommand) ==
  { p \in {mapCommands[k] : k \in DOMAIN mapCommands} :
      /\ p.throws /\ ~Finds(p.name, LABEL)
      /\ IF strCommand = <<>> THEN p.category # HIDDEN
                              ELSE p.name = strCommand }

\* Category by category in order, each under one header, its commands in
\* order of their first key; for one command, its full text.
ReferenceHelp(mapCommands, strCommand) ==
  LET L == Listed(mapCommands, strCommand)
      before(p, q) ==
        \/ StrLess(p.category, q.category)
        \/ p.category = q.category /\
             StrLess(FirstKey(mapCommands, p), FirstKey(mapCommands, q))
      texts(S) == LET s == SetToSortSeq(S, before)
                  IN [i \in 1..Len(s) |-> HelpText(s[i], strCommand = <<>>)]
      cats == SetToSortSeq({p.category : p \in L}, StrLess)
      section(i) == (IF i > 1 THEN <<Blank>> ELSE <<>>)
                      \o <<Header(cats[i])>>
                      \o texts({p \in L : p.category = cats[i]})
  IN IF L = {} THEN <<Unknown(strCommand)>>
     ELSE IF strCommand = <<>> THEN FlattenSeq([i \in 1..Len(cats) |-> section(i)])
     ELSE texts(L)

-----------------------------------------------------------------------------
(* Properties.                                                             *)

\* help lists every visible command once, with the first line of its help,
\* category by category under one header each (setDone drops a command
\* registered under a second key), and for a command name gives the full
\* help of the commands of that name, hidden ones included.
HelpMatchesReference ==
  help(tableRPC, request) = ReferenceHelp(tableRPC, request)

\* The "help" RPC's own text: "get help for a specified command": help
\* answers for every command registered under its name whose handler
\* throws its help text.
HelpAnswersEveryCommand ==
  \A k \in DOMAIN tableRPC :
    Callable(tableRPC, k) /\ tableRPC[k].name = k =>
      help(tableRPC, k) # <<Unknown(k)>>
=============================================================================
