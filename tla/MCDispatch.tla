----------------------------- MODULE MCDispatch -----------------------------
(***************************************************************************)
(* Scenarios: one request with any legal history, or with any three tools; *)
(* three that negotiate over two upstreams; any request beside one that    *)
(* negotiates; four whose records meet the retention; and three of two     *)
(* sessions that pause.                                                    *)
(***************************************************************************)
EXTENDS Dispatch

CONSTANTS r1, r2, r3, r4, k1, k2

Item(kind, id, tool) == [kind |-> kind, id |-> id, tool |-> tool, names |-> {}]
Plain == [backend |-> "chat", key |-> k1, schema |-> FALSE, stream |-> FALSE,
          guardian |-> FALSE, early |-> <<>>, tools |-> <<>>, custom |-> "as_function",
          session |-> None, preserve |-> FALSE, input |-> <<>>]
Asking == [Plain EXCEPT !.schema = TRUE]
NoRequests == [r \in Requests |-> None]
AnySupport == [Keys -> SUBSET {"schema", "object"}]

(* Histories of up to five items, and longer ones without texts. *)
Numbered(seq) == [i \in DOMAIN seq |-> IF seq[i].id = 0 THEN [seq[i] EXCEPT !.id = i] ELSE seq[i]]
Calls == {Item(k, id, "tool") : k \in {"call", "output"}, id \in {11, 12}}
Says == {Item(k, 0, "text") : k \in {"user", "assistant", "agent", "reasoning"}}
         \cup {Item("assistant", 0, "blank")}
Histories ==
  {Numbered(h) : h \in UNION {[1..n -> Calls \cup Says] : n \in 1..5}
                  \cup [1..6 -> Calls \cup {Item("agent", 0, "text")}]}
Translated ==
  {[shape |-> [NoRequests EXCEPT ![r1] = [Plain EXCEPT !.preserve = b, !.input = h]],
    supports |-> [k \in Keys |-> {}], ticks |-> 0, changes |-> 0]
   : b \in BOOLEAN, h \in {g \in Histories : Legal(g)}}

Negotiating ==
  {[shape |-> [NoRequests EXCEPT ![r1] = Asking, ![r2] = Asking, ![r3] = Asking],
    supports |-> [k \in Keys |-> s], ticks |-> 2, changes |-> 0]
   : s \in SUBSET {"schema", "object"}}
Changing ==
  {[shape |-> [NoRequests EXCEPT ![r1] = Asking, ![r2] = Asking],
    supports |-> [k \in Keys |-> s], ticks |-> 2, changes |-> 1]
   : s \in SUBSET {"schema", "object"}}
Evicting ==
  {[shape |-> [NoRequests EXCEPT ![r1] = Asking, ![r2] = Asking, ![r3] = [Asking EXCEPT !.key = k2]],
    supports |-> s, ticks |-> 1, changes |-> 0]
   : s \in {f \in AnySupport : f[k2] = {}}}

(* Tools: functions that have the names a child of a namespace would get,  *)
(* children without, with encrypted and with unsafe names; in the input,   *)
(* in the request, or in both.                                             *)
Function(name) ==
  [type |-> "function", name |-> name, description |-> "", children |-> <<>>]
Custom(name) == [Function(name) EXCEPT !.type = "custom"]
Open(c) == [name |-> c, encrypted |-> FALSE]
Sealed(c) == [name |-> c, encrypted |-> TRUE]
Namespace(n, children) ==
  [type |-> "namespace", name |-> <<n>>, description |-> "", children |-> children]
MCSafeName == [c \in {"s", "t", "u.", "u:"} |-> IF c \in {"s", "t"} THEN c ELSE "u_"]
MCDenied == {<<"t">>, <<"b", "s">>}

Declarations ==
  {Function(<<"s">>), Function(<<"a", "s">>), Function(<<"a", "__", "s">>), Function(<<"u.">>),
   Custom(<<"t">>), Custom(<<"u:">>), Namespace("a", <<>>), Namespace("a", <<Open("s")>>),
   Namespace("a", <<Sealed("s"), Open("t")>>), Namespace("a", <<Open("u."), Open("u:")>>),
   Namespace("b", <<Open("t"), Open("s")>>), Namespace("b", <<Open("s")>>)}
Declaring ==
  {[shape |-> [NoRequests EXCEPT ![r1] =
      [Plain EXCEPT !.backend = b, !.custom = st, !.early = SubSeq(d, 1, n),
                    !.tools = SubSeq(d, n + 1, Len(d))]],
    supports |-> [k \in Keys |-> {}], ticks |-> 0, changes |-> 0]
   : <<b, st, n>> \in {<<"chat", "as_function", 0>>, <<"chat", "drop", 0>>,
                       <<"chat", "as_function", 1>>, <<"native", "as_function", 1>>},
     d \in {l \in UNION {[1..k -> Declarations] : k \in 1..3} : Distinct(l, "as_function")}}
SubAgents ==
  <<[Namespace("mine", <<Sealed("s"), Open("t")>>) EXCEPT !.description = "sub-agents"]>>
Judging ==
  {[shape |-> [NoRequests EXCEPT ![r1] =
      [Plain EXCEPT !.backend = b, !.guardian = TRUE, !.tools = SubAgents]],
    supports |-> [k \in Keys |-> {}], ticks |-> 0, changes |-> 0] : b \in {"chat", "native"}}

Mixed ==
  {[shape |-> [NoRequests EXCEPT ![r1] = Asking,
     ![r2] = [Plain EXCEPT !.backend = b, !.schema = f, !.stream = st, !.tools = t]],
    supports |-> [k \in Keys |-> s], ticks |-> 1, changes |-> 0]
   : b \in {"chat", "native"}, f \in BOOLEAN, st \in BOOLEAN,
     t \in {<<>>, SubAgents}, s \in SUBSET {"schema", "object"}}

(* Either time passes, or there is a fourth answer. *)
Recording ==
  {[shape |-> [NoRequests EXCEPT ![r1] = [Plain EXCEPT !.session = 1], ![r2] = Plain,
     ![r3] = [Plain EXCEPT !.backend = "native", !.session = 1],
     ![r4] = IF ticks = 0 THEN Plain ELSE @],
    supports |-> [k \in Keys |-> {}], ticks |-> ticks, changes |-> 0] : ticks \in {0, 2}}

(* Pausing after plain talk, after work, with a plan that is done, and     *)
(* with a child at work.                                                   *)
Talk == <<Item("user", 1, "text")>>
Work == Talk \o <<Item("call", 11, "tool"), Item("output", 11, "tool")>>
Planned == Talk \o <<Item("call", 11, "plan_done"), Item("output", 11, "plan_done")>>
Spawned == Talk \o <<Item("call", 11, "spawn"), [Item("output", 11, "spawn") EXCEPT !.names = {5}]>>
Parted == Spawned \o <<Item("call", 12, "spawn"), [Item("call", 13, "wait") EXCEPT !.names = {5}]>>
Waiting == Spawned \o <<Item("call", 13, "wait")>> \o Talk
Pausing ==
  {[shape |-> [NoRequests EXCEPT ![r1] = [Plain EXCEPT !.session = 1, !.input = a],
     ![r2] = [Plain EXCEPT !.session = 1, !.input = b], ![r3] = [Plain EXCEPT !.session = 2, !.input = Talk]],
    supports |-> [k \in Keys |-> {}], ticks |-> 0, changes |-> 0]
   : a \in {Talk, Planned}, b \in {Talk, Work, Parted, Waiting}}

(* What one request is told, and what concurrent ones share. *)
MCFamilies ==
  <<Translated, Declaring, Judging,
    Negotiating, Changing, Evicting, Mixed, Recording, Pausing>>
=============================================================================
