----------------------------- MODULE ToolNames -----------------------------
(***************************************************************************)
(* The names of tools.  Codex declares namespaces of tools; a provider     *)
(* only knows functions.  Each child of a namespace is advertised under a  *)
(* name of its own (src/src/namespace_helpers.rs, convert_tool and         *)
(* convert_responses_tool in src/src/transform.rs), the history is sent    *)
(* with these names, and a call of the model is given back its namespace   *)
(* and judged by the tool policy (src/src/response_codec.rs).              *)
(*                                                                         *)
(* A name is a sequence of parts: <<c>>; the runtime name <<n, c>> for     *)
(* n.c; <<n, "__", c>>, or <<n, "__", c, k>> for n__c_k; <<n, "_tool">>.   *)
(* The arguments of a call are Own, or the name in the tool field of an    *)
(* envelope {tool, arguments}.                                             *)
(*                                                                         *)
(* Simplifications.  Tools have names, and namespaces have no dot in       *)
(* theirs.  The only unsupported tool type is custom, the default.  A      *)
(* policy denies a tool, whatever its arguments.  Schemas and              *)
(* descriptions are left out, but for the one that marks sub-agents.       *)
(***************************************************************************)
EXTENDS Integers, FiniteSets, Sequences, SequencesExt

CONSTANTS
  SafeName,   \* child name -> the name with every unsafe character replaced
  Messaging,  \* MULTI_AGENT_V2_ENCRYPTED_TOOLS
  Control,    \* MULTI_AGENT_V2_CONTROL_TOOLS
  Denied      \* runtime names that the tool policy denies

Own == <<>>
NoName == <<>>

(* description: "" if it has none, "sub-agents" for that of MultiAgentV2.  *)
Strategies == {"drop", "passthrough", "as_function"}
Child == [name: STRING, encrypted: BOOLEAN]
Tool == [type: {"function", "custom", "namespace"}, name: Seq(STRING),
         description: STRING, children: Seq(Child)]

OrInsert(f, k, v) == IF k \in DOMAIN f THEN f ELSE (k :> v) @@ f
Helper(n) == <<n, "_tool">>
----------------------------------------------------------------------------
(* Declaring the tools *)

(* A chat provider gets the tools of the input first, a Responses provider *)
(* those of the request.                                                   *)
InTurn(backend, early, tools) ==
  IF backend = "chat" THEN early \o tools ELSE tools \o early

(* reserve_non_namespace_tool_names, over all the tools before any is      *)
(* converted.                                                              *)
Reserved(tools, strategy) ==
  {tools[i].name : i \in {j \in DOMAIN tools :
     /\ tools[j].type # "namespace"
     /\ tools[j].type = "custom" => strategy # "drop"}}

(* namespace_visible_name *)
VisibleName(n, c, used) ==
  LET base == <<n, "__", SafeName[c]>>
      taken(k) == Append(base, ToString(k)) \in used
      suffix == CHOOSE k \in 2..(Cardinality(used) + 2) :
                  ~taken(k) /\ \A j \in 2..(k - 1) : taken(j)
  IN CASE <<c>> \notin used -> <<c>>
       [] <<c>> \in used /\ base \notin used -> base
       [] OTHER -> Append(base, ToString(suffix))

(* register_with_encrypted_arguments: the first visible name of a tool    *)
(* replays its history, all of them call it, and so does its runtime name  *)
(* if that is free.                                                        *)
Register(h, runtime, visible, encrypted, free) ==
  LET called == OrInsert(h.aliases, visible, runtime)
      before == runtime \in DOMAIN h.runtimes /\ h.runtimes[runtime]
  IN [h EXCEPT
        !.reverse = OrInsert(@, runtime, visible),
        !.aliases = IF free THEN OrInsert(called, runtime, runtime) ELSE called,
        !.runtimes = (runtime :> (encrypted \/ before)) @@ @,
        !.collapsed = OrInsert(@, Helper(Head(runtime)), Head(runtime))]

Advertise(h, n, c) ==
  LET visible == VisibleName(n, c, h.used)
  IN [h EXCEPT !.used = @ \cup {visible, <<n, c>>}, !.advertised = Append(@, visible)]

(* Mutant for ExpandChild: the runtime name is taken for the child even if *)
(* an ordinary function has it.                                            *)
ExpandChildGreedily(h, n, child) ==
  Register(Advertise(h, n, child.name), <<n, child.name>>,
           VisibleName(n, child.name, h.used), child.encrypted, TRUE)

ExpandChild(h, n, child) ==
  Register(Advertise(h, n, child.name), <<n, child.name>>,
           VisibleName(n, child.name, h.used), child.encrypted,
           <<n, child.name>> \notin h.used)

(* A namespace without children is collapsed to one helper. *)
Collapse(h, n) ==
  [h EXCEPT !.used = @ \cup {Helper(n)}, !.collapsed = (Helper(n) :> n) @@ @,
            !.advertised = Append(@, Helper(n))]

(* record_namespace_description *)
Described(h, n, description) ==
  IF description = "" THEN h
  ELSE [h EXCEPT !.descriptions = OrInsert(@, n, description)]

Expand(h, tool) ==
  LET n == tool.name[1]
      d == Described(h, n, tool.description)
  IN IF tool.children = <<>> THEN Collapse(d, n)
     ELSE FoldLeft(LAMBDA s, child : ExpandChild(s, n, child), d, tool.children)

(* The names of the custom tools that are sent as functions.               *)
CustomNames(tools, strategy) ==
  {tools[i].name : i \in {j \in DOMAIN tools :
     tools[j].type = "custom" /\ strategy = "as_function"}}

Convert(h, tool, strategy) ==
  CASE tool.type = "namespace" -> Expand(h, tool)
    [] tool.type = "custom" /\ strategy = "drop" -> h
    [] OTHER -> [h EXCEPT !.advertised = Append(@, tool.name)]

Helpers(tools, strategy) ==
  FoldLeft(LAMBDA h, tool : Convert(h, tool, strategy),
    [used |-> Reserved(tools, strategy), custom |-> CustomNames(tools, strategy),
     advertised |-> <<>>, aliases |-> <<>>, reverse |-> <<>>, runtimes |-> <<>>,
     collapsed |-> <<>>, descriptions |-> <<>>], tools)

(* incompatible_plaintext_subagent_namespace: Codex reads plain text for   *)
(* sub-agents in the namespace "collaboration" only.                       *)
IncompatibleNamespace(h) ==
  \E n \in DOMAIN h.descriptions :
    /\ n # "collaboration" /\ h.descriptions[n] = "sub-agents"
    /\ \A c \in Messaging : <<n, c>> \in DOMAIN h.runtimes /\ h.runtimes[<<n, c>>]
    /\ \A c \in Control : <<n, c>> \in DOMAIN h.runtimes
----------------------------------------------------------------------------
(* A call of the model (rewrite_response_call) *)

(* resolve_nested_runtime *)
Nested(h, name) ==
  CASE name \in DOMAIN h.aliases -> h.aliases[name]
    [] name \notin DOMAIN h.aliases /\ name \in DOMAIN h.reverse -> name
    [] OTHER -> NoName

(* unwrap_registered_envelope: the runtime name of the tool inside.        *)
Unwrapped(h, name, args) ==
  CASE args = Own -> NoName
    [] args # Own /\ name \in DOMAIN h.collapsed ->
         IF Nested(h, args) # NoName THEN Nested(h, args)
         ELSE <<h.collapsed[name]>> \o args
    [] args # Own /\ name \notin DOMAIN h.collapsed /\ name \in DOMAIN h.aliases ->
         Nested(h, args)
    [] OTHER -> NoName

(* What Codex gets: a call, or a message that the policy blocked it.       *)
CallItem(namespace, name, plaintext, custom) ==
  [item |-> "call", namespace |-> namespace, name |-> name,
   plaintext |-> plaintext, custom |-> custom]
Blocked == [item |-> "blocked"]

(* rewritten_registered_call: plaintext marks arguments that Codex expects *)
(* to be encrypted.                                                        *)
Registered(h, runtime) ==
  CASE runtime \in DOMAIN h.runtimes ->
         CallItem(Head(runtime), Tail(runtime), h.runtimes[runtime], FALSE)
    [] runtime \notin DOMAIN h.runtimes /\ Len(runtime) > 1 /\ Head(runtime) \in Range(h.collapsed) ->
         CallItem(Head(runtime), Tail(runtime), FALSE, FALSE)
    [] OTHER -> CallItem("", runtime, FALSE, FALSE)

Rewritten(h, name, args) ==
  LET inner == Unwrapped(h, name, args)
  IN CASE inner # NoName -> Registered(h, inner)
       [] inner = NoName /\ name \in DOMAIN h.aliases -> Registered(h, h.aliases[name])
       [] OTHER -> CallItem("", name, FALSE, FALSE)

RuntimeName(call) ==
  IF call.namespace = "" THEN call.name ELSE <<call.namespace>> \o call.name

(* classify_rewritten_call: the policy knows the tool by its runtime name. *)
Denies(call) == RuntimeName(call) \in Denied
Judged(call) == IF Denies(call) THEN Blocked ELSE call

(* tool_call_item and morph_native_item; custom tools have no policy.      *)
Returned(h, name, args) ==
  IF name \in h.custom \ DOMAIN h.aliases THEN CallItem("", name, FALSE, TRUE)
  ELSE Judged(Rewritten(h, name, args))
----------------------------------------------------------------------------
(* The history of a request (to_visible_call_with_namespace) *)

ModelVisible(h, name) ==
  IF name \in DOMAIN h.aliases \cap DOMAIN h.reverse THEN h.reverse[name] ELSE name

Visible(h, namespace, name, args) ==
  LET split == namespace \notin {"", "functions"}
      said == IF split THEN <<namespace>> \o name ELSE name
      inner == Unwrapped(h, said, args)
      runtime == IF inner = NoName THEN said ELSE inner
  IN CASE ~split -> ModelVisible(h, runtime)
       [] split /\ runtime \in DOMAIN h.reverse -> h.reverse[runtime]
       [] OTHER -> runtime

(* A call of an earlier turn is sent under the name that is advertised     *)
(* now, and the mark of plain text is for Codex only.  The input of a      *)
(* custom call is not looked at.                                           *)
Replayed(h, call, args) ==
  LET flattened == call.namespace \notin {"", "functions"}
                     \/ call.name \in DOMAIN h.aliases \cup DOMAIN h.collapsed
  IN [name |-> Visible(h, call.namespace, call.name, IF call.custom THEN Own ELSE args),
      plaintext |-> call.plaintext /\ ~flattened]

(* rewrite_tool_choice_names *)
Chosen(h, namespace, name) == Visible(h, namespace, name, Own)
----------------------------------------------------------------------------
(* What the names must keep *)

(* The declared tools, as the calls that Codex wants to see.               *)
Childs(tools) ==
  UNION {{<<tools[i].name[1], tools[i].children[j].name>> : j \in DOMAIN tools[i].children} :
           i \in {k \in DOMAIN tools : tools[k].type = "namespace"}}
Encrypted(tools, n, c) ==
  \E i \in DOMAIN tools : tools[i].type = "namespace" /\ tools[i].name = <<n>>
    /\ \E j \in DOMAIN tools[i].children :
         tools[i].children[j] = [name |-> c, encrypted |-> TRUE]
Declared(tools, strategy) ==
  {CallItem(k[1], <<k[2]>>, Encrypted(tools, k[1], k[2]), FALSE) : k \in Childs(tools)}
    \cup {CallItem("", name, FALSE, name \in CustomNames(tools, strategy))
          : name \in Reserved(tools, strategy)}

(* The client names its functions differently, and no function like the    *)
(* helper of a namespace: for that the code has no other name.             *)
Distinct(tools, strategy) ==
  LET ordinary == SelectSeq(tools, LAMBDA t : t.type # "namespace")
      spaces == SelectSeq(tools, LAMBDA t : t.type = "namespace")
      empty == SelectSeq(spaces, LAMBDA t : t.children = <<>>)
  IN /\ IsInjective([i \in DOMAIN ordinary |-> ordinary[i].name])
     /\ IsInjective([i \in DOMAIN empty |-> empty[i].name])
     /\ \A i \in DOMAIN spaces : Helper(spaces[i].name[1]) \notin Reserved(tools, strategy)

(* Where the code does mistake a tool: the helper of one namespace with    *)
(* the name of a tool that is another one's; and, in the history, such a   *)
(* helper with a tool whose runtime name is that of a function.            *)
Mistaken(h, n, c) == <<c>> \in DOMAIN h.aliases /\ h.aliases[<<c>>] # <<n, c>>

RoutedHome(tools, strategy, h) ==
  LET due(call) ==
        IF ~call.custom /\ RuntimeName(call) \in Denied THEN Blocked ELSE call
  IN Distinct(tools, strategy) =>
       /\ IsInjective(h.advertised)
       /\ \A call \in Declared(tools, strategy) :
            LET name == Chosen(h, call.namespace, call.name) IN
            /\ Contains(h.advertised, name)
            /\ Returned(h, name, Own) = due(call)
            /\ Replayed(h, call, Own) = [name |-> name, plaintext |-> FALSE]
       /\ \A k \in Childs(tools) :
            LET call == CallItem(k[1], <<k[2]>>, Encrypted(tools, k[1], k[2]), FALSE)
                name == Chosen(h, k[1], <<k[2]>>)
                helper == CallItem("", Helper(k[1]), FALSE, FALSE)
            IN \A within \in {name, k, <<k[2]>>} :
                 \/ within = <<k[2]>> /\ Mistaken(h, k[1], k[2])
                 \/ /\ Returned(h, Helper(k[1]), within) = due(call)
                    /\ k \in Reserved(tools, strategy)
                         \/ Replayed(h, helper, within).name = name
============================================================================
