--------------------------- MODULE ViewHierarchy ---------------------------
(***************************************************************************)
(* The scene tree as JSON: the loop that writes it without recursion       *)
(* (processing/view_hierarchy_builder.cpp), the buffer that it grows       *)
(* (util/utf8_buffer.h), and the file that events are sent with            *)
(* (processing/view_hierarchy_processor.cpp).  Only the main thread writes *)
(* the file; other threads remove it and send what they find.  Names have  *)
(* no quotes here: the code writes them as they are.                       *)
(***************************************************************************)
EXTENDS Json, FiniteSets, SequencesExt

CONSTANTS
    Main, Workers,
    NameLengths,       \* of names, in characters
    CharBytes,         \* bytes of a character in UTF-8
    Estimate,          \* estimated_buffer_size at first
    Scripted,          \* the nodes that have a script
    MaxNodes, MaxEvents  \* bounds of the exploration

ViewHierarchyAssumption ==
    /\ Main \notin Workers /\ NameLengths \subseteq Nat /\ CharBytes \subseteq 1..4
    /\ {Estimate, MaxNodes, MaxEvents} \subseteq Nat /\ Scripted \subseteq Nat

VARIABLES
    ready,             \* are_engine_singletons_ready()
    scene, stage,      \* the nodes of the tree; of each thread, what comes next
    stack, hierarchy,  \* of the loop: nodes to visit, children left of the open ones
    buffer,            \* tokens, bytes used, capacity; whether a write went beyond it
    estimated_buffer_size,
    file, sent,        \* what is on disk, and what the last event of this scene has sent
    events             \* so far

walk == <<stack, hierarchy, buffer, estimated_buffer_size>>
vars == <<ready, scene, stage, walk, file, sent, events>>

Nothing == <<"nothing">>

\* Nodes are numbered, 1 is the root, and children follow their parents.
Nodes == 1..scene.nodes
Children(n) == SetToSortSeq({m \in Nodes : m > 1 /\ scene.parent[m] = n}, <)
Scenes == UNION {[nodes : {n}, parent : {p \in [1..n -> 0..n] : \A m \in 1..n : p[m] < m /\ (m > 1 => p[m] > 0)},
                  instanced : SUBSET (1..n), length : NameLengths, bytes : CharBytes] : n \in 0..MaxNodes}
NodeName == <<"n1", "n2", "n3", "n4", "n5">>

(***************************************************************************)
(* UTF8Buffer                                                              *)
(***************************************************************************)
RECURSIVE Doubled(_, _)
Doubled(capacity, expected) == IF expected > capacity THEN Doubled(2 * capacity, expected) ELSE capacity
Ensure_capacity(capacity, expected) ==
    IF expected <= capacity THEN capacity
    ELSE Doubled(IF capacity > 0 THEN 2 * capacity ELSE 1024, expected)

Appended(b, tokens, length, expected) ==
    LET capacity == Ensure_capacity(b.capacity, b.used + expected)
    IN [doc |-> b.doc \o tokens, used |-> b.used + length, capacity |-> capacity,
        overrun |-> b.overrun \/ b.used + length > capacity]
Append_text(b, tokens, length) == Appended(b, tokens, length, length + 1)
\* A string, for which four bytes per character are reserved
Append_string_Ascii(b, token) == Appended(b, <<token>>, scene.length * scene.bytes, scene.length + 1)
Append_string(b, token) == Appended(b, <<token>>, scene.length * scene.bytes, scene.length * 4 + 1)

\* A value ends with a quote, so only objects end with a brace.
Ends_with_brace(b) == b.doc # <<>> /\ Last(b.doc) = "}"

Name_value_pair(b, comma, name) ==
    Append_text(Append_string(Append_text(b, comma \o <<name, ":">>, Len(name) + 5), "text"), <<>>, 1)
Name_pair(b, n) == Append_text(Append_string(Append_text(b, <<"name", ":">>, 8), NodeName[n]), <<>>, 1)

(***************************************************************************)
(* ViewHierarchyBuilder                                                    *)
(***************************************************************************)
Init ==
    /\ ready \in BOOLEAN /\ scene \in Scenes
    /\ stage = [t \in Workers \cup {Main} |-> "idle"]
    /\ stack = <<>> /\ hierarchy = <<>> /\ estimated_buffer_size = Estimate
    /\ buffer = [doc |-> <<>>, used |-> 0, capacity |-> 0, overrun |-> FALSE]
    /\ file = Nothing /\ sent = Nothing /\ events = 0

Goto(t, next) == stage' = [stage EXCEPT ![t] = next]
NewBuffer(capacity) == [doc |-> <<>>, used |-> 0, capacity |-> capacity, overrun |-> FALSE]
Head_tokens == <<"{", "rendering_system", ":", "Godot", ",", "windows", ":", "[">>

Build_json ==
    /\ stage[Main] = "build"
    /\ IF ready
       THEN /\ buffer' = Append_text(NewBuffer(estimated_buffer_size), Head_tokens, 39)
            /\ stack' = IF scene.nodes > 0 THEN <<1>> ELSE <<>>
            /\ hierarchy' = <<>>
            /\ Goto(Main, "visit")
       ELSE /\ buffer' = NewBuffer(0)
            /\ Goto(Main, "open") /\ UNCHANGED <<stack, hierarchy>>
    /\ UNCHANGED <<ready, scene, estimated_buffer_size, file, sent, events>>

\* After the last child of a node its list ends, and the node.
RECURSIVE Unwound(_, _)
Unwound(h, b) ==
    IF h = <<>> THEN [hierarchy |-> h, buffer |-> b]
    ELSE IF Last(h) > 1 THEN [hierarchy |-> Append(Front(h), Last(h) - 1), buffer |-> b]
    ELSE Unwound(Front(h), Append_text(b, <<"]", "}">>, 2))
Ended(h, b) == Unwound(h, b)

Visit ==
    /\ stage[Main] = "visit" /\ stack # <<>>
    /\ LET n == Last(stack)
           opened == IF Ends_with_brace(buffer) THEN Append_text(buffer, <<",", "{">>, 2)
                     ELSE Append_text(buffer, <<"{">>, 1)
           named == Name_value_pair(Name_pair(opened, n), <<",">>, "class")
           filed == IF n \in scene.instanced THEN Name_value_pair(named, <<",">>, "scene") ELSE named
           b == IF n \in Scripted THEN Name_value_pair(filed, <<",">>, "script") ELSE filed
           children == Children(n)
       IN IF children # <<>>
          THEN /\ buffer' = Append_text(b, <<",", "children", ":", "[">>, 13)
               /\ stack' = Front(stack) \o Reverse(children)
               /\ hierarchy' = Append(hierarchy, Len(children))
          ELSE LET end == Ended(hierarchy, Append_text(b, <<"}">>, 1))
               IN buffer' = end.buffer /\ hierarchy' = end.hierarchy /\ stack' = Front(stack)
    /\ UNCHANGED <<ready, scene, stage, estimated_buffer_size, file, sent, events>>

Finish ==
    /\ stage[Main] = "visit" /\ stack = <<>>
    /\ buffer' = Append_text(buffer, <<"]", "}">>, 2)
    /\ estimated_buffer_size' = IF buffer'.capacity > estimated_buffer_size THEN buffer'.capacity
                                ELSE estimated_buffer_size
    /\ Goto(Main, "open")
    /\ UNCHANGED <<ready, scene, stack, hierarchy, file, sent, events>>

(***************************************************************************)
(* ViewHierarchyProcessor, and the backend that sends the file             *)
(***************************************************************************)
Process_event(t) ==
    /\ stage[t] = "idle" /\ events < MaxEvents
    /\ events' = events + 1
    /\ file' = Nothing                  \* std::remove()
    /\ Goto(t, IF t = Main THEN "build" ELSE "send")
    /\ UNCHANGED <<ready, scene, walk, sent>>

Open ==
    /\ stage[Main] = "open"
    /\ file' = <<>> /\ Goto(Main, "write")
    /\ UNCHANGED <<ready, scene, walk, sent, events>>

\* The file grows in blocks; one that has been removed is written for nobody.
WriteBlock ==
    /\ stage[Main] = "write" /\ file \notin {buffer.doc, Nothing}
    /\ file' = IF Len(file) = 0 /\ Len(buffer.doc) > 20 THEN SubSeq(buffer.doc, 1, 20) ELSE buffer.doc
    /\ UNCHANGED <<ready, scene, stage, walk, sent, events>>

Written == file \in {buffer.doc, Nothing}
Close ==
    /\ stage[Main] = "write" /\ Written
    /\ buffer' = NewBuffer(0) /\ Goto(Main, "send")
    /\ UNCHANGED <<ready, scene, stack, hierarchy, estimated_buffer_size, file, sent, events>>

Send(t) ==
    /\ stage[t] = "send"
    /\ sent' = file /\ Goto(t, "idle")
    /\ UNCHANGED <<ready, scene, walk, file, events>>

\* The game goes on between the events of its thread.
ChangeScene ==
    /\ stage[Main] = "idle" /\ events < MaxEvents
    /\ ready' = TRUE /\ scene' \in Scenes /\ sent' = Nothing
    /\ UNCHANGED <<stage, walk, file, events>>

Next ==
    \/ Build_json \/ Visit \/ Finish \/ Open \/ WriteBlock \/ Close \/ ChangeScene
    \/ \E t \in Workers \cup {Main} : Process_event(t) \/ Send(t)

Spec == Init /\ [][Next]_vars

(***************************************************************************)
(* Properties                                                              *)
(***************************************************************************)
TypeOK ==
    /\ \A i \in DOMAIN stack : stack[i] \in Nodes
    /\ hierarchy # <<>> => Len(stack) = FoldSeq(LAMBDA left, sum : sum + left - 1, 1, hierarchy)
    /\ \A i \in DOMAIN hierarchy : hierarchy[i] > 0
    /\ stage[Main] = "open" => stack = <<>> /\ hierarchy = <<>>

RECURSIVE NodeObject(_)
NodeObject(n) ==
    LET children == Children(n)
        fields == "name" :> Scalar(NodeName[n]) @@ "class" :> Scalar("text")
        scene_path == IF n \in scene.instanced THEN "scene" :> Scalar("text") ELSE NoFields
        script == IF n \in Scripted THEN "script" :> Scalar("text") ELSE NoFields
        below == IF children = <<>> THEN NoFields
                 ELSE "children" :> Array([i \in DOMAIN children |-> NodeObject(children[i])])
    IN Object(fields @@ scene_path @@ script @@ below)
Windows == IF scene.nodes = 0 THEN <<>> ELSE <<NodeObject(1)>>

\* The text reads back as the scene: every node once, under its parent and in
\* order, with its scene file and its script if it has them
\* (ViewHierarchyBuilder::build_json()).
DescribesScene ==
    stage[Main] \in {"open", "write"} /\ buffer.doc # <<>> =>
        Parse(buffer.doc) = Object("rendering_system" :> Scalar("Godot") @@ "windows" :> Array(Windows))

\* No character is written beyond the memory of the buffer (UTF8Buffer::append()).
BufferFits == ~buffer.overrun

\* No event is sent with a part of the text (ViewHierarchyProcessor::process_event()).
SentWhole == sent \notin {Nothing, <<>>} => Parse(sent) # Malformed
=============================================================================
