---------------------------- MODULE TypedEnvelope ----------------------------
(***************************************************************************)
(* protocol.envelope: the names in the messages of a session are numbered   *)
(* in a dictionary, and a message becomes an envelope of numbers, with its   *)
(* payload apart.                                                           *)
(***************************************************************************)
EXTENDS Integers, FiniteSets, Sequences

CONSTANTS
    Names,    \* trace ids, agents, message types, actions, capabilities, refs
    Before,   \* the order sorted() puts them in, as a set of pairs
    Bodies,   \* what params or result may be, when not empty
    Ids,      \* message ids
    Times,    \* when a message was made
    None      \* no action, or an empty one; empty params; an empty result

Message == [id : Ids, created : Times,
            trace : Names, source : Names, target : Names, type : Names,
            action : Names \cup {None}, capability : Seq(Names), refs : Seq(Names),
            params : Bodies \cup {None}, result : Bodies \cup {None}]

\* The number of a name is its place in sorted order, from 1.
Numbered(values) ==
    [v \in values |-> 1 + Cardinality({w \in values : <<w, v>> \in Before})]

Fields == {"traces", "agents", "msg_types", "actions", "capabilities", "state_refs"}

\* The names a message adds to each part of the dictionary.
Mentions(field, m) ==
    CASE field = "traces"       -> {m.trace}
      [] field = "agents"       -> {m.source, m.target}
      [] field = "msg_types"    -> {m.type}
      [] field = "actions"      -> {m.action} \ {None}
      [] field = "capabilities" -> {m.capability[k] : k \in DOMAIN m.capability}
      [] field = "state_refs"   -> {m.refs[k] : k \in DOMAIN m.refs}

Dictionary(messages) ==
    [field \in Fields |->
        Numbered(UNION {Mentions(field, messages[n]) : n \in DOMAIN messages})]

Payload(m) == [params |-> m.params, result |-> m.result]
Empty == [params |-> None, result |-> None]

\* Field "a" is absent (0) without an action, and "c" and "r" without a name.
\* The id of the message and the time it was made have no field.
Envelope(m, d, n) ==
    [i |-> n,
     q |-> d["traces"][m.trace],
     s |-> d["agents"][m.source],
     t |-> d["agents"][m.target],
     m |-> d["msg_types"][m.type],
     a |-> IF m.action = None THEN 0 ELSE d["actions"][m.action],
     c |-> [k \in DOMAIN m.capability |-> d["capabilities"][m.capability[k]]],
     r |-> [k \in DOMAIN m.refs |-> d["state_refs"][m.refs[k]]],
     p |-> Payload(m) # Empty]

\* What goes over the wire for a session: the dictionary, and for each message
\* its envelope and its payload.
Measured(messages) ==
    LET d == Dictionary(messages)
    IN  [n \in DOMAIN messages |-> [envelope |-> Envelope(messages[n], d, n),
                                    payload  |-> Payload(messages[n])]]

=============================================================================
