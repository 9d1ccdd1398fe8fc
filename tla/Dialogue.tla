------------------------------- MODULE Dialogue -------------------------------
(***************************************************************************)
(* conversation/service.py, _handle: what one turn makes of the operation  *)
(* pending in a conversation.  Pure operators; ConversationTurns runs them *)
(* between loading and saving the conversation's snapshot.                 *)
(*                                                                         *)
(* A message is what detect_confirmation and the interpreter make of it: a *)
(* decision, an intent, the entities extracted, and the text taken as the  *)
(* answer when a name, a phone number or a code was asked for.  Of the     *)
(* five fields a booking needs, "name" and "phone" stand for themselves    *)
(* and "slot" for date, time and party; "change" stands for what a         *)
(* modification requests of those three.                                   *)
(***************************************************************************)
EXTENDS Naturals

CONSTANTS Value, NoValue

ASSUME ValueAssumption == NoValue \notin Value

Tool     == {"create", "modify", "cancel"}
Field    == {"name", "phone", "slot", "id", "change"}
Decision == {"affirmative", "negative", "correction", "unknown"}

\* REQUIRED_FIELDS
Required(t) ==
    CASE t = "create" -> {"name", "phone", "slot"}
      [] t = "modify" -> {"id", "change"}
      [] t = "cancel" -> {"id"}

\* Entities and validated_arguments; NoValue for a field that is absent.
Fields == [Field -> Value \cup {NoValue}]

Message == [decision: Decision, intent: Tool \cup {"other"}, entities: Fields, text: Fields]

Pending == [id: Nat, tool: Tool, args: Fields, missing: SUBSET Field, summary: Fields]
NoPending == [id |-> 0]

NoFields == [f \in Field |-> NoValue]
-------------------------------------------------------------------------------
Missing(t, args) == {f \in Required(t) : args[f] = NoValue}

\* validated_arguments.update(...)
Update(args, entities) ==
    [f \in Field |-> IF entities[f] # NoValue THEN entities[f] ELSE args[f]]

\* missing_fields[0], in the order of REQUIRED_FIELDS.
Asked(missing) ==
    CASE "name" \in missing  -> "name"
      [] "phone" \in missing -> "phone"
      [] "id" \in missing    -> "id"
      [] "slot" \in missing  -> "slot"
      [] OTHER               -> "change"

\* _merge_follow_up: a name without digits, a phone number and a code are taken as they are;
\* anything else goes through the extractor, except a text that is no number or no code.
FollowUp(p, m) ==
    LET f == Asked(p.missing) IN
    CASE f \in {"name", "phone", "id"} /\ m.text[f] # NoValue -> [p.args EXCEPT ![f] = m.text[f]]
      [] f \in {"phone", "id"} /\ m.text[f] = NoValue -> p.args
      [] OTHER -> Update(p.args, m.entities)

\* What _summary mentions: no word of the phone number.
Mentioned(t) == Required(t) \ {"phone"}

\* _summary raises KeyError when a field it needs is absent; the requested change, and the
\* phone number, may be.
Summarizes(t, args) == Missing(t, args) \subseteq {"change", "phone"}

\* _summary, by what it says of each field.
Summary(t, args) == [f \in Field |-> IF f \in Mentioned(t) THEN args[f] ELSE NoValue]

\* Seeded defect: the summary of a corrected operation is not refreshed.
MutKeepSummary(p, args) == [p EXCEPT !.args = args]

\* The arguments change and the summary with them; missing_fields stays as it was.
Corrected(p, args) == [p EXCEPT !.args = args, !.summary = Summary(p.tool, args)]

\* The follow-up's arguments, with the fields still missing.
Followed(p, args) ==
    LET missing == Missing(p.tool, args) IN
    [p EXCEPT !.args = args, !.missing = missing,
              !.summary = IF missing = {} THEN Summary(p.tool, args) ELSE @]

\* A new operation; nothing is summarized before it is complete.
Proposed(id, t, args) ==
    LET missing == Missing(t, args) IN
    [id |-> id, tool |-> t, args |-> args, missing |-> missing,
     summary |-> IF missing = {} THEN Summary(t, args) ELSE NoFields]

\* The reply to a pending operation that has just been followed up or proposed.
Prompt(p) == IF p.missing = {} THEN "confirm" ELSE "ask"

\* What a turn does, with the pending operation it leaves:
\* "run" executes it, "raise" lets a KeyError escape, the rest are replies.
Outcome(does, p) == [does |-> does, pending |-> p]

\* Seeded defect: a rejected operation stays pending.
MutKeepRejected(p) == p

\* A rejection clears pending_operation.
Rejected(p) == NoPending

\* _execute_read: a greeting, what cannot be done here, or what a read tool finds or
\* fails to find, is answered; an operation that is pending stays as it is.
ReadOnly(p) == Outcome("answer", p)

\* _handle on pending operation p; a new operation gets the given id.
Handle(p, m, id) ==
    LET awaiting == p # NoPending IN
    CASE awaiting /\ m.decision = "affirmative" /\ p.missing = {} ->
            Outcome("run", p)
      [] awaiting /\ m.decision = "negative" ->
            Outcome("answer", Rejected(p))
      [] awaiting /\ m.decision = "correction" ->
            LET args == Update(p.args, m.entities) IN
            IF Summarizes(p.tool, args) THEN Outcome("confirm", Corrected(p, args))
                                        ELSE Outcome("raise", p)
      [] awaiting /\ m.decision \notin {"negative", "correction"} /\ p.missing # {} ->
            LET q == Followed(p, FollowUp(p, m)) IN Outcome(Prompt(q), q)
      [] OTHER ->
            IF m.intent \in Tool
            THEN LET q == Proposed(id, m.intent, m.entities) IN Outcome(Prompt(q), q)
            ELSE ReadOnly(p)
===============================================================================
