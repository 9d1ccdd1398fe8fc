-------------------------- MODULE MCConversationTurns --------------------------
(* Small instances of ConversationTurns for TLC. *)
EXTENDS ConversationTurns, TLC

MCValue == {"Asha", "Ravi", "Yes", "number", "other number", "tonight", "code"}

Said(decision, intent, entities, text) ==
    [decision |-> decision, intent |-> intent,
     entities |-> entities @@ NoFields, text |-> text @@ NoFields]

Yes      == Said("affirmative", "other", NoFields, [name |-> "Yes"])
No       == Said("negative", "other", NoFields, NoFields)
Book     == Said("unknown", "create", [slot |-> "tonight", phone |-> "number"], NoFields)
BookAs   == Said("unknown", "create", [slot |-> "tonight", name |-> "Asha"], NoFields)
\* A whole booking; said when the phone number was asked for, its digits are the answer.
BookFor  == Said("unknown", "create", [slot |-> "tonight", phone |-> "number", name |-> "Asha"],
                 [phone |-> "number"])
Actually == Said("correction", "other", [name |-> "Ravi", phone |-> "other number"], NoFields)
Cancel   == Said("unknown", "cancel", [id |-> "code"], [id |-> "code"])

MCMessages  == {Yes, No, BookAs, BookFor, Actually, Cancel}
FewMessages == {Book, Actually, Yes}

\* What the schemas accept of what these messages can say.
Bookings(names) ==
    {[tool |-> "create", args |-> [name |-> n, phone |-> p, slot |-> "tonight"] @@ NoFields] :
         n \in names, p \in {"number", "other number"}}

MCOperation  == Bookings({"Asha", "Ravi"})
                   \cup {[tool |-> "cancel", args |-> [id |-> "code"] @@ NoFields]}
FewOperation == Bookings({"Ravi", "Yes"})

Symmetry == Permutations(Worker)
===============================================================================
