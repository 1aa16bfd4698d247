------------------------------- MODULE Forms --------------------------------
(* Editing a destination in the console: the form of its sheet, the API that    *)
(* hides the values of the headers with a secret, and the update that takes the *)
(* headers as a whole.  A value is a model value, with none of its layout: what *)
(* is left of a masked one is Masked.  The name of a header is never typed      *)
(* over, only the row is removed and another one added.                         *)
EXTENDS Sequences, SequencesExt, FiniteSets, Integers

CONSTANTS HeaderName,
  Sensitive,  \* the names that SENSITIVE matches
  Secret,     \* values somebody chose
  Masked,     \* what a response has instead of a secret
  Nothing,    \* no value typed yet; no form open; no save under way
  MaxSaves    \* bound on the updates

VARIABLES
  headers, \* of the destination, as stored
  row,     \* of the destination, as in the list the console has read
  form,    \* the rows of the open form, in order
  touched, \* the names whose rows were added, typed into or removed since it was opened
  saving,  \* the headers of the save under way, and whether the server has it
  saves

forms == <<headers, row, form, touched, saving, saves>>

(* maskHeaders: the view of a destination.                                       *)
maskHeaders(hs) == [n \in DOMAIN hs |-> IF n \in Sensitive THEN Masked ELSE hs[n]]

(* toRows and the submit of the form: of two rows with one name the last counts. *)
Row(n, v) == [name |-> n, value |-> v]
toRows(hs) == LET ns == SetToSeq(DOMAIN hs) IN [i \in 1 .. Len(ns) |-> Row(ns[i], hs[ns[i]])]
picked(rows) ==
  [n \in {rows[i].name : i \in DOMAIN rows} |-> rows[SelectLastInSeq(rows, LAMBDA r : r.name = n)].value]
valid(rows) == \A i \in DOMAIN rows : rows[i].value # Nothing

FormsInit ==
  /\ headers \in UNION {[ns -> Secret] : ns \in SUBSET HeaderName}
  /\ row = maskHeaders(headers)
  /\ form = Nothing /\ touched = {} /\ saving = Nothing /\ saves = 0

OpenForm == form = Nothing /\ form' = toRows(row) /\ touched' = {} /\ UNCHANGED <<headers, row, saving, saves>>
CloseForm == form # Nothing /\ form' = Nothing /\ UNCHANGED <<headers, row, touched, saving, saves>>

Touch(rows, n) ==
  form # Nothing /\ form' = rows /\ touched' = touched \cup {n} /\ UNCHANGED <<headers, row, saving, saves>>

SetHeader(i, v) == form # Nothing /\ i \in DOMAIN form /\ Touch([form EXCEPT ![i].value = v], form[i].name)
RemoveHeader(i) == form # Nothing /\ i \in DOMAIN form /\ Touch(RemoveAt(form, i), form[i].name)
AddHeader(n) == form # Nothing /\ Len(form) < Cardinality(HeaderName) /\ Touch(Append(form, Row(n, Nothing)), n)

onSubmit ==
  /\ form # Nothing /\ valid(form) /\ saving = Nothing /\ saves < MaxSaves
  /\ saving' = [headers |-> picked(form), stored |-> FALSE]
  /\ saves' = saves + 1
  /\ UNCHANGED <<headers, row, form, touched>>

(* update: the headers that were sent replace those that are stored.             *)
Update ==
  /\ saving # Nothing /\ ~ saving.stored
  /\ headers' = saving.headers
  /\ saving' = [saving EXCEPT !.stored = TRUE]
  /\ UNCHANGED <<row, form, touched, saves>>

(* onSuccess: the list is read again; the form, once open, goes on as it is.     *)
Refresh ==
  /\ saving # Nothing /\ saving.stored
  /\ row' = maskHeaders(headers)
  /\ saving' = Nothing
  /\ UNCHANGED <<headers, form, touched, saves>>

FormsNext ==
  \/ OpenForm \/ CloseForm \/ onSubmit \/ Update \/ Refresh
  \/ \E i \in 1 .. Cardinality(HeaderName) : RemoveHeader(i) \/ \E v \in Secret : SetHeader(i, v)
  \/ \E n \in HeaderName : AddHeader(n)

FormsSpec == FormsInit /\ [][FormsNext]_forms

(* DestinationForm.tsx, in a comment: values come masked, so in an edit one only *)
(* enters again what is to change.  So what was not touched is not changed.      *)
KeepsUntouchedHeaders ==
  [][\A n \in DOMAIN headers \ touched : n \in DOMAIN headers' /\ headers'[n] = headers[n]]_forms
=============================================================================
