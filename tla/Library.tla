------------------------------- MODULE Library -------------------------------
(***************************************************************************)
(* What the wallet promises its user: a list of entries that survives the  *)
(* program, changed by one request at a time.  An entry may have been      *)
(* commented out; it is then not in force.                                 *)
(***************************************************************************)
EXTENDS SequencesExt

CONSTANTS Entries, Nothing

VARIABLES
  items,   \* the entries in order, each with whether it is in force
  open,    \* a comment that does not end: what is added is commented out
  asked    \* the request under way, [op, entry], or Nothing

Request == [op : {"add", "remove"}, entry : Entries]

\* The positions of an entry, in force or not.
PlacesOf(entry) == {i \in DOMAIN items : items[i].entry = entry}

First(places) == CHOOSE i \in places : \A j \in places : i <= j

Init ==
  /\ items \in Seq([entry : Entries, in_force : BOOLEAN])
  /\ open \in BOOLEAN
  /\ asked = Nothing

\* A request is taken on; one to remove needs something to remove.
Ask ==
  /\ asked = Nothing
  /\ asked' \in Request
  /\ asked'.op = "remove" => PlacesOf(asked'.entry) # {}
  /\ UNCHANGED <<items, open>>

\* The entry is added as the last one.
AddEntry ==
  /\ asked # Nothing /\ asked.op = "add"
  /\ items' = Append(items, [entry |-> asked.entry, in_force |-> ~open])
  /\ asked' = Nothing
  /\ UNCHANGED open

\* The first such entry is removed, which need not be one that is in force.
RemoveEntry ==
  /\ asked # Nothing /\ asked.op = "remove"
  /\ items' = RemoveAt(items, First(PlacesOf(asked.entry)))
  /\ asked' = Nothing
  /\ UNCHANGED open

\* An addition that is cut short leaves the list alone.
AddLost ==
  /\ asked # Nothing /\ asked.op = "add"
  /\ asked' = Nothing
  /\ UNCHANGED <<items, open>>

\* A removal that is cut short loses the entries from some place on, and with
\* them the end of a comment, perhaps.
RemoveLost ==
  /\ asked # Nothing /\ asked.op = "remove"
  /\ \E n \in 0 .. Len(items) - 1 :
       items' = SubSeq(RemoveAt(items, First(PlacesOf(asked.entry))), 1, n)
  /\ asked' = Nothing
  /\ open' \in BOOLEAN

Next == Ask \/ AddEntry \/ RemoveEntry \/ AddLost \/ RemoveLost

vars == <<items, open, asked>>

Spec == Init /\ [][Next]_vars
=============================================================================
