--------------------------- MODULE DirectoryAccess --------------------------
(***************************************************************************)
(* What a file system owes clients that list directories while other       *)
(* processes create and remove names: a listing gives no name that was not *)
(* there at some time while it was made, and unless an error cuts it short *)
(* it gives every name that was there throughout.  There are no threads    *)
(* here, no descriptors, no DIR objects and no map.                        *)
(***************************************************************************)
EXTENDS Integers

CONSTANTS
  Dir, Entry, DirHandle, NoDir

ENOENT == 2

VARIABLES
  entries, \* the names in a directory
  dir,     \* the directory a handle was opened on, NoDir if it is not open
  listing, \* handle -> the set of its listing under way, empty without one:
           \*   the names that stayed, and were ever there, since it began
  reply    \* what the last call on a handle returned

vars == <<entries, dir, listing, reply>>

Answer(call, n) == [op |-> call, result |-> n, listed |-> {}, cut |-> FALSE]
NoReply == Answer("none", 0)

Init ==
  /\ entries \in [Dir -> SUBSET Entry]
  /\ dir = [h \in DirHandle |-> NoDir]
  /\ listing = [h \in DirHandle |-> {}]
  /\ reply = [h \in DirHandle |-> NoReply]

Closed(h) == dir[h] = NoDir

Create(d, e) ==
  /\ entries' = [entries EXCEPT ![d] = @ \cup {e}]
  /\ listing' = [h \in DirHandle |->
       IF dir[h] = d THEN {[l EXCEPT !.ever = @ \cup {e}] : l \in listing[h]}
       ELSE listing[h]]
  /\ UNCHANGED <<dir, reply>>

Remove(d, e) ==
  /\ entries' = [entries EXCEPT ![d] = @ \ {e}]
  /\ listing' = [h \in DirHandle |->
       IF dir[h] = d THEN {[l EXCEPT !.stayed = @ \ {e}] : l \in listing[h]}
       ELSE listing[h]]
  /\ UNCHANGED <<dir, reply>>

(* The client has asked for a directory and has no answer yet. *)
Ask(h) ==
  /\ Closed(h)
  /\ reply' = [reply EXCEPT ![h] = NoReply]
  /\ UNCHANGED <<entries, dir, listing>>

Refuse(h) ==
  /\ Closed(h)
  /\ reply' = [reply EXCEPT ![h] = Answer("opendir", -ENOENT)]
  /\ UNCHANGED <<entries, dir, listing>>

Open(h, d) ==
  /\ Closed(h)
  /\ dir' = [dir EXCEPT ![h] = d]
  /\ reply' = [reply EXCEPT ![h] = Answer("opendir", 0)]
  /\ UNCHANGED <<entries, listing>>

BeginListing(h) ==
  /\ ~Closed(h) /\ listing[h] = {}
  /\ listing' = [listing EXCEPT
       ![h] = {[stayed |-> entries[dir[h]], ever |-> entries[dir[h]]]}]
  /\ UNCHANGED <<entries, dir, reply>>

EndListing(h, names, cut) ==
  /\ \E l \in listing[h] :
       /\ names \subseteq l.ever
       /\ cut \/ l.stayed \subseteq names
  /\ reply' = [reply EXCEPT ![h] =
       [op |-> "readdir", result |-> 0, listed |-> names, cut |-> cut]]
  /\ listing' = [listing EXCEPT ![h] = {}]
  /\ UNCHANGED <<entries, dir>>

Close(h) ==
  /\ ~Closed(h) /\ listing[h] = {}
  /\ dir' = [dir EXCEPT ![h] = NoDir]
  /\ reply' = [reply EXCEPT ![h] = NoReply]
  /\ UNCHANGED <<entries, listing>>

Next ==
  \/ \E d \in Dir, e \in Entry : Create(d, e) \/ Remove(d, e)
  \/ \E h \in DirHandle :
       \/ Ask(h) \/ Refuse(h) \/ BeginListing(h) \/ Close(h)
       \/ \E d \in Dir : Open(h, d)
       \/ \E names \in SUBSET Entry, cut \in BOOLEAN : EndListing(h, names, cut)

Spec == Init /\ [][Next]_vars
=============================================================================
