-------------------------- MODULE FilesPageProofs ---------------------------
(***************************************************************************)
(* Proofs about FilesPage, for every set of files and paths, any number of *)
(* requests in flight, user actions and faults.                            *)
(*                                                                         *)
(* A spinner stands for requests: a button that is disabled while its      *)
(* request runs cannot send a second one, so the mounted page has at most  *)
(* one delete, rename and upload, whatever dialogs come and go; an answer  *)
(* takes its flag back and either frees its slot or starts the reload that *)
(* the flags it leaves stand for.  A request that was served keeps what    *)
(* its success message will say, which the agent did.                      *)
(***************************************************************************)
EXTENDS FilesPage, FiniteSetTheorems, WellFoundedInduction, TLAPS

-----------------------------------------------------------------------------
(* The inductive invariant *)

Messages == {None, Failure} \union {Said(r) : r \in Writes}

Pages ==
    [view: {"files", "trash"}, search: {"", "term"}, debounced: {"", "term"},
     files: SUBSET Entries, loading: BOOLEAN, refreshing: BOOLEAN, uploading: BOOLEAN,
     dialog: Dialogs \union {None}, deleteBusy: BOOLEAN, renameBusy: BOOLEAN,
     restoreBusy: Files \union {None}, message: Messages]

Rows == [state: {"absent", "live", "deleted"}, path: Places, safe: BOOLEAN]
InFlights == [Slots -> Loads \union Writes \union {None}]

\* What kind of request has an entry or a path.
Complete(r) ==
    /\ r.kind # "upload" => r.entry \in Entries
    /\ r.kind \in {"upload", "rename"} => r.to \in Paths

Types ==
    /\ rows \in [Files -> Rows]
    /\ page \in Pages
    /\ requests \in InFlights
    /\ \A s \in Slots : requests[s] \in Writes => Complete(requests[s])
    /\ acts \in 0 .. MaxActs /\ faults \in 0 .. MaxFaults

\* A version restore that thinks its dialog is open is right, so its error is shown where it belongs.
Attached(q, p) ==
    \A s \in Slots : q[s] \in Writes /\ q[s].kind = "version" /\ ~q[s].orphan /\ q[s].own =>
        p.dialog \in Dialogs /\ p.dialog.kind = "history"

\* What a request that succeeded will say was done.
ServedDone(q, d) == \A s \in Slots : q[s] \in Writes /\ q[s].phase = "ok" => Said(q[s]) \in d

\* The writes of the mounted page.
Running(q, kind) == {s \in Slots : q[s] \in Writes /\ q[s].kind = kind /\ ~q[s].orphan}

\* S is the one request that a disabled button stands for.
One(S, busy) == IF busy THEN \E s \in S : S = {s} ELSE S = {}

Honest(q, p) ==
    /\ One(Running(q, "delete"), p.deleteBusy)
    /\ One(Running(q, "rename"), p.renameBusy)
    /\ One(Running(q, "upload"), p.uploading)
    /\ p.loading => \E s \in Slots : q[s] \in Loads /\ ~q[s].silent
    /\ p.refreshing => \E s \in Slots : q[s] \in Loads /\ q[s].after = "refresh"
    /\ p.restoreBusy # None =>
          \/ \E s \in Running(q, "restore") : q[s].entry.id = p.restoreBusy
          \/ \E s \in Slots : q[s] \in Loads /\ q[s].after = "restore"

PageInv ==
    /\ Types
    /\ Attached(requests, page)
    /\ ServedDone(requests, done) /\ page.message \in {None, Failure} \union done
    /\ Honest(requests, page)

-----------------------------------------------------------------------------
(* Operators *)

\* A set of natural numbers has a least one.
LEMMA LeastNatural ==
    ASSUME NEW T, T \subseteq Nat, T # {}
    PROVE  \E m \in T : \A n \in T : m <= n
<1> DEFINE Less == {p \in Nat \X Nat : p[1] < p[2]}
<1>1. Less = OpToRel(<, Nat)
  BY DEF OpToRel
<1>2. IsWellFoundedOn(Less, Nat)
  BY <1>1, NatLessThanWellFounded
<1>3. \A m, n \in Nat : n < m => <<n, m>> \in Less
  OBVIOUS
<1> HIDE DEF Less
<1>4. PICK m \in T : \A n \in T : <<n, m>> \notin Less
  BY <1>2, WFMin
<1>5. \A n \in T : ~(n < m)
  BY <1>3, <1>4
<1> QED
  BY <1>5

\* Loads, writes and "no request" are told apart.
LEMMA Kinds ==
    /\ \A r \in Loads : r \notin Writes /\ r # None /\ r.kind = "list"
    /\ \A r \in Writes : r \notin Loads /\ r # None /\ r.kind # "list"
    /\ None \notin Loads /\ None \notin Writes /\ None \notin Dialogs
  BY FilesPageAssumption DEF Loads, Writes

\* A request goes to one free slot, whichever it is.
LEMMA PutTakesFreeSlot ==
    ASSUME NEW q, HasRoom(q)
    PROVE  \E s \in Slots : q[s] = None /\ \A r : Put(q, r) = [q EXCEPT ![s] = r]
<1> DEFINE Frees == {s \in Slots : q[s] = None}
           First(t) == q[t] = None /\ \A u \in 1 .. t - 1 : q[u] # None
<1>1. Frees \subseteq Nat /\ Frees # {}
  BY FilesPageAssumption DEF HasRoom, Slots
<1>2. PICK m \in Frees : \A n \in Frees : m <= n
  BY <1>1, LeastNatural
<1>3. \A u \in 1 .. m - 1 : q[u] # None
  BY <1>2, FilesPageAssumption DEF Slots
<1>4. m \in Slots /\ First(m)
  BY <1>2, <1>3
<1> DEFINE s == CHOOSE t \in Slots : First(t)
<1>5. s \in Slots /\ First(s)
  BY <1>4
<1>6. \A r : Put(q, r) = [q EXCEPT ![s] = r]
  BY DEF Put
<1> HIDE DEF s
<1> QED
  BY <1>5, <1>6

\* What a listing or a load holds is of its type.
LEMMA ListingOK ==
    ASSUME rows \in [Files -> Rows], NEW view, NEW term
    PROVE  Listing(view, term) \subseteq Entries
<1>1. \A f \in Files, b \in BOOLEAN : Entry(f, b) \in Entries
  BY DEF Entry, Entries, Rows
<1>2. \A f \in Files : rows[f].safe \in BOOLEAN
  BY DEF Rows
<1> QED
  BY <1>1, <1>2 DEF Listing

\* A load is a load, with the flags it was sent for.
LEMMA LoadOK ==
    ASSUME NEW view \in {"files", "trash"}, NEW term \in {"", "term"}, NEW silent \in BOOLEAN,
           NEW after \in {None, "refresh", "restore"}
    PROVE  /\ Load(view, term, silent, after) \in Loads
           /\ Load(view, term, silent, after).silent = silent
           /\ Load(view, term, silent, after).after = after
  BY DEF Load, Loads

\* So is what a handler sends, given an entry or a path where it needs one.
LEMMA WriteOK ==
    ASSUME page \in Pages, NEW kind \in {"delete", "rename", "restore", "upload", "version"},
           NEW entry \in Entries \union {None}, NEW to \in Paths \union {None},
           kind # "upload" => entry \in Entries, kind \in {"upload", "rename"} => to \in Paths
    PROVE  LET w == Write(kind, entry, to) IN
           /\ w \in Writes /\ Complete(w)
           /\ w.kind = kind /\ w.entry = entry /\ w.phase = "sent" /\ ~w.orphan /\ w.own
  BY DEF Write, Writes, Pages, Complete

-----------------------------------------------------------------------------
(* What a step does to the requests *)

\* A request changes in its slot, and stays what it is.
LEMMA SlotChanged ==
    ASSUME requests \in InFlights, NEW s \in Slots, NEW r,
           \/ requests[s] \in Loads /\ r \in Loads
              /\ r.silent = requests[s].silent /\ r.after = requests[s].after
           \/ requests[s] \in Writes /\ r \in Writes
              /\ r.kind = requests[s].kind /\ r.orphan = requests[s].orphan
              /\ r.entry = requests[s].entry,
           NEW q, q = [requests EXCEPT ![s] = r]
    PROVE  /\ q \in InFlights
           /\ \A k : Running(q, k) = Running(requests, k)
           /\ \A p : Honest(requests, p) => Honest(q, p)
<1>1. q \in InFlights /\ q[s] = r /\ \A t \in Slots \ {s} : q[t] = requests[t]
  BY DEF InFlights
<1>2. \A k : Running(q, k) = Running(requests, k)
  BY <1>1, Kinds DEF Running
<1>3. \A t \in Slots : requests[t] \in Loads =>
         q[t] \in Loads /\ q[t].silent = requests[t].silent /\ q[t].after = requests[t].after
  BY <1>1, Kinds
<1>4. \A t \in Slots : requests[t] \in Writes => q[t].entry = requests[t].entry
  BY <1>1, Kinds
<1>5. ASSUME NEW p, Honest(requests, p) PROVE Honest(q, p)
  <2>1. p.restoreBusy # None =>
          \/ \E t \in Running(q, "restore") : q[t].entry.id = p.restoreBusy
          \/ \E t \in Slots : q[t] \in Loads /\ q[t].after = "restore"
    BY <1>2, <1>3, <1>4, <1>5 DEF Honest, Running
  <2> QED
    BY <2>1, <1>2, <1>3, <1>5 DEF Honest
<1> QED
  BY <1>1, <1>2, <1>5

\* A load is sent: nothing else changes.
LEMMA LoadSent ==
    ASSUME requests \in InFlights, HasRoom(requests), NEW l \in Loads,
           NEW q, q = Put(requests, l)
    PROVE  /\ q \in InFlights
           /\ \A k : Running(q, k) = Running(requests, k)
           /\ \A t \in Slots : requests[t] \in Loads \union Writes => q[t] = requests[t]
           /\ \A t \in Slots : q[t] \in Writes => requests[t] = q[t]
           /\ \E t \in Slots : q[t] = l
<1>1. PICK s \in Slots : requests[s] = None /\ q = [requests EXCEPT ![s] = l]
  BY PutTakesFreeSlot
<1>2. q \in InFlights /\ q[s] = l /\ \A t \in Slots \ {s} : q[t] = requests[t]
  BY <1>1 DEF InFlights
<1> QED
  BY <1>1, <1>2, Kinds DEF Running

\* A write is sent.
LEMMA WriteSent ==
    ASSUME requests \in InFlights, HasRoom(requests), NEW w \in Writes, ~w.orphan,
           NEW q, q = Put(requests, w)
    PROVE  /\ q \in InFlights
           /\ \A t \in Slots : requests[t] \in Loads \union Writes => q[t] = requests[t]
           /\ \A k : k # w.kind => Running(q, k) = Running(requests, k)
           /\ \E s \in Slots : /\ q[s] = w /\ requests[s] = None
                               /\ Running(q, w.kind) = Running(requests, w.kind) \union {s}
                               /\ \A t \in Slots \ {s} : q[t] = requests[t]
<1>1. PICK s \in Slots : requests[s] = None /\ q = [requests EXCEPT ![s] = w]
  BY PutTakesFreeSlot
<1>2. q \in InFlights /\ q[s] = w /\ \A t \in Slots \ {s} : q[t] = requests[t]
  BY <1>1 DEF InFlights
<1> QED
  BY <1>1, <1>2, Kinds DEF Running

\* An answer frees its slot.
LEMMA SlotFreed ==
    ASSUME requests \in InFlights, NEW s \in Slots
    PROVE  /\ Free(s) \in InFlights
           /\ \A k : Running(Free(s), k) = Running(requests, k) \ {s}
           /\ \A t \in Slots \ {s} : Free(s)[t] = requests[t]
           /\ Free(s)[s] = None
  BY Kinds DEF InFlights, Free, Running

\* A write that ends with a reload takes its slot back, or another one.
LEMMA Reloaded ==
    ASSUME requests \in InFlights, NEW s \in Slots, requests[s] \in Writes,
           NEW after \in {None, "refresh", "restore"}, NEW q, q = Reload(s, after)
    PROVE  /\ q \in InFlights
           /\ \A k : Running(q, k) = Running(requests, k) \ {s}
           /\ \A t \in Slots : requests[t] \in Loads => q[t] = requests[t]
           /\ \A t \in Slots : q[t] \in Writes => t # s /\ q[t] = requests[t]
           /\ \A t \in Slots : t # s /\ requests[t] \in Writes => q[t] = requests[t]
           /\ \E t \in Slots : q[t] \in Loads /\ ~q[t].silent /\ q[t].after = after
<1> DEFINE l == Load(requests[s].view, requests[s].term, FALSE, after)
<1>1. l \in Loads /\ l.silent = FALSE /\ l.after = after
  <2> DEFINE view == requests[s].view
             term == requests[s].term
  <2>1. view \in {"files", "trash"} /\ term \in {"", "term"} /\ FALSE \in BOOLEAN
    BY DEF Writes
  <2> HIDE DEF view, term
  <2>2. /\ Load(view, term, FALSE, after) \in Loads
        /\ Load(view, term, FALSE, after).silent = FALSE
        /\ Load(view, term, FALSE, after).after = after
    BY <2>1, LoadOK
  <2> QED
    BY <2>2 DEF view, term
<1>2. HasRoom(Free(s))
  BY SlotFreed DEF HasRoom
<1>3. q = Put(Free(s), l)
  BY DEF Reload
<1> HIDE DEF l
<1>4. PICK u \in Slots : Free(s)[u] = None /\ q = [Free(s) EXCEPT ![u] = l]
  BY <1>2, <1>3, PutTakesFreeSlot
<1>5. q \in InFlights /\ q[u] = l /\ \A t \in Slots \ {u} : q[t] = Free(s)[t]
  BY <1>1, <1>4, SlotFreed DEF InFlights
<1>6. u = s \/ requests[u] = None
  BY <1>4, SlotFreed
<1>7. \A t \in Slots \ {s, u} : q[t] = requests[t]
  BY <1>5, SlotFreed
<1>8. u # s => q[s] = None
  BY <1>5, SlotFreed
<1>9. \A k : Running(q, k) = Running(requests, k) \ {s}
  BY <1>1, <1>5, <1>6, <1>7, <1>8, Kinds DEF Running
<1> QED
  BY <1>1, <1>5, <1>6, <1>7, <1>8, <1>9, Kinds

\* Detaching changes only what a version restore believes of its dialog.
LEMMA DetachedKeeps ==
    ASSUME NEW q \in InFlights, \A s \in Slots : q[s] \in Writes => Complete(q[s])
    PROVE  /\ Detached(q) \in InFlights
           /\ \A k : Running(Detached(q), k) = Running(q, k)
           /\ \A p : Honest(q, p) => Honest(Detached(q), p)
           /\ \A d : ServedDone(q, d) => ServedDone(Detached(q), d)
           /\ \A p : Attached(Detached(q), p)
           /\ \A s \in Slots : Detached(q)[s] \in Writes => Complete(Detached(q)[s])
<1>1. ASSUME NEW s \in Slots, q[s] \in Writes
      PROVE  /\ [q[s] EXCEPT !.own = FALSE] \in Writes
             /\ [q[s] EXCEPT !.own = FALSE].kind = q[s].kind
             /\ [q[s] EXCEPT !.own = FALSE].phase = q[s].phase
             /\ [q[s] EXCEPT !.own = FALSE].orphan = q[s].orphan
             /\ [q[s] EXCEPT !.own = FALSE].entry = q[s].entry
             /\ [q[s] EXCEPT !.own = FALSE].to = q[s].to
             /\ [q[s] EXCEPT !.own = FALSE].own = FALSE
  BY <1>1 DEF Writes
<1>2. ASSUME NEW s \in Slots
      PROVE  /\ q[s] \notin Writes => Detached(q)[s] = q[s]
             /\ q[s] \in Writes =>
                   /\ Detached(q)[s] \in Writes
                   /\ Detached(q)[s].kind = q[s].kind
                   /\ Detached(q)[s].phase = q[s].phase
                   /\ Detached(q)[s].orphan = q[s].orphan
                   /\ Detached(q)[s].entry = q[s].entry
                   /\ Detached(q)[s].to = q[s].to
                   /\ q[s].kind = "version" => ~Detached(q)[s].own
  <2>1. q[s] \in Loads \union Writes \union {None}
    BY DEF InFlights
  <2>2. CASE q[s] \in Writes /\ q[s].kind = "version"
    <3>1. Detached(q)[s] = [q[s] EXCEPT !.own = FALSE]
      BY <2>2, Kinds DEF Detached
    <3> QED
      BY <3>1, <2>2, <1>1
  <2>3. CASE ~(q[s] \in Writes /\ q[s].kind = "version")
    <3>1. Detached(q)[s] = q[s]
      BY <2>1, <2>3, Kinds DEF Detached
    <3> QED
      BY <3>1, <2>3
  <2> QED
    BY <2>2, <2>3
<1>3. Detached(q) \in InFlights
  <2>1. \A s \in Slots : Detached(q)[s] \in Loads \union Writes \union {None}
    BY <1>2 DEF InFlights
  <2> QED
    BY <2>1 DEF Detached, InFlights
<1>4. \A s \in Slots : Detached(q)[s] \in Writes => q[s] \in Writes
  BY <1>2
<1>5. \A k : Running(Detached(q), k) = Running(q, k)
  BY <1>2, <1>4 DEF Running
<1>6. \A s \in Slots : q[s] \in Loads => Detached(q)[s] = q[s]
  BY <1>2, Kinds
<1>7. ASSUME NEW p, Honest(q, p) PROVE Honest(Detached(q), p)
  <2>1. \A s \in Running(q, "restore") : Detached(q)[s].entry = q[s].entry
    BY <1>2 DEF Running
  <2>2. p.restoreBusy # None =>
          \/ \E s \in Running(Detached(q), "restore") : Detached(q)[s].entry.id = p.restoreBusy
          \/ \E s \in Slots : Detached(q)[s] \in Loads /\ Detached(q)[s].after = "restore"
    BY <1>5, <1>6, <1>7, <2>1 DEF Honest
  <2> QED
    BY <1>5, <1>6, <1>7, <2>2 DEF Honest
<1>8. \A s \in Slots : q[s] \in Writes => Said(Detached(q)[s]) = Said(q[s])
  BY <1>2 DEF Said
<1>9. \A d : ServedDone(q, d) => ServedDone(Detached(q), d)
  BY <1>2, <1>4, <1>8 DEF ServedDone
<1>10. \A p : Attached(Detached(q), p)
  BY <1>2, <1>4 DEF Attached
<1>11. \A s \in Slots : Detached(q)[s] \in Writes => Complete(Detached(q)[s])
  BY <1>2, <1>4 DEF Complete
<1> QED
  BY <1>3, <1>5, <1>7, <1>9, <1>10, <1>11

-----------------------------------------------------------------------------
(* The invariant *)

\* A mounted page is empty, and waits for its first load.
LEMMA FreshOK ==
    ASSUME NEW q \in InFlights, HasRoom(q), \A s \in Slots : q[s] \notin Loads,
           \A s \in Slots : q[s] \in Writes => q[s].orphan,
           NEW q2, q2 = Put(q, Load("files", "", FALSE, None))
    PROVE  /\ FreshPage \in Pages /\ FreshPage.message = None
           /\ q2 \in InFlights
           /\ \A s \in Slots : q2[s] \in Writes => q2[s] = q[s]
           /\ Attached(q2, FreshPage) /\ Honest(q2, FreshPage)
<1> DEFINE l == Load("files", "", FALSE, None)
<1>1. l \in Loads /\ l.silent = FALSE
  BY LoadOK
<1>2. q2 = Put(q, l)
  OBVIOUS
<1> HIDE DEF l
<1>3. PICK s \in Slots : q2 = [q EXCEPT ![s] = l]
  BY <1>2, PutTakesFreeSlot
<1>4. q2 \in InFlights /\ q2[s] = l /\ \A t \in Slots \ {s} : q2[t] = q[t]
  BY <1>1, <1>3 DEF InFlights
<1>5. FreshPage \in Pages
  BY DEF FreshPage, Pages, Messages
<1>6. \A k : Running(q2, k) = {}
  BY <1>1, <1>4, Kinds DEF Running
<1>7. Honest(q2, FreshPage)
  <2>1. FreshPage.loading => \E t \in Slots : q2[t] \in Loads /\ ~q2[t].silent
    BY <1>1, <1>4
  <2>2. /\ ~FreshPage.deleteBusy /\ ~FreshPage.renameBusy /\ ~FreshPage.uploading
        /\ ~FreshPage.refreshing /\ FreshPage.restoreBusy = None
    BY DEF FreshPage
  <2> QED
    BY <1>6, <2>1, <2>2 DEF Honest, One
<1>8. Attached(q2, FreshPage)
  BY <1>1, <1>4, Kinds DEF Attached
<1> QED
  BY <1>1, <1>4, <1>5, <1>7, <1>8, Kinds DEF FreshPage

\* Initially the page has just been mounted.
LEMMA PageInit == Init => PageInv
<1> SUFFICES ASSUME Init PROVE PageInv
  OBVIOUS
<1> DEFINE nothing == [s \in Slots |-> None]
<1>1. nothing \in InFlights /\ HasRoom(nothing) /\ \A s \in Slots : nothing[s] \notin Loads \union Writes
  BY Kinds, FilesPageAssumption DEF InFlights, HasRoom, Slots
<1>2. requests = Put(nothing, Load("files", "", FALSE, None)) /\ page = FreshPage
  BY DEF Init
<1> HIDE DEF nothing
<1>3. /\ page \in Pages /\ page.message = None /\ requests \in InFlights
      /\ \A s \in Slots : requests[s] \notin Writes
      /\ Attached(requests, page) /\ Honest(requests, page)
  <2>1. /\ \A s \in Slots : nothing[s] \notin Loads
        /\ \A s \in Slots : nothing[s] \in Writes => nothing[s].orphan
    BY <1>1
  <2>2. /\ FreshPage \in Pages /\ FreshPage.message = None
        /\ requests \in InFlights
        /\ \A s \in Slots : requests[s] \in Writes => requests[s] = nothing[s]
        /\ Attached(requests, FreshPage) /\ Honest(requests, FreshPage)
    BY <1>1, <1>2, <2>1, FreshOK
  <2> QED
    BY <1>1, <1>2, <2>2
<1>4. rows \in [Files -> Rows]
  <2>1. PICK st \in [Files -> {"absent", "live", "deleted"}] :
            rows = [f \in Files |-> [state |-> st[f], path |-> Home[f], safe |-> TRUE]]
    BY DEF Init
  <2> QED
    BY <2>1, FilesPageAssumption DEF Rows, Places
<1>5. acts \in 0 .. MaxActs /\ faults \in 0 .. MaxFaults
  <2>1. acts = 0 /\ faults = 0
    BY DEF Init
  <2> QED
    BY <2>1, FilesPageAssumption
<1> QED
  BY <1>3, <1>4, <1>5 DEF PageInv, Types, ServedDone

\* A step that sends a load, and may clear the message.
LEMMA LoadStep ==
    ASSUME PageInv, HasRoom(requests), NEW l \in Loads, requests' = Put(requests, l),
           page' \in Pages, UNCHANGED <<rows, done>>,
           acts' \in 0 .. MaxActs, faults' \in 0 .. MaxFaults,
           page'.dialog = page.dialog, page'.deleteBusy = page.deleteBusy,
           page'.renameBusy = page.renameBusy, page'.uploading = page.uploading,
           page'.restoreBusy = page.restoreBusy, page'.message \in {page.message, None},
           page'.loading => page.loading \/ ~l.silent,
           page'.refreshing => page.refreshing \/ l.after = "refresh"
    PROVE  PageInv'
<1>1. requests \in InFlights
  BY DEF PageInv, Types
<1>2. /\ requests' \in InFlights
      /\ \A k : Running(requests', k) = Running(requests, k)
      /\ \A t \in Slots : requests[t] \in Loads \union Writes => requests'[t] = requests[t]
      /\ \A t \in Slots : requests'[t] \in Writes => requests[t] = requests'[t]
      /\ \E t \in Slots : requests'[t] = l
  BY <1>1, LoadSent
<1>3. Types'
  BY <1>2 DEF PageInv, Types
<1>4. Attached(requests', page')
  BY <1>2 DEF PageInv, Attached
<1>5. ServedDone(requests', done')
  BY <1>2 DEF PageInv, ServedDone
<1>6. Honest(requests', page')
  <2>1. page'.restoreBusy # None =>
          \/ \E s \in Running(requests', "restore") : requests'[s].entry.id = page'.restoreBusy
          \/ \E s \in Slots : requests'[s] \in Loads /\ requests'[s].after = "restore"
    BY <1>2 DEF PageInv, Honest, Running
  <2>2. page'.loading => \E s \in Slots : requests'[s] \in Loads /\ ~requests'[s].silent
    BY <1>2 DEF PageInv, Honest
  <2>3. page'.refreshing => \E s \in Slots : requests'[s] \in Loads /\ requests'[s].after = "refresh"
    BY <1>2 DEF PageInv, Honest
  <2> QED
    BY <1>2, <2>1, <2>2, <2>3 DEF PageInv, Honest
<1> QED
  BY <1>3, <1>4, <1>5, <1>6 DEF PageInv

\* What a load takes from the page.
LEMMA PageTerms ==
    ASSUME page \in Pages
    PROVE  /\ page.view \in {"files", "trash"} /\ page.files \subseteq Entries
           /\ page.search \in {"", "term"} /\ page.debounced \in {"", "term"}
           /\ FALSE \in BOOLEAN /\ TRUE \in BOOLEAN
  BY DEF Pages

\* What the user does is counted.
LEMMA Counted ==
    ASSUME Types, UserActs
    PROVE  acts' \in 0 .. MaxActs /\ faults' \in 0 .. MaxFaults /\ UNCHANGED <<rows, done>>
  BY FilesPageAssumption DEF Types, UserActs

\* The other view waits for its list; no button changes.
LEMMA ToggleViewKeeps == PageInv /\ ToggleView => PageInv'
<1> SUFFICES ASSUME PageInv, ToggleView PROVE PageInv'
  OBVIOUS
<1> DEFINE v == IF page.view = "trash" THEN "files" ELSE "trash"
           l == Load(v, page.debounced, FALSE, None)
<1>1. page \in Pages
  BY DEF PageInv, Types
<1>2. l \in Loads /\ l.silent = FALSE
  BY <1>1, PageTerms, LoadOK
<1>3. acts' \in 0 .. MaxActs /\ faults' \in 0 .. MaxFaults /\ UNCHANGED <<rows, done>>
  BY Counted DEF PageInv, ToggleView
<1>4. /\ page' = [page EXCEPT !.view = v, !.search = "", !.message = None, !.loading = TRUE]
      /\ requests' = Put(requests, l) /\ HasRoom(requests)
  BY DEF ToggleView
<1>5. v \in {"files", "trash"}
  OBVIOUS
<1> HIDE DEF l, v
<1>6. /\ page' \in Pages
      /\ page'.dialog = page.dialog /\ page'.deleteBusy = page.deleteBusy
      /\ page'.renameBusy = page.renameBusy /\ page'.uploading = page.uploading
      /\ page'.restoreBusy = page.restoreBusy /\ page'.message = None
      /\ page'.refreshing = page.refreshing
  BY <1>1, <1>4, <1>5 DEF Pages, Messages
<1> QED
  BY <1>2, <1>3, <1>4, <1>6, LoadStep

\* The new term waits for its list.
LEMMA DebounceKeeps == PageInv /\ Debounce => PageInv'
<1> SUFFICES ASSUME PageInv, Debounce PROVE PageInv'
  OBVIOUS
<1> DEFINE l == Load(page.view, page.search, FALSE, None)
<1>1. page \in Pages
  BY DEF PageInv, Types
<1>2. l \in Loads /\ l.silent = FALSE
  BY <1>1, PageTerms, LoadOK
<1>3. acts' \in 0 .. MaxActs /\ faults' \in 0 .. MaxFaults /\ UNCHANGED <<rows, done>>
  BY DEF Debounce, PageInv, Types
<1>4. /\ page' = [page EXCEPT !.debounced = page.search, !.loading = TRUE]
      /\ requests' = Put(requests, l) /\ HasRoom(requests)
  BY DEF Debounce
<1> HIDE DEF l
<1>6. /\ page' \in Pages
      /\ page'.dialog = page.dialog /\ page'.deleteBusy = page.deleteBusy
      /\ page'.renameBusy = page.renameBusy /\ page'.uploading = page.uploading
      /\ page'.restoreBusy = page.restoreBusy /\ page'.message = page.message
      /\ page'.refreshing = page.refreshing
  BY <1>1, <1>4 DEF Pages
<1> QED
  BY <1>2, <1>3, <1>4, <1>6, LoadStep

\* A silent load touches no spinner.
LEMMA SafetyRefreshKeeps == PageInv /\ SafetyRefresh => PageInv'
<1> SUFFICES ASSUME PageInv, SafetyRefresh PROVE PageInv'
  OBVIOUS
<1> DEFINE l == Load(page.view, page.debounced, TRUE, None)
<1>1. page \in Pages
  BY DEF PageInv, Types
<1>2. l \in Loads
  BY <1>1, PageTerms, LoadOK
<1>3. acts' \in 0 .. MaxActs /\ faults' \in 0 .. MaxFaults /\ UNCHANGED <<rows, page, done>>
  BY DEF SafetyRefresh, PageInv, Types
<1>4. requests' = Put(requests, l) /\ HasRoom(requests)
  BY DEF SafetyRefresh
<1> HIDE DEF l
<1> QED
  BY <1>1, <1>2, <1>3, <1>4, LoadStep

\* The refresh button waits for the load that it sends.
LEMMA RefreshKeeps == PageInv /\ Refresh => PageInv'
<1> SUFFICES ASSUME PageInv, Refresh PROVE PageInv'
  OBVIOUS
<1> DEFINE l == Load(page.view, page.debounced, FALSE, "refresh")
<1>1. page \in Pages
  BY DEF PageInv, Types
<1>2. l \in Loads /\ l.silent = FALSE /\ l.after = "refresh"
  <2> DEFINE view == page.view
             term == page.debounced
             after == "refresh"
  <2>1. view \in {"files", "trash"} /\ term \in {"", "term"} /\ FALSE \in BOOLEAN
        /\ after \in {None, "refresh", "restore"}
    BY <1>1, PageTerms
  <2> HIDE DEF view, term, after
  <2>2. /\ Load(view, term, FALSE, after) \in Loads
        /\ Load(view, term, FALSE, after).silent = FALSE
        /\ Load(view, term, FALSE, after).after = after
    BY <2>1, LoadOK
  <2> QED
    BY <2>2 DEF view, term, after
<1>3. acts' \in 0 .. MaxActs /\ faults' \in 0 .. MaxFaults /\ UNCHANGED <<rows, done>>
  BY Counted DEF Refresh, PageInv
<1>4. /\ page' = [page EXCEPT !.refreshing = TRUE, !.loading = TRUE]
      /\ requests' = Put(requests, l) /\ HasRoom(requests)
  BY DEF Refresh
<1> HIDE DEF l
<1>6. /\ page' \in Pages
      /\ page'.dialog = page.dialog /\ page'.deleteBusy = page.deleteBusy
      /\ page'.renameBusy = page.renameBusy /\ page'.uploading = page.uploading
      /\ page'.restoreBusy = page.restoreBusy /\ page'.message = page.message
  BY <1>1, <1>4 DEF Pages
<1> QED
  BY <1>2, <1>3, <1>4, <1>6, LoadStep

\* A step that sends a write of the mounted page.
LEMMA WriteStep ==
    ASSUME PageInv, HasRoom(requests), NEW w \in Writes, Complete(w), ~w.orphan, w.phase = "sent",
           requests' = Put(requests, w),
           page' \in Pages, UNCHANGED <<rows, done>>,
           acts' \in 0 .. MaxActs, faults' \in 0 .. MaxFaults,
           page'.dialog # page.dialog =>
               /\ page'.dialog \in Dialogs /\ page.dialog \in Dialogs
               /\ page'.dialog.kind = page.dialog.kind,
           w.kind = "version" => page'.dialog \in Dialogs /\ page'.dialog.kind = "history",
           IF w.kind = "delete" THEN ~page.deleteBusy /\ page'.deleteBusy
                                ELSE page'.deleteBusy = page.deleteBusy,
           IF w.kind = "rename" THEN ~page.renameBusy /\ page'.renameBusy
                                ELSE page'.renameBusy = page.renameBusy,
           IF w.kind = "upload" THEN ~page.uploading /\ page'.uploading
                                ELSE page'.uploading = page.uploading,
           IF w.kind = "restore" THEN page'.restoreBusy = w.entry.id
                                 ELSE page'.restoreBusy = page.restoreBusy,
           page'.message \in {page.message, None},
           page'.loading = page.loading, page'.refreshing = page.refreshing
    PROVE  PageInv'
<1>1. requests \in InFlights
  BY DEF PageInv, Types
<1> DEFINE q == requests'
<1>2. /\ q \in InFlights
      /\ \A t \in Slots : requests[t] \in Loads \union Writes => q[t] = requests[t]
      /\ \A k : k # w.kind => Running(q, k) = Running(requests, k)
      /\ \E s \in Slots : /\ q[s] = w /\ requests[s] = None
                          /\ Running(q, w.kind) = Running(requests, w.kind) \union {s}
                          /\ \A t \in Slots \ {s} : q[t] = requests[t]
  BY <1>1, WriteSent
<1> HIDE DEF q
<1>3. PICK s \in Slots : /\ q[s] = w /\ requests[s] = None
                         /\ Running(q, w.kind) = Running(requests, w.kind) \union {s}
                         /\ \A t \in Slots \ {s} : q[t] = requests[t]
  BY <1>2
<1>4. \A t \in Slots : q[t] \in Writes => Complete(q[t])
  BY <1>3 DEF PageInv, Types
<1>5. Types'
  BY <1>2, <1>4 DEF PageInv, Types, q
<1>6. Attached(q, page')
  BY <1>3 DEF PageInv, Attached
<1>7. ServedDone(q, done')
  BY <1>3 DEF PageInv, ServedDone
<1>8. One(Running(q, "delete"), page'.deleteBusy)
  BY <1>2, <1>3 DEF PageInv, Honest, One
<1>9. One(Running(q, "rename"), page'.renameBusy)
  BY <1>2, <1>3 DEF PageInv, Honest, One
<1>10. One(Running(q, "upload"), page'.uploading)
  BY <1>2, <1>3 DEF PageInv, Honest, One
<1>11. page'.restoreBusy # None =>
          \/ \E t \in Running(q, "restore") : q[t].entry.id = page'.restoreBusy
          \/ \E t \in Slots : q[t] \in Loads /\ q[t].after = "restore"
  <2>1. CASE w.kind = "restore"
    BY <1>3, <2>1
  <2>2. CASE w.kind # "restore"
    <3>1. \A t \in Running(requests, "restore") : t \in Running(q, "restore") /\ q[t] = requests[t]
      BY <1>2, <2>2 DEF Running
    <3> QED
      BY <1>2, <2>2, <3>1 DEF PageInv, Honest
  <2> QED
    BY <2>1, <2>2
<1>12. Honest(q, page')
  BY <1>2, <1>8, <1>9, <1>10, <1>11 DEF PageInv, Honest
<1> QED
  BY <1>5, <1>6, <1>7, <1>12 DEF PageInv, q

\* The upload button is free, so no upload of this page runs.
LEMMA UploadKeeps == ASSUME PageInv, NEW p \in Paths, Upload(p) PROVE PageInv'
<1> DEFINE w == Write("upload", None, p)
<1>1. page \in Pages
  BY DEF PageInv, Types
<1>2. w \in Writes /\ Complete(w) /\ w.kind = "upload" /\ w.phase = "sent" /\ ~w.orphan
  BY <1>1, WriteOK
<1>3. acts' \in 0 .. MaxActs /\ faults' \in 0 .. MaxFaults /\ UNCHANGED <<rows, done>>
  BY Counted DEF PageInv, Upload
<1>4. /\ page' = [page EXCEPT !.uploading = TRUE, !.message = None]
      /\ requests' = Put(requests, w) /\ HasRoom(requests) /\ ~page.uploading
  BY DEF Upload
<1> HIDE DEF w
<1>5. /\ page' \in Pages
      /\ page'.dialog = page.dialog /\ page'.deleteBusy = page.deleteBusy
      /\ page'.renameBusy = page.renameBusy /\ page'.uploading
      /\ page'.restoreBusy = page.restoreBusy /\ page'.message = None
      /\ page'.loading = page.loading /\ page'.refreshing = page.refreshing
  BY <1>1, <1>4 DEF Pages, Messages
<1> QED
  BY <1>2, <1>3, <1>4, <1>5, WriteStep

\* The busy card is the one whose restore was sent last.
LEMMA RestoreFromTrashKeeps ==
    ASSUME PageInv, NEW e \in page.files, RestoreFromTrash(e) PROVE PageInv'
<1> DEFINE w == Write("restore", e, None)
<1>1. page \in Pages /\ e \in Entries
  BY DEF PageInv, Types, Pages
<1>2. w \in Writes /\ Complete(w) /\ w.kind = "restore" /\ w.phase = "sent" /\ ~w.orphan
      /\ w.entry = e
  BY <1>1, WriteOK
<1>3. acts' \in 0 .. MaxActs /\ faults' \in 0 .. MaxFaults /\ UNCHANGED <<rows, done>>
  BY Counted DEF PageInv, RestoreFromTrash
<1>4. /\ page' = [page EXCEPT !.restoreBusy = e.id, !.message = None]
      /\ requests' = Put(requests, w) /\ HasRoom(requests)
  BY DEF RestoreFromTrash
<1> HIDE DEF w
<1>5. e.id \in Files
  BY <1>1 DEF Entries
<1>6. /\ page' \in Pages
      /\ page'.dialog = page.dialog /\ page'.deleteBusy = page.deleteBusy
      /\ page'.renameBusy = page.renameBusy /\ page'.uploading = page.uploading
      /\ page'.restoreBusy = e.id /\ page'.message = None
      /\ page'.loading = page.loading /\ page'.refreshing = page.refreshing
  BY <1>1, <1>4, <1>5 DEF Pages, Messages
<1> QED
  BY <1>2, <1>3, <1>4, <1>6, WriteStep

\* An open dialog has an entry.
LEMMA OpenDialogOK ==
    ASSUME PageInv, ~Uncovered
    PROVE  /\ page \in Pages /\ page.dialog \in Dialogs /\ page.dialog.entry \in Entries
           /\ \A b \in BOOLEAN : /\ [page.dialog EXCEPT !.error = b] \in Dialogs
                                 /\ [page.dialog EXCEPT !.error = b].kind = page.dialog.kind
           /\ [page.dialog EXCEPT !.busy = TRUE, !.error = FALSE] \in Dialogs
           /\ [page.dialog EXCEPT !.busy = FALSE, !.error = TRUE] \in Dialogs
           /\ [page.dialog EXCEPT !.busy = TRUE, !.error = FALSE].kind = page.dialog.kind
           /\ [page.dialog EXCEPT !.busy = FALSE, !.error = TRUE].kind = page.dialog.kind
<1>1. page \in Pages /\ page.dialog \in Dialogs
  BY DEF PageInv, Types, Pages, Uncovered
<1> QED
  BY <1>1 DEF Dialogs

\* The delete button is free, so no delete of this page runs, whatever dialog is open.
LEMMA ConfirmDeleteKeeps == PageInv /\ ConfirmDelete => PageInv'
<1> SUFFICES ASSUME PageInv, ConfirmDelete PROVE PageInv'
  OBVIOUS
<1> DEFINE w == Write("delete", page.dialog.entry, None)
           d == [page.dialog EXCEPT !.error = FALSE]
<1>1. /\ page \in Pages /\ page.dialog \in Dialogs /\ page.dialog.entry \in Entries
      /\ d \in Dialogs /\ d.kind = page.dialog.kind
  BY OpenDialogOK DEF ConfirmDelete
<1>2. w \in Writes /\ Complete(w) /\ w.kind = "delete" /\ w.phase = "sent" /\ ~w.orphan
  BY <1>1, WriteOK
<1>3. acts' \in 0 .. MaxActs /\ faults' \in 0 .. MaxFaults /\ UNCHANGED <<rows, done>>
  BY Counted DEF PageInv, ConfirmDelete
<1>4. /\ page' = [page EXCEPT !.deleteBusy = TRUE, !.dialog = d]
      /\ requests' = Put(requests, w) /\ HasRoom(requests) /\ ~page.deleteBusy
  BY DEF ConfirmDelete
<1> HIDE DEF w, d
<1>5. /\ page' \in Pages
      /\ page'.dialog = d /\ page'.deleteBusy
      /\ page'.renameBusy = page.renameBusy /\ page'.uploading = page.uploading
      /\ page'.restoreBusy = page.restoreBusy /\ page'.message = page.message
      /\ page'.loading = page.loading /\ page'.refreshing = page.refreshing
  BY <1>1, <1>4 DEF Pages
<1> QED
  BY <1>1, <1>2, <1>3, <1>4, <1>5, WriteStep

\* Likewise for the rename button.
LEMMA SubmitRenameKeeps == ASSUME PageInv, NEW p \in Paths, SubmitRename(p) PROVE PageInv'
<1> DEFINE w == Write("rename", page.dialog.entry, p)
           d == [page.dialog EXCEPT !.error = FALSE]
<1>1. /\ page \in Pages /\ page.dialog \in Dialogs /\ page.dialog.entry \in Entries
      /\ d \in Dialogs /\ d.kind = page.dialog.kind
  BY OpenDialogOK DEF SubmitRename
<1>2. w \in Writes /\ Complete(w) /\ w.kind = "rename" /\ w.phase = "sent" /\ ~w.orphan
  BY <1>1, WriteOK
<1>3. acts' \in 0 .. MaxActs /\ faults' \in 0 .. MaxFaults /\ UNCHANGED <<rows, done>>
  BY Counted DEF PageInv, SubmitRename
<1>4. /\ page' = [page EXCEPT !.renameBusy = TRUE, !.dialog = d]
      /\ requests' = Put(requests, w) /\ HasRoom(requests) /\ ~page.renameBusy
  BY DEF SubmitRename
<1> HIDE DEF w, d
<1>5. /\ page' \in Pages
      /\ page'.dialog = d /\ page'.deleteBusy = page.deleteBusy
      /\ page'.renameBusy /\ page'.uploading = page.uploading
      /\ page'.restoreBusy = page.restoreBusy /\ page'.message = page.message
      /\ page'.loading = page.loading /\ page'.refreshing = page.refreshing
  BY <1>1, <1>4 DEF Pages
<1> QED
  BY <1>1, <1>2, <1>3, <1>4, <1>5, WriteStep

\* A version is restored from an open history.
LEMMA RestoreVersionKeeps == PageInv /\ RestoreVersion => PageInv'
<1> SUFFICES ASSUME PageInv, RestoreVersion PROVE PageInv'
  OBVIOUS
<1> DEFINE w == Write("version", page.dialog.entry, None)
           d == [page.dialog EXCEPT !.busy = TRUE, !.error = FALSE]
<1>1. /\ page \in Pages /\ page.dialog \in Dialogs /\ page.dialog.entry \in Entries
      /\ d \in Dialogs /\ d.kind = page.dialog.kind
  BY OpenDialogOK DEF RestoreVersion
<1>2. w \in Writes /\ Complete(w) /\ w.kind = "version" /\ w.phase = "sent" /\ ~w.orphan
  BY <1>1, WriteOK
<1>3. acts' \in 0 .. MaxActs /\ faults' \in 0 .. MaxFaults /\ UNCHANGED <<rows, done>>
  BY Counted DEF PageInv, RestoreVersion
<1>4. /\ page' = [page EXCEPT !.dialog = d]
      /\ requests' = Put(requests, w) /\ HasRoom(requests) /\ page.dialog.kind = "history"
  BY <1>1 DEF RestoreVersion, Pages
<1> HIDE DEF w, d
<1>5. /\ page' \in Pages
      /\ page'.dialog = d /\ page'.deleteBusy = page.deleteBusy
      /\ page'.renameBusy = page.renameBusy /\ page'.uploading = page.uploading
      /\ page'.restoreBusy = page.restoreBusy /\ page'.message = page.message
      /\ page'.loading = page.loading /\ page'.refreshing = page.refreshing
  BY <1>1, <1>4 DEF Pages
<1> QED
  BY <1>1, <1>2, <1>3, <1>4, <1>5, WriteStep

\* A step that leaves the requests, what was done and every flag of the page alone.
LEMMA PageStep ==
    ASSUME PageInv, UNCHANGED <<rows, requests, done>>, page' \in Pages,
           acts' \in 0 .. MaxActs, faults' \in 0 .. MaxFaults,
           page'.deleteBusy = page.deleteBusy, page'.renameBusy = page.renameBusy,
           page'.uploading = page.uploading, page'.restoreBusy = page.restoreBusy,
           page'.message = page.message, page'.loading = page.loading,
           page'.refreshing = page.refreshing, Attached(requests, page')
    PROVE  PageInv'
<1>1. Types'
  BY DEF PageInv, Types
<1>2. Honest(requests', page')
  BY DEF PageInv, Honest
<1>3. ServedDone(requests', done')
  BY DEF PageInv
<1> QED
  BY <1>1, <1>2, <1>3 DEF PageInv

\* Typing sends nothing.
LEMMA TypeKeeps == ASSUME PageInv, NEW term \in {"", "term"}, Type(term) PROVE PageInv'
<1>1. page \in Pages
  BY DEF PageInv, Types
<1>2. acts' \in 0 .. MaxActs /\ faults' \in 0 .. MaxFaults /\ UNCHANGED <<rows, requests, done>>
  BY Counted DEF PageInv, Type
<1>3. page' = [page EXCEPT !.search = term]
  BY DEF Type
<1>4. /\ page' \in Pages /\ page'.dialog = page.dialog
      /\ page'.deleteBusy = page.deleteBusy /\ page'.renameBusy = page.renameBusy
      /\ page'.uploading = page.uploading /\ page'.restoreBusy = page.restoreBusy
      /\ page'.message = page.message /\ page'.loading = page.loading
      /\ page'.refreshing = page.refreshing
  BY <1>1, <1>3 DEF Pages
<1>5. Attached(requests, page')
  BY <1>4 DEF PageInv, Attached
<1> QED
  BY <1>2, <1>4, <1>5, PageStep

\* A dialog opens when none is open, so no version restore thinks that it has one.
LEMMA OpenDialogKeeps ==
    ASSUME PageInv, NEW e \in page.files, NEW kind \in {"delete", "rename", "history"},
           OpenDialog(kind, e)
    PROVE  PageInv'
<1> DEFINE d == [kind |-> kind, entry |-> e, busy |-> FALSE, error |-> FALSE]
<1>1. page \in Pages /\ e \in Entries
  BY DEF PageInv, Types, Pages
<1>2. acts' \in 0 .. MaxActs /\ faults' \in 0 .. MaxFaults /\ UNCHANGED <<rows, requests, done>>
  BY Counted DEF PageInv, OpenDialog
<1>3. page' = [page EXCEPT !.dialog = d] /\ page.dialog = None
  BY DEF OpenDialog, Uncovered
<1>4. d \in Dialogs
  BY <1>1 DEF Dialogs
<1> HIDE DEF d
<1>5. /\ page' \in Pages
      /\ page'.deleteBusy = page.deleteBusy /\ page'.renameBusy = page.renameBusy
      /\ page'.uploading = page.uploading /\ page'.restoreBusy = page.restoreBusy
      /\ page'.message = page.message /\ page'.loading = page.loading
      /\ page'.refreshing = page.refreshing
  BY <1>1, <1>3, <1>4 DEF Pages
<1>6. Attached(requests, page')
  BY <1>3, Kinds DEF PageInv, Attached
<1> QED
  BY <1>2, <1>5, <1>6, PageStep

\* Closing a dialog leaves its request and its button alone.
LEMMA CloseDialogKeeps == PageInv /\ CloseDialog => PageInv'
<1> SUFFICES ASSUME PageInv, CloseDialog PROVE PageInv'
  OBVIOUS
<1>1. page \in Pages /\ requests \in InFlights
  BY DEF PageInv, Types
<1>2. acts' \in 0 .. MaxActs /\ faults' \in 0 .. MaxFaults /\ UNCHANGED <<rows, done>>
  BY Counted DEF PageInv, CloseDialog
<1>3. page' = [page EXCEPT !.dialog = None] /\ requests' = Detached(requests)
  BY DEF CloseDialog
<1>4. /\ page' \in Pages
      /\ page'.deleteBusy = page.deleteBusy /\ page'.renameBusy = page.renameBusy
      /\ page'.uploading = page.uploading /\ page'.restoreBusy = page.restoreBusy
      /\ page'.message = page.message /\ page'.loading = page.loading
      /\ page'.refreshing = page.refreshing
  BY <1>1, <1>3 DEF Pages
<1>5. /\ requests' \in InFlights
      /\ \A p : Honest(requests, p) => Honest(requests', p)
      /\ ServedDone(requests, done) => ServedDone(requests', done)
      /\ \A p : Attached(requests', p)
      /\ \A s \in Slots : requests'[s] \in Writes => Complete(requests'[s])
  BY <1>1, <1>3, DetachedKeeps DEF PageInv, Types
<1>6. Honest(requests, page')
  BY <1>4 DEF PageInv, Honest
<1>7. Types'
  BY <1>2, <1>4, <1>5 DEF PageInv, Types
<1> QED
  BY <1>2, <1>4, <1>5, <1>6, <1>7 DEF PageInv

\* The new page has nothing to wait for but its first list; the writes of the old one are orphans.
LEMMA RemountKeeps == PageInv /\ Remount => PageInv'
<1> SUFFICES ASSUME PageInv, Remount PROVE PageInv'
  OBVIOUS
<1> DEFINE orphans == [s \in Slots |-> IF requests[s] = None \/ requests[s].kind = "list" THEN None
                                       ELSE [requests[s] EXCEPT !.orphan = TRUE]]
<1>1. acts' \in 0 .. MaxActs /\ faults' \in 0 .. MaxFaults /\ UNCHANGED <<rows, done>>
  BY Counted DEF PageInv, Remount
<1>2. /\ page' = FreshPage /\ HasRoom(orphans)
      /\ requests' = Put(orphans, Load("files", "", FALSE, None))
  BY DEF Remount
<1>3. ASSUME NEW s \in Slots, requests[s] \in Writes
      PROVE  LET r == [requests[s] EXCEPT !.orphan = TRUE] IN
             /\ r \in Writes /\ r.orphan /\ r.phase = requests[s].phase
             /\ Said(r) = Said(requests[s]) /\ Complete(r)
  <2>1. Complete(requests[s])
    BY <1>3 DEF PageInv, Types
  <2> QED
    BY <1>3, <2>1 DEF Writes, Said, Complete
<1>4. ASSUME NEW s \in Slots
      PROVE  /\ orphans[s] \in Writes \union {None}
             /\ orphans[s] \in Writes =>
                   /\ requests[s] \in Writes /\ orphans[s].orphan
                   /\ orphans[s].phase = requests[s].phase
                   /\ Said(orphans[s]) = Said(requests[s]) /\ Complete(orphans[s])
  <2>1. requests[s] \in Loads \union Writes \union {None}
    BY DEF PageInv, Types, InFlights
  <2>2. CASE requests[s] \in Writes
    <3>1. orphans[s] = [requests[s] EXCEPT !.orphan = TRUE]
      BY <2>2, Kinds
    <3> QED
      BY <3>1, <2>2, <1>3
  <2>3. CASE requests[s] \notin Writes
    <3>1. orphans[s] = None
      BY <2>1, <2>3, Kinds
    <3> QED
      BY <3>1, Kinds
  <2> QED
    BY <2>2, <2>3
<1>5. orphans \in InFlights
  <2>1. \A s \in Slots : orphans[s] \in Loads \union Writes \union {None}
    BY <1>4
  <2> QED
    BY <2>1 DEF InFlights
<1> HIDE DEF orphans
<1>6. \A s \in Slots : orphans[s] \notin Loads
  BY <1>4, Kinds
<1>7. /\ FreshPage \in Pages /\ FreshPage.message = None /\ requests' \in InFlights
      /\ \A s \in Slots : requests'[s] \in Writes => requests'[s] = orphans[s]
      /\ Attached(requests', FreshPage) /\ Honest(requests', FreshPage)
  BY <1>2, <1>4, <1>5, <1>6, FreshOK
<1>8. ServedDone(requests', done')
  BY <1>1, <1>4, <1>7 DEF PageInv, ServedDone
<1>9. Types'
  BY <1>1, <1>2, <1>4, <1>7 DEF PageInv, Types
<1> QED
  BY <1>2, <1>7, <1>8, <1>9 DEF PageInv

-----------------------------------------------------------------------------
(* The agent *)

\* Whatever the agent does for a write leaves rows.
LEMMA OutcomesOK ==
    ASSUME rows \in [Files -> Rows], NEW r \in Writes, Complete(r)
    PROVE  Outcomes(r) \subseteq [Files -> Rows]
<1>1. Deleted(r) \subseteq [Files -> Rows]
  BY DEF Deleted, Rows
<1>2. r.kind = "rename" => Renamed(r) \subseteq [Files -> Rows]
  BY DEF Renamed, Rows, Complete, Places
<1>3. Restored(r) \subseteq [Files -> Rows]
  BY DEF Restored, Rows
<1>4. r.kind = "upload" => Uploaded(r) \subseteq [Files -> Rows]
  <2> SUFFICES ASSUME r.kind = "upload" PROVE Uploaded(r) \subseteq [Files -> Rows]
    OBVIOUS
  <2> DEFINE new == [state |-> "live", safe |-> FALSE, path |-> IF Taken(r.to) THEN CopyPath ELSE r.to]
  <2>1. new \in Rows
    BY DEF Complete, Rows, Places
  <2> HIDE DEF new
  <2>2. \A f \in Files : [rows EXCEPT ![f] = new] \in [Files -> Rows]
    BY <2>1
  <2> QED
    BY <2>2 DEF Uploaded, new
<1>5. VersionRestored(r) \subseteq [Files -> Rows]
  BY DEF VersionRestored
<1>6. r.kind \in {"delete", "rename", "restore", "upload", "version"}
  BY DEF Writes
<1> QED
  BY <1>1, <1>2, <1>3, <1>4, <1>5, <1>6 DEF Outcomes

\* A request moves on in its slot, and the page does not notice.
LEMMA ServedStep ==
    ASSUME PageInv, NEW s \in Slots, requests[s] \in Loads \union Writes, NEW r,
           requests' = [requests EXCEPT ![s] = r],
           requests[s] \in Loads => r \in Loads /\ r.silent = requests[s].silent /\ r.after = requests[s].after,
           requests[s] \in Writes =>
               /\ r \in Writes /\ Complete(r) /\ Said(r) = Said(requests[s])
               /\ r.kind = requests[s].kind /\ r.orphan = requests[s].orphan
               /\ r.entry = requests[s].entry /\ r.own = requests[s].own
               /\ r.phase = "ok" => Said(r) \in done',
           rows' \in [Files -> Rows], done \subseteq done', UNCHANGED <<page, acts>>,
           faults' \in 0 .. MaxFaults
    PROVE  PageInv'
<1>1. requests \in InFlights
  BY DEF PageInv, Types
<1>2. /\ requests' \in InFlights
      /\ \A p : Honest(requests, p) => Honest(requests', p)
  BY <1>1, SlotChanged
<1>3. requests'[s] = r /\ \A t \in Slots \ {s} : requests'[t] = requests[t]
  BY <1>1 DEF InFlights
<1>4. requests'[s] \in Writes => requests[s] \in Writes
  BY <1>3, Kinds
<1>5. \A t \in Slots : requests'[t] \in Writes => Complete(requests'[t])
  BY <1>3, <1>4 DEF PageInv, Types
<1>6. Types'
  BY <1>2, <1>5 DEF PageInv, Types
<1>7. Attached(requests', page')
  BY <1>3, <1>4 DEF PageInv, Attached
<1>8. ServedDone(requests', done')
  BY <1>3, <1>4 DEF PageInv, ServedDone
<1> QED
  BY <1>2, <1>6, <1>7, <1>8 DEF PageInv

\* A list is served.
LEMMA ServeListKeeps == ASSUME PageInv, NEW s \in Slots, ServeList(s) PROVE PageInv'
<1> DEFINE answer == Listing(requests[s].view, requests[s].term)
           r == [requests[s] EXCEPT !.phase = "ok", !.answer = answer]
<1>1. requests[s] \in Loads
  BY Kinds DEF PageInv, Types, InFlights, ServeList
<1>2. answer \subseteq Entries
  BY ListingOK DEF PageInv, Types
<1>3. requests' = [requests EXCEPT ![s] = r]
  BY <1>1 DEF ServeList, PageInv, Types, InFlights
<1>4. UNCHANGED <<rows, page, done, acts, faults>>
  BY DEF ServeList
<1> HIDE DEF answer
<1>5. r \in Loads /\ r.silent = requests[s].silent /\ r.after = requests[s].after
  BY <1>1, <1>2 DEF Loads
<1> HIDE DEF r
<1> QED
  BY <1>1, <1>3, <1>4, <1>5, Kinds, ServedStep DEF PageInv, Types

\* Only the phase of a write changes.
LEMMA PhaseChanged ==
    ASSUME NEW r \in Writes, Complete(r), NEW phase \in {"sent", "ok", "refused", "failed"}
    PROVE  LET n == [r EXCEPT !.phase = phase] IN
           /\ n \in Writes /\ Complete(n) /\ Said(n) = Said(r)
           /\ n.kind = r.kind /\ n.orphan = r.orphan /\ n.entry = r.entry /\ n.own = r.own
           /\ n.phase = phase
  BY DEF Writes, Complete, Said

\* A write is served or refused; what it did is remembered.
LEMMA ServeWriteKeeps == ASSUME PageInv, NEW s \in Slots, ServeWrite(s) PROVE PageInv'
<1>1. requests[s] \in Writes /\ Complete(requests[s])
  BY Kinds DEF PageInv, Types, InFlights, ServeWrite
<1>2. CASE Outcomes(requests[s]) = {}
  <2> DEFINE r == [requests[s] EXCEPT !.phase = "refused"]
  <2>1. requests' = [requests EXCEPT ![s] = r] /\ UNCHANGED <<rows, page, done, acts, faults>>
    BY <1>2 DEF ServeWrite
  <2>2. /\ r \in Writes /\ Complete(r) /\ Said(r) = Said(requests[s])
        /\ r.kind = requests[s].kind /\ r.orphan = requests[s].orphan
        /\ r.entry = requests[s].entry /\ r.own = requests[s].own /\ r.phase = "refused"
    BY <1>1, PhaseChanged
  <2> HIDE DEF r
  <2> QED
    BY <1>1, <2>1, <2>2, Kinds, ServedStep DEF PageInv, Types
<1>3. CASE Outcomes(requests[s]) # {}
  <2> DEFINE r == [requests[s] EXCEPT !.phase = "ok"]
  <2>1. /\ requests' = [requests EXCEPT ![s] = r] /\ UNCHANGED <<page, acts, faults>>
        /\ rows' \in Outcomes(requests[s]) /\ done' = done \union {Said(requests[s])}
    BY <1>3 DEF ServeWrite
  <2>2. /\ r \in Writes /\ Complete(r) /\ Said(r) = Said(requests[s])
        /\ r.kind = requests[s].kind /\ r.orphan = requests[s].orphan
        /\ r.entry = requests[s].entry /\ r.own = requests[s].own
    BY <1>1, PhaseChanged
  <2>3. rows' \in [Files -> Rows]
    BY <1>1, <2>1, OutcomesOK DEF PageInv, Types
  <2>4. Said(r) \in done' /\ done \subseteq done'
    BY <2>1, <2>2
  <2> HIDE DEF r
  <2>5. faults' \in 0 .. MaxFaults
    BY <2>1 DEF PageInv, Types
  <2> QED
    BY <1>1, <2>1, <2>2, <2>3, <2>4, <2>5, Kinds, ServedStep
<1> QED
  BY <1>2, <1>3

\* The network fails.
LEMMA FailRequestKeeps == ASSUME PageInv, NEW s \in Slots, FailRequest(s) PROVE PageInv'
<1> DEFINE r == [requests[s] EXCEPT !.phase = "failed"]
<1>1. requests[s] \in Loads \union Writes /\ requests[s] # None
  BY DEF PageInv, Types, InFlights, FailRequest
<1>2. /\ requests' = [requests EXCEPT ![s] = r] /\ UNCHANGED <<rows, page, done, acts>>
      /\ faults < MaxFaults /\ faults' = faults + 1
  BY DEF FailRequest
<1>3. requests[s] \in Loads =>
         r \in Loads /\ r.silent = requests[s].silent /\ r.after = requests[s].after
  BY DEF Loads
<1>4. requests[s] \in Writes =>
         /\ r \in Writes /\ Complete(r) /\ Said(r) = Said(requests[s])
         /\ r.kind = requests[s].kind /\ r.orphan = requests[s].orphan
         /\ r.entry = requests[s].entry /\ r.own = requests[s].own /\ r.phase # "ok"
  BY PhaseChanged DEF PageInv, Types
<1>5. faults' \in 0 .. MaxFaults /\ rows' \in [Files -> Rows] /\ done \subseteq done'
  BY <1>2, FilesPageAssumption DEF PageInv, Types
<1> HIDE DEF r
<1> QED
  BY <1>1, <1>2, <1>3, <1>4, <1>5, ServedStep

\* Copies are made and lost.
LEMMA ReplicasKeep ==
    ASSUME PageInv, NEW f \in Files, Replicate(f) \/ LoseReplica(f) PROVE PageInv'
<1>1. rows' \in [Files -> Rows]
  <2>1. rows \in [Files -> Rows] /\ rows[f] \in Rows
    BY DEF PageInv, Types
  <2>2. \A b \in BOOLEAN : [rows[f] EXCEPT !.safe = b] \in Rows
    BY <2>1 DEF Rows
  <2>3. \E b \in BOOLEAN : rows' = [rows EXCEPT ![f].safe = b]
    BY DEF Replicate, LoseReplica
  <2> QED
    BY <2>1, <2>2, <2>3
<1>2. /\ UNCHANGED <<page, requests, done, acts>> /\ faults' \in 0 .. MaxFaults
  BY FilesPageAssumption DEF PageInv, Types, Replicate, LoseReplica
<1> QED
  BY <1>1, <1>2 DEF PageInv, Types

-----------------------------------------------------------------------------
(* Answers *)

\* A list that arrives takes back the flags of its load.
LEMMA ListArrivesKeeps == ASSUME PageInv, NEW s \in Slots, ListArrives(s) PROVE PageInv'
<1> DEFINE r == requests[s]
<1>1. page \in Pages /\ requests \in InFlights
  BY DEF PageInv, Types
<1>2. r \in Loads /\ UNCHANGED <<rows, done, acts, faults>>
  BY <1>1, Kinds DEF InFlights, ListArrives, Answered
<1>3. requests' = Free(s)
  BY DEF ListArrives
<1>4. /\ page' = [Loaded(r) EXCEPT !.files = IF Ok(s) THEN r.answer ELSE @,
                                   !.message = IF Ok(s) THEN @ ELSE Failure]
  BY DEF ListArrives
<1>5. r.silent \in BOOLEAN /\ r.answer \subseteq Entries
  BY <1>2 DEF Loads
<1>6. /\ Loaded(r) \in Pages
      /\ Loaded(r).dialog = page.dialog /\ Loaded(r).deleteBusy = page.deleteBusy
      /\ Loaded(r).renameBusy = page.renameBusy /\ Loaded(r).uploading = page.uploading
      /\ Loaded(r).restoreBusy = (IF r.after = "restore" THEN None ELSE page.restoreBusy)
      /\ Loaded(r).loading = (page.loading /\ r.silent)
      /\ Loaded(r).refreshing = (page.refreshing /\ r.after # "refresh")
      /\ Loaded(r).message = page.message
  BY <1>1, <1>5, ZenonT(30) DEF Loaded, Pages
<1> DEFINE p == Loaded(r)
<1>7. /\ page' \in Pages
      /\ page'.dialog = p.dialog /\ page'.deleteBusy = p.deleteBusy
      /\ page'.renameBusy = p.renameBusy /\ page'.uploading = p.uploading
      /\ page'.restoreBusy = p.restoreBusy /\ page'.loading = p.loading
      /\ page'.refreshing = p.refreshing /\ page'.message \in {p.message, Failure}
  <2> HIDE DEF p
  <2>1. p \in Pages /\ page' = [p EXCEPT !.files = IF Ok(s) THEN r.answer ELSE @,
                                         !.message = IF Ok(s) THEN @ ELSE Failure]
    BY <1>4, <1>6 DEF p
  <2> QED
    BY <2>1, <1>5 DEF Pages, Messages
<1>8. /\ Free(s) \in InFlights
      /\ \A k : Running(Free(s), k) = Running(requests, k) \ {s}
      /\ \A t \in Slots \ {s} : Free(s)[t] = requests[t]
      /\ Free(s)[s] = None
  BY <1>1, SlotFreed
<1>9. \A k : Running(Free(s), k) = Running(requests, k)
  BY <1>2, <1>8, Kinds DEF Running
<1>10. \A t \in Slots : Free(s)[t] \in Writes => t # s /\ Free(s)[t] = requests[t]
  BY <1>8, Kinds
<1>11. Types'
  BY <1>2, <1>3, <1>7, <1>8, <1>10 DEF PageInv, Types
<1>12. Attached(requests', page')
  BY <1>3, <1>6, <1>7, <1>10 DEF PageInv, Attached
<1>13. ServedDone(requests', done')
  BY <1>2, <1>3, <1>10 DEF PageInv, ServedDone
<1>14. Honest(requests', page')
  <2>1. page'.loading => \E t \in Slots : Free(s)[t] \in Loads /\ ~Free(s)[t].silent
    BY <1>6, <1>7, <1>8 DEF PageInv, Honest
  <2>2. page'.refreshing => \E t \in Slots : Free(s)[t] \in Loads /\ Free(s)[t].after = "refresh"
    BY <1>6, <1>7, <1>8 DEF PageInv, Honest
  <2>3. page'.restoreBusy # None =>
          \/ \E t \in Running(Free(s), "restore") : Free(s)[t].entry.id = page'.restoreBusy
          \/ \E t \in Slots : Free(s)[t] \in Loads /\ Free(s)[t].after = "restore"
    <3>1. s \notin Running(requests, "restore")
      BY <1>2, Kinds DEF Running
    <3> QED
      BY <1>6, <1>7, <1>8, <1>9, <3>1 DEF PageInv, Honest, Running
  <2> QED
    BY <1>3, <1>6, <1>7, <1>9, <2>1, <2>2, <2>3 DEF PageInv, Honest
<1> QED
  BY <1>2, <1>6, <1>7, <1>11, <1>12, <1>13, <1>14 DEF PageInv

\* The answer to a write is there for the mounted page.
LEMMA WriteAnswered ==
    ASSUME PageInv, NEW s \in Slots, NEW k \in {"delete", "rename", "restore", "upload", "version"},
           Answered(s, k)
    PROVE  /\ page \in Pages /\ requests \in InFlights /\ UNCHANGED <<rows, done, acts, faults>>
           /\ requests[s] \in Writes /\ requests[s].kind = k /\ ~requests[s].orphan
           /\ s \in Running(requests, k)
           /\ \A j : j # k => s \notin Running(requests, j)
           /\ Said(requests[s]) \in Messages
           /\ Ok(s) => Said(requests[s]) \in done
  BY Kinds DEF PageInv, Types, InFlights, Answered, Running, Messages, ServedDone, Ok

\* The one request of a busy button leaves it idle; the others keep theirs.
LEMMA OneFreed ==
    ASSUME NEW S, NEW b \in BOOLEAN, One(S, b), NEW s
    PROVE  /\ s \in S => One(S \ {s}, FALSE)
           /\ s \notin S => One(S \ {s}, b)
<1>1. CASE s \in S
  <2>1. S = {s}
    BY <1>1 DEF One
  <2> QED
    BY <2>1 DEF One
<1>2. CASE s \notin S
  <2>1. S \ {s} = S
    BY <1>2
  <2> QED
    BY <1>2, <2>1
<1> QED
  BY <1>1, <1>2

\* An answer that only frees its slot: the flag it stood for is taken back, the others stay.
LEMMA FreeStep ==
    ASSUME PageInv, NEW s \in Slots, NEW k \in {"delete", "rename", "restore", "upload", "version"},
           s \in Running(requests, k), requests' = Free(s),
           UNCHANGED <<rows, done, acts, faults>>, page' \in Pages,
           page'.dialog # page.dialog =>
               /\ page'.dialog \in Dialogs /\ page.dialog \in Dialogs
               /\ page'.dialog.kind = page.dialog.kind,
           page'.deleteBusy = (page.deleteBusy /\ k # "delete"),
           page'.renameBusy = (page.renameBusy /\ k # "rename"),
           page'.uploading = (page.uploading /\ k # "upload"),
           page'.restoreBusy = (IF k = "restore" THEN None ELSE page.restoreBusy),
           page'.loading = page.loading, page'.refreshing = page.refreshing,
           page'.message \in {page.message, Failure}
    PROVE  PageInv'
<1>1. requests \in InFlights /\ requests[s] \in Writes
  BY DEF PageInv, Types, Running
<1>2. /\ Free(s) \in InFlights
      /\ \A j : Running(Free(s), j) = Running(requests, j) \ {s}
      /\ \A t \in Slots \ {s} : Free(s)[t] = requests[t]
      /\ Free(s)[s] = None
  BY <1>1, SlotFreed
<1>3. /\ \A t \in Slots : Free(s)[t] \in Writes => t # s /\ Free(s)[t] = requests[t]
      /\ \A t \in Slots : requests[t] \in Loads => Free(s)[t] = requests[t]
      /\ \A j : j # k => s \notin Running(requests, j)
  BY <1>1, <1>2, Kinds DEF Running
<1>4. Types'
  BY <1>2, <1>3 DEF PageInv, Types
<1>5. Attached(requests', page')
  BY <1>3 DEF PageInv, Attached
<1>6. ServedDone(requests', done')
  BY <1>3 DEF PageInv, ServedDone
<1>7. /\ One(Running(Free(s), "delete"), page'.deleteBusy)
      /\ One(Running(Free(s), "rename"), page'.renameBusy)
      /\ One(Running(Free(s), "upload"), page'.uploading)
  <2>1. /\ One(Running(requests, "delete"), page.deleteBusy)
        /\ One(Running(requests, "rename"), page.renameBusy)
        /\ One(Running(requests, "upload"), page.uploading)
    BY DEF PageInv, Honest
  <2>2. /\ page.deleteBusy \in BOOLEAN /\ page.renameBusy \in BOOLEAN /\ page.uploading \in BOOLEAN
    BY DEF PageInv, Types, Pages
  <2>3. Running(Free(s), "delete") = Running(requests, "delete") \ {s}
        /\ Running(Free(s), "rename") = Running(requests, "rename") \ {s}
        /\ Running(Free(s), "upload") = Running(requests, "upload") \ {s}
    BY <1>2
  <2>4. One(Running(requests, "delete") \ {s}, page'.deleteBusy)
    <3>1. CASE k = "delete"
      <4>1. s \in Running(requests, "delete") /\ page'.deleteBusy = FALSE
        BY <3>1
      <4> QED
        BY <2>1, <2>2, <4>1, OneFreed
    <3>2. CASE k # "delete"
      <4>1. s \notin Running(requests, "delete") /\ page'.deleteBusy = page.deleteBusy
        BY <1>3, <2>2, <3>2
      <4> QED
        BY <2>1, <2>2, <4>1, OneFreed
    <3> QED
      BY <3>1, <3>2
  <2>5. One(Running(requests, "rename") \ {s}, page'.renameBusy)
    <3>1. CASE k = "rename"
      <4>1. s \in Running(requests, "rename") /\ page'.renameBusy = FALSE
        BY <3>1
      <4> QED
        BY <2>1, <2>2, <4>1, OneFreed
    <3>2. CASE k # "rename"
      <4>1. s \notin Running(requests, "rename") /\ page'.renameBusy = page.renameBusy
        BY <1>3, <2>2, <3>2
      <4> QED
        BY <2>1, <2>2, <4>1, OneFreed
    <3> QED
      BY <3>1, <3>2
  <2>6. One(Running(requests, "upload") \ {s}, page'.uploading)
    <3>1. CASE k = "upload"
      <4>1. s \in Running(requests, "upload") /\ page'.uploading = FALSE
        BY <3>1
      <4> QED
        BY <2>1, <2>2, <4>1, OneFreed
    <3>2. CASE k # "upload"
      <4>1. s \notin Running(requests, "upload") /\ page'.uploading = page.uploading
        BY <1>3, <2>2, <3>2
      <4> QED
        BY <2>1, <2>2, <4>1, OneFreed
    <3> QED
      BY <3>1, <3>2
  <2> QED
    BY <2>3, <2>4, <2>5, <2>6
<1>8. page'.restoreBusy # None =>
          \/ \E t \in Running(Free(s), "restore") : Free(s)[t].entry.id = page'.restoreBusy
          \/ \E t \in Slots : Free(s)[t] \in Loads /\ Free(s)[t].after = "restore"
  BY <1>2, <1>3 DEF PageInv, Honest, Running
<1>9. Honest(requests', page')
  BY <1>3, <1>7, <1>8 DEF PageInv, Honest
<1> QED
  BY <1>4, <1>5, <1>6, <1>9 DEF PageInv

\* An answer that starts a reload.
LEMMA ReloadStep ==
    ASSUME PageInv, NEW s \in Slots, NEW k \in {"delete", "rename", "restore", "upload", "version"},
           s \in Running(requests, k), NEW after \in {None, "refresh", "restore"},
           k = "restore" => after = "restore",
           requests' = Reload(s, after) \/ requests' = Detached(Reload(s, after)),
           UNCHANGED <<rows, done, acts, faults>>, page' \in Pages,
           \/ page'.dialog = page.dialog
           \/ page.dialog \in Dialogs /\ page.dialog.kind # "history"
           \/ requests' = Detached(Reload(s, after)),
           page'.deleteBusy = (page.deleteBusy /\ k # "delete"),
           page'.renameBusy = (page.renameBusy /\ k # "rename"),
           page'.uploading = (page.uploading /\ k # "upload"),
           page'.restoreBusy = page.restoreBusy, page'.refreshing = page.refreshing,
           page'.message \in {None, Failure} \union done
    PROVE  PageInv'
<1> DEFINE q == Reload(s, after)
<1>1. requests \in InFlights /\ requests[s] \in Writes
  BY DEF PageInv, Types, Running
<1>2. /\ q \in InFlights
      /\ \A j : Running(q, j) = Running(requests, j) \ {s}
      /\ \A t \in Slots : requests[t] \in Loads => q[t] = requests[t]
      /\ \A t \in Slots : q[t] \in Writes => t # s /\ q[t] = requests[t]
      /\ \A t \in Slots : t # s /\ requests[t] \in Writes => q[t] = requests[t]
      /\ \E t \in Slots : q[t] \in Loads /\ ~q[t].silent /\ q[t].after = after
  BY <1>1, Reloaded
<1> HIDE DEF q
<1>3. \A j : j # k => s \notin Running(requests, j)
  BY DEF Running
<1>4. \A t \in Slots : q[t] \in Writes => Complete(q[t])
  BY <1>2 DEF PageInv, Types
<1>5. /\ One(Running(q, "delete"), page'.deleteBusy)
      /\ One(Running(q, "rename"), page'.renameBusy)
      /\ One(Running(q, "upload"), page'.uploading)
  <2>1. /\ One(Running(requests, "delete"), page.deleteBusy)
        /\ One(Running(requests, "rename"), page.renameBusy)
        /\ One(Running(requests, "upload"), page.uploading)
    BY DEF PageInv, Honest
  <2>2. /\ page.deleteBusy \in BOOLEAN /\ page.renameBusy \in BOOLEAN /\ page.uploading \in BOOLEAN
    BY DEF PageInv, Types, Pages
  <2>3. Running(q, "delete") = Running(requests, "delete") \ {s}
        /\ Running(q, "rename") = Running(requests, "rename") \ {s}
        /\ Running(q, "upload") = Running(requests, "upload") \ {s}
    BY <1>2
  <2>4. One(Running(requests, "delete") \ {s}, page'.deleteBusy)
    <3>1. CASE k = "delete"
      <4>1. s \in Running(requests, "delete") /\ page'.deleteBusy = FALSE
        BY <3>1
      <4> QED
        BY <2>1, <2>2, <4>1, OneFreed
    <3>2. CASE k # "delete"
      <4>1. s \notin Running(requests, "delete") /\ page'.deleteBusy = page.deleteBusy
        BY <1>3, <2>2, <3>2
      <4> QED
        BY <2>1, <2>2, <4>1, OneFreed
    <3> QED
      BY <3>1, <3>2
  <2>5. One(Running(requests, "rename") \ {s}, page'.renameBusy)
    <3>1. CASE k = "rename"
      <4>1. s \in Running(requests, "rename") /\ page'.renameBusy = FALSE
        BY <3>1
      <4> QED
        BY <2>1, <2>2, <4>1, OneFreed
    <3>2. CASE k # "rename"
      <4>1. s \notin Running(requests, "rename") /\ page'.renameBusy = page.renameBusy
        BY <1>3, <2>2, <3>2
      <4> QED
        BY <2>1, <2>2, <4>1, OneFreed
    <3> QED
      BY <3>1, <3>2
  <2>6. One(Running(requests, "upload") \ {s}, page'.uploading)
    <3>1. CASE k = "upload"
      <4>1. s \in Running(requests, "upload") /\ page'.uploading = FALSE
        BY <3>1
      <4> QED
        BY <2>1, <2>2, <4>1, OneFreed
    <3>2. CASE k # "upload"
      <4>1. s \notin Running(requests, "upload") /\ page'.uploading = page.uploading
        BY <1>3, <2>2, <3>2
      <4> QED
        BY <2>1, <2>2, <4>1, OneFreed
    <3> QED
      BY <3>1, <3>2
  <2> QED
    BY <2>3, <2>4, <2>5, <2>6
<1>6. page'.restoreBusy # None =>
          \/ \E t \in Running(q, "restore") : q[t].entry.id = page'.restoreBusy
          \/ \E t \in Slots : q[t] \in Loads /\ q[t].after = "restore"
  <2>1. CASE k = "restore"
    BY <1>2, <2>1
  <2>2. CASE k # "restore"
    <3>1. \A t \in Running(requests, "restore") : t \in Running(q, "restore") /\ q[t] = requests[t]
      BY <1>2, <1>3, <2>2 DEF Running
    <3> QED
      BY <1>2, <3>1 DEF PageInv, Honest
  <2> QED
    BY <2>1, <2>2
<1>7. Honest(q, page')
  BY <1>2, <1>5, <1>6 DEF PageInv, Honest
<1>8. ServedDone(q, done')
  BY <1>2 DEF PageInv, ServedDone
<1>9. CASE requests' = q
  <2>1. page'.dialog = page.dialog \/ (page.dialog \in Dialogs /\ page.dialog.kind # "history")
        \/ requests' = Detached(q)
    BY DEF q
  <2>2. Attached(q, page')
    <3>1. CASE page'.dialog = page.dialog
      BY <1>2, <3>1 DEF PageInv, Attached
    <3>2. CASE page.dialog \in Dialogs /\ page.dialog.kind # "history"
      BY <1>2, <3>2 DEF PageInv, Attached
    <3>3. CASE requests' = Detached(q)
      <4>1. Attached(Detached(q), page')
        BY <1>2, <1>4, DetachedKeeps
      <4> QED
        BY <1>9, <3>3, <4>1
    <3> QED
      BY <2>1, <3>1, <3>2, <3>3
  <2>3. Types'
    BY <1>2, <1>4, <1>9 DEF PageInv, Types
  <2> QED
    BY <1>7, <1>8, <1>9, <2>2, <2>3 DEF PageInv
<1>10. CASE requests' = Detached(q)
  <2>1. /\ requests' \in InFlights /\ Honest(requests', page') /\ ServedDone(requests', done')
        /\ Attached(requests', page')
        /\ \A t \in Slots : requests'[t] \in Writes => Complete(requests'[t])
    BY <1>2, <1>4, <1>7, <1>8, <1>10, DetachedKeeps
  <2>2. Types'
    BY <2>1 DEF PageInv, Types
  <2> QED
    BY <2>1, <2>2 DEF PageInv
<1> QED
  BY <1>9, <1>10 DEF q

\* The end of a delete or a rename frees its button, whichever dialog is open by then.
LEMMA DialogArrivesKeeps ==
    ASSUME PageInv, NEW s \in Slots, NEW k \in {"delete", "rename"}, DialogArrives(s, k)
    PROVE  PageInv'
<1> DEFINE mine == page.dialog # None /\ page.dialog.kind = k
           idle == [page EXCEPT !.deleteBusy = @ /\ k # "delete",
                                !.renameBusy = @ /\ k # "rename"]
<1>1. /\ page \in Pages /\ requests \in InFlights /\ UNCHANGED <<rows, done, acts, faults>>
      /\ s \in Running(requests, k)
      /\ Said(requests[s]) \in Messages /\ (Ok(s) => Said(requests[s]) \in done)
  BY WriteAnswered DEF DialogArrives
<1>2. /\ idle \in Pages
      /\ idle.deleteBusy = (page.deleteBusy /\ k # "delete")
      /\ idle.renameBusy = (page.renameBusy /\ k # "rename")
      /\ idle.uploading = page.uploading /\ idle.restoreBusy = page.restoreBusy
      /\ idle.loading = page.loading /\ idle.refreshing = page.refreshing
      /\ idle.dialog = page.dialog /\ idle.message = page.message
  BY <1>1, ZenonT(30) DEF Pages
<1>3. mine => page.dialog \in Dialogs /\ page.dialog.kind # "history"
  BY <1>1 DEF Pages
<1>4. page.uploading \in BOOLEAN
  BY <1>1 DEF Pages
<1>5. CASE Ok(s)
  <2>1. /\ page' = [idle EXCEPT !.message = Said(requests[s]), !.loading = TRUE,
                                !.dialog = IF mine THEN None ELSE @]
        /\ requests' = Reload(s, None)
    BY <1>5 DEF DialogArrives
  <2> HIDE DEF idle, mine
  <2>2. /\ page' \in Pages
        /\ page'.deleteBusy = idle.deleteBusy /\ page'.renameBusy = idle.renameBusy
        /\ page'.uploading = idle.uploading /\ page'.restoreBusy = idle.restoreBusy
        /\ page'.refreshing = idle.refreshing
        /\ page'.dialog = (IF mine THEN None ELSE idle.dialog)
        /\ page'.message = Said(requests[s])
    BY <1>1, <1>2, <2>1 DEF Pages
  <2>3. page'.dialog = page.dialog \/ (page.dialog \in Dialogs /\ page.dialog.kind # "history")
    BY <1>2, <1>3, <2>2
  <2>4. page'.uploading = (page.uploading /\ k # "upload")
    BY <1>2, <1>4, <2>2
  <2>5. page'.message \in {None, Failure} \union done
    BY <1>1, <1>5, <2>2
  <2>6. page'.deleteBusy = (page.deleteBusy /\ k # "delete")
        /\ page'.renameBusy = (page.renameBusy /\ k # "rename")
        /\ page'.restoreBusy = page.restoreBusy /\ page'.refreshing = page.refreshing
    BY <1>2, <2>2
  <2> QED
    BY <1>1, <2>1, <2>2, <2>3, <2>4, <2>5, <2>6, ReloadStep
<1>6. CASE ~Ok(s)
  <2>1. /\ page' = IF mine THEN [idle EXCEPT !.dialog = [page.dialog EXCEPT !.error = TRUE]] ELSE idle
        /\ requests' = Free(s)
    BY <1>2, <1>6 DEF DialogArrives
  <2>2. mine => /\ [page.dialog EXCEPT !.error = TRUE] \in Dialogs
                /\ [page.dialog EXCEPT !.error = TRUE].kind = page.dialog.kind
    BY <1>3 DEF Dialogs
  <2> DEFINE d == [page.dialog EXCEPT !.error = TRUE]
  <2> HIDE DEF idle, mine, d
  <2>3. /\ page' \in Pages
        /\ page'.deleteBusy = idle.deleteBusy /\ page'.renameBusy = idle.renameBusy
        /\ page'.uploading = idle.uploading /\ page'.restoreBusy = idle.restoreBusy
        /\ page'.refreshing = idle.refreshing /\ page'.loading = idle.loading
        /\ page'.dialog = (IF mine THEN d ELSE idle.dialog)
        /\ page'.message = idle.message
    BY <1>2, <2>1, <2>2 DEF Pages, d
  <2>4. page'.dialog # page.dialog =>
            /\ page'.dialog \in Dialogs /\ page.dialog \in Dialogs
            /\ page'.dialog.kind = page.dialog.kind
    BY <1>2, <1>3, <2>2, <2>3 DEF d
  <2>5. page'.uploading = (page.uploading /\ k # "upload")
    BY <1>2, <1>4, <2>3
  <2>6. /\ page'.deleteBusy = (page.deleteBusy /\ k # "delete")
        /\ page'.renameBusy = (page.renameBusy /\ k # "rename")
        /\ page'.restoreBusy = page.restoreBusy /\ page'.refreshing = page.refreshing
        /\ page'.loading = page.loading /\ page'.message = page.message
    BY <1>2, <2>3
  <2>7. /\ k \in {"delete", "rename", "restore", "upload", "version"}
        /\ page'.restoreBusy = (IF k = "restore" THEN None ELSE page.restoreBusy)
        /\ page'.message \in {page.message, Failure}
    BY <2>6
  <2>8. page' \in Pages /\ requests' = Free(s)
    BY <2>1, <2>3
  <2> QED
    BY <1>1, <2>4, <2>5, <2>6, <2>7, <2>8, FreeStep
<1> QED
  BY <1>5, <1>6

\* A restore that succeeded hands its card over to the reload.
LEMMA RestoreArrivesKeeps == ASSUME PageInv, NEW s \in Slots, RestoreArrives(s) PROVE PageInv'
<1>1. /\ page \in Pages /\ requests \in InFlights /\ UNCHANGED <<rows, done, acts, faults>>
      /\ s \in Running(requests, "restore")
      /\ Said(requests[s]) \in Messages /\ (Ok(s) => Said(requests[s]) \in done)
  BY WriteAnswered DEF RestoreArrives
<1>2. page.deleteBusy \in BOOLEAN /\ page.renameBusy \in BOOLEAN /\ page.uploading \in BOOLEAN
  BY <1>1 DEF Pages
<1>3. CASE Ok(s)
  <2>1. /\ page' = [page EXCEPT !.message = Said(requests[s]), !.loading = TRUE]
        /\ requests' = Reload(s, "restore")
    BY <1>3 DEF RestoreArrives
  <2>2. /\ page' \in Pages /\ page'.dialog = page.dialog
        /\ page'.deleteBusy = page.deleteBusy /\ page'.renameBusy = page.renameBusy
        /\ page'.uploading = page.uploading /\ page'.restoreBusy = page.restoreBusy
        /\ page'.refreshing = page.refreshing /\ page'.message = Said(requests[s])
    BY <1>1, <2>1 DEF Pages
  <2>3. page'.message \in {None, Failure} \union done
    BY <1>1, <1>3, <2>2
  <2> QED
    BY <1>1, <1>2, <2>1, <2>2, <2>3, ReloadStep
<1>4. CASE ~Ok(s)
  <2>1. /\ page' = [page EXCEPT !.message = Failure, !.restoreBusy = None]
        /\ requests' = Free(s)
    BY <1>4 DEF RestoreArrives
  <2>2. /\ page' \in Pages /\ page'.dialog = page.dialog
        /\ page'.deleteBusy = page.deleteBusy /\ page'.renameBusy = page.renameBusy
        /\ page'.uploading = page.uploading /\ page'.restoreBusy = None
        /\ page'.refreshing = page.refreshing /\ page'.loading = page.loading
        /\ page'.message = Failure
    BY <1>1, <2>1 DEF Pages, Messages
  <2> QED
    BY <1>1, <1>2, <2>1, <2>2, FreeStep
<1> QED
  BY <1>3, <1>4

\* Only a lost upload does not reload.
LEMMA UploadArrivesKeeps == ASSUME PageInv, NEW s \in Slots, UploadArrives(s) PROVE PageInv'
<1>1. /\ page \in Pages /\ requests \in InFlights /\ UNCHANGED <<rows, done, acts, faults>>
      /\ s \in Running(requests, "upload")
      /\ Said(requests[s]) \in Messages /\ (Ok(s) => Said(requests[s]) \in done)
  BY WriteAnswered DEF UploadArrives
<1>2. page.deleteBusy \in BOOLEAN /\ page.renameBusy \in BOOLEAN /\ page.uploading \in BOOLEAN
      /\ page.loading \in BOOLEAN
  BY <1>1 DEF Pages
<1> DEFINE failed == requests[s].phase = "failed"
<1>3. /\ page' = [page EXCEPT !.uploading = FALSE,
                              !.message = IF Ok(s) THEN Said(requests[s]) ELSE Failure,
                              !.loading = @ \/ ~failed]
      /\ requests' = IF failed THEN Free(s) ELSE Reload(s, None)
  BY DEF UploadArrives
<1>4. Ok(s) => ~failed
  BY DEF Ok
<1> HIDE DEF failed
<1>5. /\ page' \in Pages /\ page'.dialog = page.dialog
      /\ page'.deleteBusy = page.deleteBusy /\ page'.renameBusy = page.renameBusy
      /\ page'.uploading = FALSE /\ page'.restoreBusy = page.restoreBusy
      /\ page'.refreshing = page.refreshing /\ page'.loading = (page.loading \/ ~failed)
      /\ page'.message = (IF Ok(s) THEN Said(requests[s]) ELSE Failure)
  BY <1>1, <1>3, ZenonT(30) DEF Pages, Messages
<1>6. CASE failed
  <2>1. page'.loading = page.loading /\ page'.message = Failure /\ requests' = Free(s)
    BY <1>2, <1>3, <1>4, <1>5, <1>6
  <2> QED
    BY <1>1, <1>2, <1>5, <2>1, FreeStep
<1>7. CASE ~failed
  <2>1. page'.message \in {None, Failure} \union done /\ requests' = Reload(s, None)
    BY <1>1, <1>3, <1>5, <1>7
  <2> QED
    BY <1>1, <1>2, <1>5, <2>1, ReloadStep
<1> QED
  BY <1>6, <1>7

\* An error of a version restore goes to the dialog that it belongs to.
LEMMA VersionArrivesKeeps == ASSUME PageInv, NEW s \in Slots, VersionArrives(s) PROVE PageInv'
<1>1. /\ page \in Pages /\ requests \in InFlights /\ UNCHANGED <<rows, done, acts, faults>>
      /\ s \in Running(requests, "version")
      /\ Said(requests[s]) \in Messages /\ (Ok(s) => Said(requests[s]) \in done)
  BY WriteAnswered DEF VersionArrives
<1>2. page.deleteBusy \in BOOLEAN /\ page.renameBusy \in BOOLEAN /\ page.uploading \in BOOLEAN
  BY <1>1 DEF Pages
<1>3. CASE Ok(s)
  <2> DEFINE open == page.dialog # None /\ page.dialog.kind = "history"
  <2>1. /\ page' = [page EXCEPT !.message = Said(requests[s]), !.loading = TRUE,
                                !.dialog = IF open THEN None ELSE @]
        /\ requests' = Detached(Reload(s, None))
    BY <1>3 DEF VersionArrives
  <2> HIDE DEF open
  <2>2. /\ page' \in Pages
        /\ page'.deleteBusy = page.deleteBusy /\ page'.renameBusy = page.renameBusy
        /\ page'.uploading = page.uploading /\ page'.restoreBusy = page.restoreBusy
        /\ page'.refreshing = page.refreshing /\ page'.message = Said(requests[s])
    BY <1>1, <2>1 DEF Pages
  <2>3. page'.message \in {None, Failure} \union done
    BY <1>1, <1>3, <2>2
  <2> QED
    BY <1>1, <1>2, <2>1, <2>2, <2>3, ReloadStep
<1>4. CASE ~Ok(s)
  <2> DEFINE d == [page.dialog EXCEPT !.busy = FALSE, !.error = TRUE]
  <2>1. /\ page' = IF requests[s].own THEN [page EXCEPT !.dialog = d] ELSE page
        /\ requests' = Free(s)
    BY <1>1, <1>4 DEF VersionArrives, Pages
  <2>2. requests[s].own => /\ page.dialog \in Dialogs
                           /\ d \in Dialogs /\ d.kind = page.dialog.kind
    <3>1. requests[s].own => page.dialog \in Dialogs
      BY <1>1 DEF PageInv, Attached, Running
    <3> QED
      BY <3>1 DEF Dialogs
  <2> HIDE DEF d
  <2>3. /\ page' \in Pages
        /\ page'.deleteBusy = page.deleteBusy /\ page'.renameBusy = page.renameBusy
        /\ page'.uploading = page.uploading /\ page'.restoreBusy = page.restoreBusy
        /\ page'.refreshing = page.refreshing /\ page'.loading = page.loading
        /\ page'.message = page.message
        /\ page'.dialog = (IF requests[s].own THEN d ELSE page.dialog)
    BY <1>1, <2>1, <2>2 DEF Pages
  <2>4. page'.dialog # page.dialog =>
            /\ page'.dialog \in Dialogs /\ page.dialog \in Dialogs
            /\ page'.dialog.kind = page.dialog.kind
    BY <2>2, <2>3
  <2> QED
    BY <1>1, <1>2, <2>1, <2>3, <2>4, FreeStep
<1> QED
  BY <1>3, <1>4

\* What an unmounted page sent comes back to no one.
LEMMA OrphanArrivesKeeps == ASSUME PageInv, NEW s \in Slots, OrphanArrives(s) PROVE PageInv'
<1>1. /\ requests \in InFlights /\ requests[s] \in Writes /\ requests[s].orphan
      /\ requests' = Free(s) /\ UNCHANGED <<rows, page, done, acts, faults>>
  BY Kinds DEF PageInv, Types, InFlights, OrphanArrives
<1>2. /\ Free(s) \in InFlights
      /\ \A k : Running(Free(s), k) = Running(requests, k) \ {s}
      /\ \A t \in Slots \ {s} : Free(s)[t] = requests[t]
      /\ Free(s)[s] = None
  BY <1>1, SlotFreed
<1>3. \A k : Running(Free(s), k) = Running(requests, k)
  BY <1>1, <1>2 DEF Running
<1>4. /\ \A t \in Slots : Free(s)[t] \in Writes => t # s /\ Free(s)[t] = requests[t]
      /\ \A t \in Slots : requests[t] \in Loads => Free(s)[t] = requests[t]
  BY <1>1, <1>2, Kinds
<1>5. Types'
  BY <1>1, <1>2, <1>4 DEF PageInv, Types
<1>6. Attached(requests', page') /\ ServedDone(requests', done')
  BY <1>1, <1>4 DEF PageInv, Attached, ServedDone
<1>7. Honest(requests', page')
  <2>1. page.restoreBusy # None =>
          \/ \E t \in Running(Free(s), "restore") : Free(s)[t].entry.id = page.restoreBusy
          \/ \E t \in Slots : Free(s)[t] \in Loads /\ Free(s)[t].after = "restore"
    BY <1>1, <1>2, <1>3, <1>4 DEF PageInv, Honest, Running
  <2> QED
    BY <1>1, <1>3, <1>4, <2>1 DEF PageInv, Honest
<1> QED
  BY <1>1, <1>5, <1>6, <1>7 DEF PageInv

-----------------------------------------------------------------------------
(* Theorems *)

\* Every step keeps the invariant.
LEMMA PageNext == PageInv /\ [Next]_vars => PageInv'
<1> SUFFICES ASSUME PageInv, [Next]_vars PROVE PageInv'
  OBVIOUS
<1>1. CASE Acts
  BY <1>1, ToggleViewKeeps, RefreshKeeps, CloseDialogKeeps, ConfirmDeleteKeeps, RestoreVersionKeeps,
     RemountKeeps, TypeKeeps, UploadKeeps, SubmitRenameKeeps, RestoreFromTrashKeeps, OpenDialogKeeps
     DEF Acts
<1>2. CASE Debounce \/ SafetyRefresh
  BY <1>2, DebounceKeeps, SafetyRefreshKeeps
<1>3. CASE \E f \in Files : Replicate(f) \/ LoseReplica(f)
  BY <1>3, ReplicasKeep
<1>4. CASE \E s \in Slots : ServeList(s) \/ ServeWrite(s) \/ FailRequest(s)
  BY <1>4, ServeListKeeps, ServeWriteKeeps, FailRequestKeeps
<1>5. CASE \E s \in Slots : Arrives(s)
  BY <1>5, ListArrivesKeeps, DialogArrivesKeeps, RestoreArrivesKeeps, UploadArrivesKeeps,
     VersionArrivesKeeps, OrphanArrivesKeeps DEF Arrives, DeleteArrives, RenameArrives
<1>6. CASE UNCHANGED vars
  <2>1. UNCHANGED <<rows, page, requests, done, acts, faults>>
    BY <1>6 DEF vars
  <2> QED
    BY <2>1 DEF PageInv, Types, ServedDone
<1> QED
  BY <1>1, <1>2, <1>3, <1>4, <1>5, <1>6 DEF Next

\* The inductive invariant holds in every reachable state.
THEOREM PageSafe == Spec => []PageInv
<1>1. Init => PageInv
  BY PageInit
<1>2. PageInv /\ [Next]_vars => PageInv'
  BY PageNext
<1> QED
  BY <1>1, <1>2, PTL DEF Spec

\* Rows, page and requests keep their types.
THEOREM FilesPageTyped == Spec => []TypeOK
<1>1. PageInv => TypeOK
  BY DEF PageInv, Types, TypeOK, Pages, Rows, InFlights
<1> QED
  BY <1>1, PageSafe, PTL

\* A success message names something that the agent has done.
THEOREM SuccessMessages == Spec => []SuccessIsTrue
<1>1. PageInv => SuccessIsTrue
  BY DEF PageInv, SuccessIsTrue
<1> QED
  BY <1>1, PageSafe, PTL

\* What the model counts is what the invariant speaks of.
LEMMA CountedSpinner ==
    ASSUME Types, NEW kind \in {"delete", "rename", "upload"}, NEW busy \in BOOLEAN,
           One(Running(requests, kind), busy)
    PROVE  Cardinality(Mounted(kind)) = IF busy THEN 1 ELSE 0
<1>1. Mounted(kind) = Running(requests, kind)
  BY Kinds DEF Mounted, InFlight, Running, Types, InFlights
<1>2. CASE busy
  <2>1. PICK s : Running(requests, kind) = {s}
    BY <1>2 DEF One
  <2> QED
    BY <1>1, <1>2, <2>1, FS_Singleton
<1>3. CASE ~busy
  <2>1. Running(requests, kind) = {}
    BY <1>3 DEF One
  <2> QED
    BY <1>1, <1>3, <2>1, FS_EmptySet
<1> QED
  BY <1>2, <1>3

\* At most one delete, rename and upload of the mounted page runs, exactly while its control is
\* disabled; the other spinners stand for a request that is still to come back.
THEOREM SpinnersAreHonest == Spec => []SpinnersHonest
<1>1. PageInv => SpinnersHonest
  <2> SUFFICES ASSUME PageInv PROVE SpinnersHonest
    OBVIOUS
  <2>1. /\ page.deleteBusy \in BOOLEAN /\ page.renameBusy \in BOOLEAN /\ page.uploading \in BOOLEAN
        /\ Types /\ Honest(requests, page)
    BY DEF PageInv, Types, Pages
  <2>2. /\ Cardinality(Mounted("delete")) = IF page.deleteBusy THEN 1 ELSE 0
        /\ Cardinality(Mounted("rename")) = IF page.renameBusy THEN 1 ELSE 0
        /\ Cardinality(Mounted("upload")) = IF page.uploading THEN 1 ELSE 0
    BY <2>1, CountedSpinner DEF Honest
  <2>3. \A s \in Slots : requests[s] \in Loads => s \in InFlight("list")
    BY Kinds DEF InFlight
  <2>4. \A s \in Running(requests, "restore") : s \in Mounted("restore")
    BY Kinds DEF InFlight, Mounted, Running
  <2> QED
    BY <2>1, <2>2, <2>3, <2>4 DEF Honest, SpinnersHonest
<1> QED
  BY <1>1, PageSafe, PTL
=============================================================================
