------------------------------ MODULE FilesPage ------------------------------
(***************************************************************************)
(* The files page of the web interface (FilesPage.jsx) against the file    *)
(* handlers of its agent.  A request is three steps: the page sends it,    *)
(* the agent serves it, the page gets the answer.  Requests overtake each  *)
(* other and may fail before or after they were served.  A request carries *)
(* what the JavaScript closure that sent it holds: the view and the term   *)
(* its reload will use, and the entry it is about.                         *)
(*                                                                         *)
(* The page shows one directory (its setPath is never called).  A dialog   *)
(* covers the page, so at most one is open; the late answer of a request   *)
(* whose dialog was closed still runs.  Contents, the preview (which only  *)
(* reads them), the list of a file's versions and wording are left out.    *)
(***************************************************************************)
EXTENDS Naturals, FiniteSets

CONSTANTS Files,        \* files there are, or will be after an upload
          Paths,        \* paths a user may choose
          Home,         \* where each of them is at first
          CopyPath,     \* path of the conflict copy of an upload
          Found,        \* files that the search term finds
          MaxRequests,  \* requests in flight at once
          MaxActs,      \* what the user does
          MaxFaults,    \* failed requests and replicas lost
          None          \* no request, dialog, message or file

Places == Paths \union {CopyPath}
Entries == [id: Files, path: Places, safe: BOOLEAN]

\* What a request holds while it is in flight; orphan: the page that sent it is gone; own: the dialog
\* that sent it is open.
Loads ==
    [kind: {"list"}, phase: {"sent", "ok", "failed"}, view: {"files", "trash"}, term: {"", "term"},
     silent: BOOLEAN, after: {None, "refresh", "restore"}, answer: SUBSET Entries]
Writes ==
    [kind: {"delete", "rename", "restore", "upload", "version"},
     phase: {"sent", "ok", "refused", "failed"}, view: {"files", "trash"}, term: {"", "term"},
     entry: Entries \union {None}, to: Paths \union {None}, orphan: BOOLEAN, own: BOOLEAN]
\* An open dialog, and the file it is about.
Dialogs == [kind: {"delete", "rename", "history"}, entry: Entries, busy: BOOLEAN, error: BOOLEAN]

ASSUME FilesPageAssumption ==
    /\ Home \in [Files -> Paths] /\ \A f, g \in Files : Home[f] = Home[g] => f = g
    /\ CopyPath \notin Paths /\ Found \subseteq Files
    /\ None \notin Loads \union Writes \union Dialogs
    /\ MaxRequests \in Nat \ {0} /\ MaxActs \in Nat /\ MaxFaults \in Nat

VARIABLES rows,      \* what the agent holds of every file
          page,      \* the state hooks of the mounted page
          requests,  \* requests in flight, by slot
          done,      \* history: what the agent did for the page
          acts,      \* user actions so far
          faults     \* faults so far

vars == <<rows, page, requests, done, acts, faults>>

Slots == 1 .. MaxRequests
Failure == <<"failed", None>>

-----------------------------------------------------------------------------
\* The agent.

Live(f) == rows[f].state = "live"
Taken(p) == \E f \in Files : rows[f].state # "absent" /\ rows[f].path = p
Entry(f, safe) == [id |-> f, path |-> rows[f].path, safe |-> safe]

\* GET /files, GET /files?q= and GET /trash.  A trash entry carries no replica status, which the
\* page reads as "not healthy".
Listing(view, term) ==
    IF view = "trash"
    THEN {Entry(f, FALSE) : f \in {g \in Files : rows[g].state = "deleted"}}
    ELSE {Entry(f, rows[f].safe) : f \in {g \in Files : Live(g) /\ (term # "" => g \in Found)}}

\* The rows after each request that writes; none if the agent refuses it.
Deleted(r) == {[rows EXCEPT ![f].state = "deleted"] :
                  f \in {g \in Files : Live(g) /\ rows[g].path = r.entry.path}}

Renamed(r) == {[rows EXCEPT ![f].path = r.to] :
                  f \in {g \in Files : Live(g) /\ rows[g].path = r.entry.path /\ ~Taken(r.to)}}

Restored(r) == {[rows EXCEPT ![f].state = "live"] :
                   f \in {g \in {r.entry.id} : rows[g].state = "deleted"}}

Uploaded(r) == {[rows EXCEPT ![f] = [state |-> "live", safe |-> FALSE,
                                     path |-> IF Taken(r.to) THEN CopyPath ELSE r.to]] :
                   f \in {g \in Files : rows[g].state = "absent"}}

VersionRestored(r) == {rows : f \in {g \in {r.entry.id} : Live(g)}}

Outcomes(r) == CASE r.kind = "delete"  -> Deleted(r)
                 [] r.kind = "rename"  -> Renamed(r)
                 [] r.kind = "restore" -> Restored(r)
                 [] r.kind = "upload"  -> Uploaded(r)
                 [] r.kind = "version" -> VersionRestored(r)

\* What a success message about r says.
Said(r) == <<r.kind, IF r.kind \in {"delete", "rename"} THEN r.entry.path
                     ELSE IF r.kind = "upload" THEN r.to ELSE r.entry.id>>

ServeList(s) ==
    /\ requests[s] # None /\ requests[s].kind = "list" /\ requests[s].phase = "sent"
    /\ requests' = [requests EXCEPT ![s].phase = "ok",
                                    ![s].answer = Listing(requests[s].view, requests[s].term)]
    /\ UNCHANGED <<rows, page, done, acts, faults>>

ServeWrite(s) ==
    LET r == requests[s] IN
    /\ r # None /\ r.kind # "list" /\ r.phase = "sent"
    /\ IF Outcomes(r) = {}
       THEN /\ requests' = [requests EXCEPT ![s].phase = "refused"]
            /\ UNCHANGED <<rows, done>>
       ELSE /\ rows' \in Outcomes(r)
            /\ requests' = [requests EXCEPT ![s].phase = "ok"]
            /\ done' = done \union {Said(r)}
    /\ UNCHANGED <<page, acts, faults>>

\* The repair loop makes a file's second copy; a device may leave with it.
Replicate(f) ==
    /\ Live(f) /\ ~rows[f].safe
    /\ rows' = [rows EXCEPT ![f].safe = TRUE]
    /\ UNCHANGED <<page, requests, done, acts, faults>>

LoseReplica(f) ==
    /\ faults < MaxFaults /\ Live(f) /\ rows[f].safe
    /\ rows' = [rows EXCEPT ![f].safe = FALSE]
    /\ faults' = faults + 1
    /\ UNCHANGED <<page, requests, done, acts>>

\* The network fails; the request may have been served all the same.
FailRequest(s) ==
    /\ faults < MaxFaults
    /\ requests[s] # None /\ requests[s].phase # "failed"
    /\ requests' = [requests EXCEPT ![s].phase = "failed"]
    /\ faults' = faults + 1
    /\ UNCHANGED <<rows, page, done, acts>>

-----------------------------------------------------------------------------
\* Sending.

\* The first free slot takes request r.
HasRoom(q) == \E s \in Slots : q[s] = None
Put(q, r) == LET s == CHOOSE t \in Slots : q[t] = None /\ \A u \in 1 .. t - 1 : q[u] # None
             IN  [q EXCEPT ![s] = r]

\* loadFiles, as the closure of a render with this view and term makes it.
Load(view, term, silent, after) ==
    [kind |-> "list", phase |-> "sent", view |-> view, term |-> term, silent |-> silent,
     after |-> after, answer |-> {}]

\* A request of a handler; it reloads with what its closure holds.
Write(kind, entry, to) ==
    [kind |-> kind, phase |-> "sent", view |-> page.view, term |-> page.debounced,
     entry |-> entry, to |-> to, orphan |-> FALSE, own |-> TRUE]

\* Once its dialog is closed, a restore of a version finds no dialog to report an error to.
Detached(q) == [s \in Slots |-> IF q[s] # None /\ q[s].kind = "version"
                                THEN [q[s] EXCEPT !.own = FALSE] ELSE q[s]]

\* Mutant: restoreBusy starts as a boolean, like the other flags.
FreshFlags ==
    [view |-> "files", search |-> "", debounced |-> "", files |-> {}, loading |-> TRUE,
     refreshing |-> FALSE, uploading |-> FALSE, dialog |-> None, deleteBusy |-> FALSE,
     renameBusy |-> FALSE, restoreBusy |-> FALSE, message |-> None]
\* What a freshly mounted page shows; its effect sends the first load.
FreshPage == [view |-> "files", search |-> "", debounced |-> "", files |-> {}, loading |-> TRUE,
              refreshing |-> FALSE, uploading |-> FALSE, dialog |-> None, deleteBusy |-> FALSE,
              renameBusy |-> FALSE, restoreBusy |-> None, message |-> None]

\* Mutant: the page looks for a list without one finished file.
NothingSafe == page.view = "files" /\ page.files # {} /\ \A e \in page.files : ~e.safe
\* Some file of the list still waits for its copies.
NeedsSafetyRefresh == page.view = "files" /\ \E e \in page.files : ~e.safe

Init ==
    /\ \E st \in [Files -> {"absent", "live", "deleted"}] :
          /\ \A f \in Found : st[f] = "live"
          /\ rows = [f \in Files |-> [state |-> st[f], path |-> Home[f], safe |-> TRUE]]
    /\ page = FreshPage
    /\ requests = Put([s \in Slots |-> None], Load("files", "", FALSE, None))
    /\ done = {} /\ acts = 0 /\ faults = 0

UserActs ==
    /\ acts < MaxActs /\ acts' = acts + 1
    /\ UNCHANGED <<rows, done, faults>>

\* The page itself is in reach of the user.
Uncovered == page.dialog = None
Listed == IF page.loading THEN {} ELSE page.files

\* The button that changes between files and trash.  The effect of the new loadFiles runs at once,
\* with the term of the debounce timer.
ToggleView ==
    /\ UserActs /\ Uncovered /\ HasRoom(requests)
    /\ LET v == IF page.view = "trash" THEN "files" ELSE "trash" IN
       /\ page' = [page EXCEPT !.view = v, !.search = "", !.message = None, !.loading = TRUE]
       /\ requests' = Put(requests, Load(v, page.debounced, FALSE, None))

Type(term) ==
    /\ UserActs /\ Uncovered /\ page.view = "files" /\ page.search # term
    /\ page' = [page EXCEPT !.search = term]
    /\ UNCHANGED requests

\* 300 ms after the last key.
Debounce ==
    /\ page.search # page.debounced /\ HasRoom(requests)
    /\ page' = [page EXCEPT !.debounced = page.search, !.loading = TRUE]
    /\ requests' = Put(requests, Load(page.view, page.search, FALSE, None))
    /\ UNCHANGED <<rows, done, acts, faults>>

\* The 3 s interval.
SafetyRefresh ==
    /\ NeedsSafetyRefresh /\ HasRoom(requests)
    /\ requests' = Put(requests, Load(page.view, page.debounced, TRUE, None))
    /\ UNCHANGED <<rows, page, done, acts, faults>>

Refresh ==
    /\ UserActs /\ Uncovered /\ page.view = "files" /\ ~page.refreshing /\ HasRoom(requests)
    /\ page' = [page EXCEPT !.refreshing = TRUE, !.loading = TRUE]
    /\ requests' = Put(requests, Load(page.view, page.debounced, FALSE, "refresh"))

Upload(p) ==
    /\ UserActs /\ Uncovered /\ page.view = "files" /\ ~page.uploading /\ HasRoom(requests)
    /\ page' = [page EXCEPT !.uploading = TRUE, !.message = None]
    /\ requests' = Put(requests, Write("upload", None, p))

\* The restore button of a trash card; it is disabled only while restoreBusy names its file.
RestoreFromTrash(e) ==
    /\ UserActs /\ Uncovered /\ page.view = "trash" /\ e \in Listed /\ HasRoom(requests)
    /\ page.restoreBusy # e.id
    /\ page' = [page EXCEPT !.restoreBusy = e.id, !.message = None]
    /\ requests' = Put(requests, Write("restore", e, None))

\* The menu of a file card; a conflict copy has no history.
OpenDialog(kind, e) ==
    /\ UserActs /\ Uncovered /\ page.view = "files" /\ e \in Listed
    /\ kind = "history" => e.path # CopyPath
    /\ page' = [page EXCEPT !.dialog = [kind |-> kind, entry |-> e, busy |-> FALSE,
                                        error |-> FALSE]]
    /\ UNCHANGED requests

\* Mutant: closing a dialog gives its button back.
CloseAndReset ==
    /\ UserActs /\ page.dialog # None
    /\ page' = [page EXCEPT !.dialog = None, !.deleteBusy = FALSE]
    /\ requests' = Detached(requests)
\* Every dialog can be closed while its request runs.
CloseDialog ==
    /\ UserActs /\ page.dialog # None
    /\ page' = [page EXCEPT !.dialog = None]
    /\ requests' = Detached(requests)

ConfirmDelete ==
    /\ UserActs /\ ~Uncovered /\ page.dialog.kind = "delete" /\ ~page.deleteBusy
    /\ HasRoom(requests)
    /\ page' = [page EXCEPT !.deleteBusy = TRUE, !.dialog.error = FALSE]
    /\ requests' = Put(requests, Write("delete", page.dialog.entry, None))

SubmitRename(p) ==
    /\ UserActs /\ ~Uncovered /\ page.dialog.kind = "rename" /\ ~page.renameBusy
    /\ p # page.dialog.entry.path /\ HasRoom(requests)
    /\ page' = [page EXCEPT !.renameBusy = TRUE, !.dialog.error = FALSE]
    /\ requests' = Put(requests, Write("rename", page.dialog.entry, p))

RestoreVersion ==
    /\ UserActs /\ ~Uncovered /\ page.dialog.kind = "history" /\ ~page.dialog.busy
    /\ HasRoom(requests)
    /\ page' = [page EXCEPT !.dialog.busy = TRUE, !.dialog.error = FALSE]
    /\ requests' = Put(requests, Write("version", page.dialog.entry, None))

\* The user leaves for another tab and comes back: the page is mounted anew, what the old one sent
\* is served, and its answers reach no one.
Remount ==
    /\ UserActs /\ Uncovered
    /\ page' = FreshPage
    /\ LET orphans == [s \in Slots |-> IF requests[s] = None \/ requests[s].kind = "list" THEN None
                                       ELSE [requests[s] EXCEPT !.orphan = TRUE]] IN
       /\ HasRoom(orphans)
       /\ requests' = Put(orphans, Load("files", "", FALSE, None))

-----------------------------------------------------------------------------
\* Answers.

\* An answer of kind k is there for the mounted page.
Answered(s, k) ==
    /\ requests[s] # None /\ requests[s].kind = k /\ requests[s].phase # "sent"
    /\ k # "list" => ~requests[s].orphan
    /\ UNCHANGED <<rows, done, acts, faults>>

Free(s) == [requests EXCEPT ![s] = None]
\* Mutant: an answer is not asked whether it is a refusal.
Back(s) == requests[s].phase # "failed"
Ok(s) == requests[s].phase = "ok"
\* The loadFiles of the closure that sent the request.
Reload(s, after) == Put(Free(s), Load(requests[s].view, requests[s].term, FALSE, after))

\* The flags that the answer to list request r takes back, failed or not.
\* Mutant: only a list that was shown ends "loading".
LoadedIfOk(r) == [page EXCEPT !.loading = @ /\ (r.silent \/ r.phase # "ok")]
Loaded(r) == [page EXCEPT !.loading = @ /\ r.silent,
                          !.refreshing = @ /\ r.after # "refresh",
                          !.restoreBusy = IF r.after = "restore" THEN None ELSE @]

\* Whatever list arrives last is shown.
ListArrives(s) ==
    /\ Answered(s, "list")
    /\ page' = [Loaded(requests[s]) EXCEPT !.files = IF Ok(s) THEN requests[s].answer ELSE @,
                                           !.message = IF Ok(s) THEN @ ELSE Failure]
    /\ requests' = Free(s)

\* The end of a delete or a rename closes, or puts its error into, the dialog of that kind that is
\* open then.
DialogArrives(s, kind) ==
    /\ Answered(s, kind)
    /\ LET mine == page.dialog # None /\ page.dialog.kind = kind
           idle == [page EXCEPT !.deleteBusy = @ /\ kind # "delete",
                                !.renameBusy = @ /\ kind # "rename"] IN
       IF Ok(s)
       THEN /\ page' = [idle EXCEPT !.message = Said(requests[s]), !.loading = TRUE,
                                    !.dialog = IF mine THEN None ELSE @]
            /\ requests' = Reload(s, None)
       ELSE /\ page' = IF mine THEN [idle EXCEPT !.dialog.error = TRUE] ELSE idle
            /\ requests' = Free(s)

DeleteArrives(s) == DialogArrives(s, "delete")
RenameArrives(s) == DialogArrives(s, "rename")

\* After a restore the button stays busy until the list was loaded again.
RestoreArrives(s) ==
    /\ Answered(s, "restore")
    /\ IF Ok(s)
       THEN /\ page' = [page EXCEPT !.message = Said(requests[s]), !.loading = TRUE]
            /\ requests' = Reload(s, "restore")
       ELSE /\ page' = [page EXCEPT !.message = Failure, !.restoreBusy = None]
            /\ requests' = Free(s)

\* A refused upload loads the list again, one that the network lost does not.
UploadArrives(s) ==
    /\ Answered(s, "upload")
    /\ page' = [page EXCEPT !.uploading = FALSE,
                            !.message = IF Ok(s) THEN Said(requests[s]) ELSE Failure,
                            !.loading = @ \/ requests[s].phase # "failed"]
    /\ requests' = IF requests[s].phase = "failed" THEN Free(s) ELSE Reload(s, None)

\* onRestored closes whichever version dialog is open.
VersionArrives(s) ==
    /\ Answered(s, "version")
    /\ LET open == page.dialog # None /\ page.dialog.kind = "history" IN
       IF Ok(s)
       THEN /\ page' = [page EXCEPT !.message = Said(requests[s]), !.loading = TRUE,
                                    !.dialog = IF open THEN None ELSE @]
            /\ requests' = Detached(Reload(s, None))
       ELSE /\ page' = IF requests[s].own
                       THEN [page EXCEPT !.dialog.busy = FALSE, !.dialog.error = TRUE] ELSE page
            /\ requests' = Free(s)

OrphanArrives(s) ==
    /\ requests[s] # None /\ requests[s].kind # "list" /\ requests[s].orphan
    /\ requests[s].phase # "sent"
    /\ requests' = Free(s)
    /\ UNCHANGED <<rows, page, done, acts, faults>>

-----------------------------------------------------------------------------
Acts ==
    \/ ToggleView \/ Refresh \/ CloseDialog \/ ConfirmDelete \/ RestoreVersion \/ Remount
    \/ \E term \in {"", "term"} : Type(term)
    \/ \E p \in Paths : Upload(p) \/ SubmitRename(p)
    \/ \E e \in page.files :
          RestoreFromTrash(e) \/ \E kind \in {"delete", "rename", "history"} : OpenDialog(kind, e)

Arrives(s) ==
    \/ ListArrives(s) \/ DeleteArrives(s) \/ RenameArrives(s) \/ RestoreArrives(s)
    \/ UploadArrives(s) \/ VersionArrives(s) \/ OrphanArrives(s)

Next ==
    \/ Acts
    \/ Debounce \/ SafetyRefresh
    \/ \E f \in Files : Replicate(f) \/ LoseReplica(f)
    \/ \E s \in Slots : ServeList(s) \/ ServeWrite(s) \/ FailRequest(s) \/ Arrives(s)

Spec == Init /\ [][Next]_vars

\* Timers fire, requests end, files get their copies.  Nothing is assumed of users.
FairSpec ==
    /\ Spec
    /\ WF_vars(Debounce) /\ WF_vars(SafetyRefresh)
    /\ \A f \in Files : WF_vars(Replicate(f))
    /\ \A s \in Slots : WF_vars(ServeList(s) \/ ServeWrite(s)) /\ WF_vars(Arrives(s))

-----------------------------------------------------------------------------
InFlight(kind) == {s \in Slots : requests[s] # None /\ requests[s].kind = kind}
Mounted(kind) == {s \in InFlight(kind) : ~requests[s].orphan}

\* Rows, hooks and requests have their types.
TypeOK ==
    /\ rows \in [Files -> [state: {"absent", "live", "deleted"}, path: Places, safe: BOOLEAN]]
    /\ requests \in [Slots -> Loads \union Writes \union {None}]
    /\ page.view \in {"files", "trash"} /\ page.search \in {"", "term"}
    /\ page.debounced \in {"", "term"} /\ page.files \subseteq Entries
    /\ page.dialog \in Dialogs \union {None}
    /\ page.restoreBusy \in Files \union {None}
    /\ \A b \in {page.loading, page.refreshing, page.uploading, page.deleteBusy, page.renameBusy} :
          b \in BOOLEAN
    /\ acts \in 0 .. MaxActs /\ faults \in 0 .. MaxFaults

\* The spinners tell the truth, however dialogs are closed and opened meanwhile: at most one delete,
\* one rename and one upload of the mounted page run, exactly while their control is disabled;
\* "loading", "refreshing" and a busy trash card each stand for a request still to come back.
SpinnersHonest ==
    /\ Cardinality(Mounted("delete")) = IF page.deleteBusy THEN 1 ELSE 0
    /\ Cardinality(Mounted("rename")) = IF page.renameBusy THEN 1 ELSE 0
    /\ Cardinality(Mounted("upload")) = IF page.uploading THEN 1 ELSE 0
    /\ page.loading => \E s \in InFlight("list") : ~requests[s].silent
    /\ page.refreshing => \E s \in InFlight("list") : requests[s].after = "refresh"
    /\ page.restoreBusy # None =>
          \/ \E s \in Mounted("restore") : requests[s].entry.id = page.restoreBusy
          \/ \E s \in InFlight("list") : requests[s].after = "restore"

\* A success message names something the agent has done, also when the answer comes after its
\* dialog was closed and another one opened.
SuccessIsTrue == page.message \in {None, Failure} \union done

\* Nothing hangs: every spinner ends, whatever fails.
SpinnersEnd ==
    /\ []<>~page.loading /\ []<>~page.deleteBusy /\ []<>~page.renameBusy
    /\ []<>~page.uploading /\ []<>(page.restoreBusy = None)
    /\ page.refreshing ~> ~page.refreshing

\* A file whose copies are made is not shown as unsafe for good, nor a deleted one as a file: the
\* safety refresh goes on until an answer says otherwise, and late old answers only restart it.
ReadinessCatchesUp ==
    \A f \in Files :
        []<>~(page.view = "files" /\ \E e \in page.files : e.id = f /\ ~e.safe)
=============================================================================
