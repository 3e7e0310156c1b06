----------------------------- MODULE ShareLink ------------------------------
(***************************************************************************)
(* A public link (internal/storage/share.go, file_service_sharing.go,      *)
(* share_sql_repository.go): its owner creates and revokes it, and anybody *)
(* who has it downloads, browses and uploads through it.  A request reads  *)
(* the link once, checks its life cycle and the password, and acts later,  *)
(* while the owner, the clock and other requests go on.                    *)
(*                                                                         *)
(* Abstractions.  One link on one file or folder; the folder is one place, *)
(* so that sub-paths are left out.  Public links are enabled.  Contents    *)
(* are their sizes.  What Upload does with the bytes is FileStore's.       *)
(***************************************************************************)
EXTENDS Integers, FiniteSets

CONSTANTS
  Requests,     \* requests, each made once
  None,         \* SQL NULL
  Horizon,      \* bound: latest expiry; the clock stops one later
  MostAllowed,  \* bound: largest max_downloads
  LargestBody,  \* bound: largest upload
  Buffer        \* bytes the copy loop asks for at a time

ASSUME ShareLinkAssumption ==
  /\ Horizon \in Nat /\ MostAllowed \in Nat /\ LargestBody \in Nat
  /\ Buffer \in Nat \ {0}
  /\ None \notin Int \cup {"download", "browse", "upload"}
  /\ IsFiniteSet(Requests)

VARIABLES
  link,      \* the row of shares
  resource,  \* the shared file or folder has not been erased
  now,
  req,       \* what every request does
  served     \* history: downloads whose content was handed out

vars == <<link, resource, now, req, served>>

Optional(S) == S \cup {None}

CreateShareInput ==
  [folder : BOOLEAN, canDownload : BOOLEAN, canUpload : BOOLEAN,
   locked : BOOLEAN, expires : Optional(0 .. Horizon),
   max : Optional(0 .. MostAllowed), maxSize : Optional(0 .. LargestBody)]

Share == [terms : CreateShareInput, count : Nat, revoked : BOOLEAN]

ASSUME NoShareAssumption == None \notin Share

Places == {"idle", "lookup", "count", "read", "stream", "served", "listed",
           "stored", "gone", "not_found", "refused", "password", "too_large"}

Idle == [pc |-> "idle", op |-> None, size |-> 0, got |-> 0, remaining |-> None]

(***************************************************************************)
(* The owner, and time.                                                    *)
(***************************************************************************)
Valid(in) ==
  /\ in.canDownload \/ in.canUpload
  /\ in.canUpload => in.folder
  /\ in.expires # None => in.expires > now
  /\ in.max # None => in.max >= 1
  /\ in.maxSize # None => in.maxSize >= 1

CreateShare(in) ==
  /\ link = None /\ resource /\ Valid(in)
  /\ link' = [terms |-> in, count |-> 0, revoked |-> FALSE]
  /\ UNCHANGED <<resource, now, req, served>>

RevokeShare ==
  /\ link # None /\ ~link.revoked
  /\ link' = [link EXCEPT !.revoked = TRUE]
  /\ UNCHANGED <<resource, now, req, served>>

\* The file or folder is deleted for good: ON DELETE CASCADE takes the link.
Erase ==
  /\ resource /\ resource' = FALSE /\ link' = None
  /\ UNCHANGED <<now, req, served>>

Tick == now <= Horizon /\ now' = now + 1 /\ UNCHANGED <<link, resource, req, served>>

(***************************************************************************)
(* The requests.                                                           *)
(***************************************************************************)
IsExpired == link.terms.expires # None /\ now > link.terms.expires
IsExhausted == link.terms.max # None /\ link.count >= link.terms.max

\* What the operation asks of the link.
Allowed(op) ==
  CASE op = "download" -> link.terms.canDownload
    [] op = "upload" -> link.terms.canUpload
    [] op = "browse" -> link.terms.folder

\* checkLifecycle, verifySharePassword and the permission, in this order.
Verdict(op, password) ==
  IF link = None THEN "not_found"
  ELSE IF link.revoked \/ IsExpired \/ IsExhausted THEN "gone"
  ELSE IF link.terms.locked /\ ~password THEN "password"
  ELSE IF Allowed(op) THEN "lookup" ELSE "refused"

\* Mutant of Resolve: the body is not wrapped in the reader with the limit.
ResolveUnlimited(r, op, password, size) ==
  /\ req[r].pc = "idle"
  /\ req' = [req EXCEPT ![r] =
       [pc |-> Verdict(op, password), op |-> op, size |-> size, got |-> 0,
        remaining |-> None]]
  /\ UNCHANGED <<link, resource, now, served>>

\* ResolvePublicShareForAccess.
Resolve(r, op, password, size) ==
  /\ req[r].pc = "idle"
  /\ req' = [req EXCEPT ![r] =
       [pc |-> Verdict(op, password), op |-> op, size |-> size, got |-> 0,
        remaining |-> IF link = None THEN None ELSE link.terms.maxSize]]
  /\ UNCHANGED <<link, resource, now, served>>

GoesTo(r, place) == req' = [req EXCEPT ![r].pc = place]

\* GetFileByID, GetDirectoryByID and List.
Lookup(r) ==
  /\ req[r].pc = "lookup"
  /\ GoesTo(r, IF ~resource THEN "not_found"
               ELSE CASE req[r].op = "download" -> "count"
                      [] req[r].op = "upload" -> "stream"
                      [] req[r].op = "browse" -> "listed")
  /\ UNCHANGED <<link, resource, now, served>>

\* Mutant of IncrementDownloadCount: without the limit in the WHERE.
IncrementBlindly(r) ==
  /\ req[r].pc = "count" /\ link # None
  /\ link' = [link EXCEPT !.count = @ + 1]
  /\ GoesTo(r, "read")
  /\ UNCHANGED <<resource, now, served>>

\* One UPDATE, whose WHERE checks the limit again.  No row: exhausted.
IncrementDownloadCount(r) ==
  /\ req[r].pc = "count"
  /\ IF link # None /\ (link.terms.max = None \/ link.count < link.terms.max)
     THEN link' = [link EXCEPT !.count = @ + 1] /\ GoesTo(r, "read")
     ELSE GoesTo(r, "gone") /\ UNCHANGED link
  /\ UNCHANGED <<resource, now, served>>

\* prov.Read.  What was counted is not given back.
Read(r) ==
  /\ req[r].pc = "read"
  /\ IF resource THEN GoesTo(r, "served") /\ served' = served + 1
     ELSE GoesTo(r, "not_found") /\ UNCHANGED served
  /\ UNCHANGED <<link, resource, now>>

Smaller(a, b) == IF a < b THEN a ELSE b

\* errLimitReader asks for one byte more than it may pass on.
Asked(q) ==
  IF q.remaining = None THEN Buffer ELSE Smaller(Buffer, q.remaining + 1)

\* Mutant of Exceeded: the last byte that is allowed is one too many.
ExceededAtLimit(remaining) == remaining # None /\ remaining <= 0

Exceeded(remaining) == remaining # None /\ remaining < 0

\* One Read of the copy loop.  The body hands out as much as it likes, and
\* nothing once it has ended.
Stream(r) ==
  LET q == req[r]  left == q.size - q.got
  IN /\ q.pc = "stream"
     /\ \E n \in 0 .. Smaller(Asked(q), left) :
          /\ n = 0 => left = 0
          /\ LET remaining == IF q.remaining = None THEN None
                              ELSE q.remaining - n
             IN req' = [req EXCEPT ![r].got = @ + n,
                  ![r].remaining = remaining,
                  ![r].pc = IF Exceeded(remaining) THEN "too_large"
                            ELSE IF n = 0 THEN "stored" ELSE @]
     /\ UNCHANGED <<link, resource, now, served>>

Init ==
  /\ link = None /\ resource = TRUE /\ now = 0 /\ served = 0
  /\ req = [r \in Requests |-> Idle]

Next ==
  \/ \E in \in CreateShareInput : CreateShare(in)
  \/ RevokeShare \/ Erase \/ Tick
  \/ \E r \in Requests :
       \/ \E password \in BOOLEAN :
            \/ \E op \in {"download", "browse"} : Resolve(r, op, password, 0)
            \/ \E size \in 0 .. LargestBody : Resolve(r, "upload", password, size)
       \/ Lookup(r) \/ IncrementDownloadCount(r) \/ Read(r) \/ Stream(r)

Spec == Init /\ [][Next]_vars

(***************************************************************************)
(* Properties.                                                             *)
(***************************************************************************)
TypeOK ==
  /\ link \in Optional(Share) /\ (link # None => resource)
  /\ resource \in BOOLEAN /\ now \in 0 .. Horizon + 1 /\ served \in Nat
  /\ req \in [Requests ->
       [pc : Places, op : Optional({"download", "browse", "upload"}),
        size : Nat, got : Nat, remaining : Optional(Int)]]

Reading == {r \in Requests : req[r].pc = "read"}

\* However many downloads race for the last places of a limited link, no more
\* contents are handed out, or about to be, than were counted, and no more
\* are counted than max_downloads.
LimitKept ==
  link # None =>
    /\ served + Cardinality(Reading) <= link.count
    /\ link.terms.max # None => link.count <= link.terms.max

\* UploadViaPublicShare cuts off a body at exactly the limit of the link: one
\* of the largest size allowed is stored whole, none is stored truncated, and
\* only a larger one is refused.
CutAtTheLimit ==
  link # None =>
    \A r \in Requests :
      LET fits == link.terms.maxSize = None \/ req[r].size <= link.terms.maxSize
      IN /\ req[r].pc = "stored" => fits /\ req[r].got = req[r].size
         /\ req[r].pc = "too_large" => ~fits

\* What a request with an upload still has to read, and what it may.
Counted(r) ==
  LET q == req[r]  limit == link.terms.maxSize
  IN /\ q.pc \in {"lookup", "stream"} =>
          /\ q.op # None
          /\ q.got <= q.size
          /\ q.remaining = IF limit = None THEN None ELSE limit - q.got
          /\ q.remaining # None => q.remaining >= 0

\* Before there is a link nobody gets past its lookup, so that a link starts
\* with no download on its way.
Unborn == link = None /\ resource =>
  served = 0 /\ \A r \in Requests : req[r].pc \in {"idle", "not_found"}

\* The inductive invariant behind the two properties above.
IInv == /\ TypeOK /\ Unborn /\ LimitKept /\ CutAtTheLimit
        /\ link # None => \A r \in Requests : Counted(r)

\* A link whose downloads are used up can still be browsed.
\* The code does not keep it: README, "What the code does not keep".
ExhaustedCanBeBrowsed ==
  \A r \in Requests :
    link # None /\ req[r].op = "browse" /\ req[r].pc = "gone" =>
      link.revoked \/ IsExpired
=============================================================================
