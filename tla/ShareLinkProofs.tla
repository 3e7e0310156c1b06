-------------------------- MODULE ShareLinkProofs ---------------------------
(***************************************************************************)
(* Proofs about module ShareLink: a link keeps its limits, whatever the    *)
(* number of requests, downloads and bytes.                                *)
(***************************************************************************)
EXTENDS ShareLink, TLAPS, FiniteSetTheorems

Request ==
  [pc : Places, op : Optional({"download", "browse", "upload"}),
   size : Nat, got : Nat, remaining : Optional(Int)]

(***************************************************************************)
(* The downloads on their way.                                             *)
(***************************************************************************)
LEMMA ReadingCount == Cardinality(Reading) \in Nat /\ IsFiniteSet(Reading)
<1>1. Reading \subseteq Requests
  BY DEF Reading
<1>2. IsFiniteSet(Reading)
  BY <1>1, FS_Subset, ShareLinkAssumption
<1> QED  BY <1>2, FS_CardinalityType

\* One request changes; the count of those that read follows its place.
LEMMA ReadingStep ==
  ASSUME req \in [Requests -> Request], NEW r \in Requests, NEW q \in Request,
         req' = [req EXCEPT ![r] = q]
  PROVE  /\ req[r].pc # "read" /\ q.pc = "read" =>
              Cardinality(Reading') = Cardinality(Reading) + 1
         /\ req[r].pc = "read" /\ q.pc # "read" =>
              Cardinality(Reading') = Cardinality(Reading) - 1
         /\ req[r].pc # "read" /\ q.pc # "read" => Reading' = Reading
<1>1. IsFiniteSet(Reading)
  BY ReadingCount
<1>2. ASSUME req[r].pc # "read", q.pc = "read"
      PROVE  Reading' = Reading \cup {r} /\ r \notin Reading
  BY <1>2 DEF Reading
<1>3. ASSUME req[r].pc = "read", q.pc # "read"
      PROVE  Reading' = Reading \ {r} /\ r \in Reading
  BY <1>3 DEF Reading
<1>4. ASSUME req[r].pc # "read", q.pc # "read"
      PROVE  Reading' = Reading
  BY <1>4 DEF Reading
<1> QED  BY <1>1, <1>2, <1>3, <1>4, FS_AddElement, FS_RemoveElement

(***************************************************************************)
(* The invariant.                                                          *)
(***************************************************************************)
LEMMA ShareInit == Init => IInv
<1> SUFFICES ASSUME Init PROVE IInv
  OBVIOUS
<1>1. TypeOK
  BY ShareLinkAssumption DEF Init, TypeOK, Idle, Optional, Places
<1>2. Unborn
  BY DEF Init, Unborn, Idle
<1>3. link = None
  BY DEF Init
<1> QED  BY <1>1, <1>2, <1>3 DEF IInv, LimitKept, CutAtTheLimit

LEMMA OwnerStep ==
  ASSUME IInv, NEW in \in CreateShareInput,
         CreateShare(in) \/ RevokeShare \/ Erase \/ Tick
  PROVE  IInv'
<1> USE DEF IInv
<1>0. Cardinality(Reading) \in Nat
  BY ReadingCount
<1>1. CASE CreateShare(in)
  <2>1. Reading = {}
    BY <1>1 DEF CreateShare, Unborn, Reading
  <2>2. Cardinality(Reading') = 0
    BY <1>1, <2>1, FS_EmptySet DEF CreateShare, Reading
  <2>3. TypeOK'
    BY <1>1 DEF CreateShare, TypeOK, Share, Optional
  <2>4. Unborn'
    BY <1>1 DEF CreateShare, Unborn
  <2>5. LimitKept'
    BY <1>1, <2>2, ShareLinkAssumption
       DEF CreateShare, LimitKept, Unborn, Valid, CreateShareInput, Optional
  <2>6. CutAtTheLimit' /\ (\A r \in Requests : Counted(r))'
    BY <1>1 DEF CreateShare, CutAtTheLimit, Unborn, Counted
  <2> QED  BY <2>3, <2>4, <2>5, <2>6
<1>2. CASE RevokeShare
  <2>1. /\ link \in Share /\ link' = [link EXCEPT !.revoked = TRUE]
        /\ link'.terms = link.terms /\ link'.count = link.count
        /\ UNCHANGED <<req, served, resource, now>> /\ link # None
    BY <1>2 DEF RevokeShare, TypeOK, Optional, Share
  <2>2. TypeOK'
    BY <2>1 DEF TypeOK, Optional, Share
  <2>3. Unborn'
    <3>1. link' \in Share
      BY <2>1 DEF Share
    <3> QED  BY <3>1, NoShareAssumption DEF Unborn
  <2>4. LimitKept'
    BY <2>1 DEF LimitKept, Reading
  <2>5. CutAtTheLimit' /\ (\A r \in Requests : Counted(r))'
    BY <2>1 DEF CutAtTheLimit, Counted
  <2> QED  BY <2>2, <2>3, <2>4, <2>5
<1>3. CASE Erase
  BY <1>3 DEF Erase, TypeOK, Optional, Unborn, LimitKept, CutAtTheLimit
<1>4. CASE Tick
  <2>1. UNCHANGED <<link, resource, req, served>>
    BY <1>4 DEF Tick
  <2>2. TypeOK'
    BY <1>4, <2>1, ShareLinkAssumption DEF TypeOK, Tick
  <2> QED  BY <2>1, <2>2 DEF Unborn, LimitKept, CutAtTheLimit, Counted, Reading
<1> QED  BY <1>1, <1>2, <1>3, <1>4

\* A step of one request that neither hands out a content nor counts one.
LEMMA PlainStep ==
  ASSUME IInv, NEW r \in Requests, NEW q \in Request,
         req' = [req EXCEPT ![r] = q], UNCHANGED <<link, resource, now, served>>,
         q.pc # "read", req[r].pc # "read",
         link = None /\ resource => q.pc \in {"idle", "not_found"},
         link # None => Counted(r)' /\
           LET fits == \/ link.terms.maxSize = None
                       \/ q.size <= link.terms.maxSize
           IN /\ q.pc = "stored" => fits /\ q.got = q.size
              /\ q.pc = "too_large" => ~fits
  PROVE  IInv'
<1> USE DEF IInv
<1>1. req \in [Requests -> Request]
  BY DEF TypeOK, Request
<1>2. TypeOK'
  BY <1>1 DEF TypeOK, Request
<1>3. Reading' = Reading
  BY <1>1, ReadingStep
<1>4. /\ req'[r] = q /\ \A s \in Requests \ {r} : req'[s] = req[s]
  BY <1>1
<1>5. Unborn'
  BY <1>4 DEF Unborn
<1>6. LimitKept'
  BY <1>3 DEF LimitKept
<1>7. CutAtTheLimit'
  BY <1>4 DEF CutAtTheLimit
<1>8. link' # None => (\A s \in Requests : Counted(s))'
  BY <1>4 DEF Counted
<1> QED  BY <1>2, <1>5, <1>6, <1>7, <1>8

LEMMA ResolveStep ==
  ASSUME IInv, NEW r \in Requests, NEW password \in BOOLEAN,
         NEW op \in {"download", "browse", "upload"}, NEW size \in Nat,
         Resolve(r, op, password, size)
  PROVE  IInv'
<1> DEFINE q == [pc |-> Verdict(op, password), op |-> op, size |-> size,
                 got |-> 0,
                 remaining |-> IF link = None THEN None ELSE link.terms.maxSize]
<1>1. /\ Verdict(op, password) \in
           {"not_found", "gone", "password", "refused", "lookup"}
      /\ link = None => Verdict(op, password) = "not_found"
  BY DEF Verdict
<1>2. link # None => link.terms.maxSize \in Optional(Nat)
  BY ShareLinkAssumption
     DEF IInv, TypeOK, Optional, Share, CreateShareInput
<1>3. q \in Request
  BY <1>1, <1>2 DEF Request, Places, Optional
<1>4. req' = [req EXCEPT ![r] = q] /\ UNCHANGED <<link, resource, now, served>>
      /\ req[r].pc = "idle"
  BY DEF Resolve
<1>5. req'[r] = q
  BY <1>4 DEF IInv, TypeOK
<1>6. link # None => Counted(r)'
  BY <1>2, <1>4, <1>5, ShareLinkAssumption DEF Counted, Optional
<1> QED  BY <1>1, <1>3, <1>4, <1>6, PlainStep

LEMMA LookupStep ==
  ASSUME IInv, NEW r \in Requests, Lookup(r)
  PROVE  IInv'
<1> DEFINE q == [req[r] EXCEPT !.pc =
      IF ~resource THEN "not_found"
      ELSE CASE req[r].op = "download" -> "count"
             [] req[r].op = "upload" -> "stream"
             [] req[r].op = "browse" -> "listed"]
<1>1. req[r] \in Request /\ req \in [Requests -> Request]
  BY DEF IInv, TypeOK, Request
<1>2. link # None => Counted(r)
  BY DEF IInv
<1>3. req[r].pc = "lookup" /\ (resource => link # None)
  BY DEF Lookup, IInv, Unborn
<1>4. resource => req[r].op \in {"download", "browse", "upload"}
  BY <1>1, <1>2, <1>3 DEF Counted, Request, Optional
<1>5. q.pc \in {"not_found", "count", "stream", "listed"}
  BY <1>1, <1>4 DEF Request
<1>6. q \in Request
  BY <1>1, <1>5 DEF Request, Places
<1>7. req' = [req EXCEPT ![r] = q] /\ UNCHANGED <<link, resource, now, served>>
  BY DEF Lookup, GoesTo
<1>8. /\ req'[r] = q /\ q.op = req[r].op /\ q.size = req[r].size
      /\ q.got = req[r].got /\ q.remaining = req[r].remaining
  BY <1>1, <1>7 DEF Request
<1>9. link # None => Counted(r)'
  BY <1>2, <1>3, <1>7, <1>8 DEF Counted
<1> QED  BY <1>3, <1>5, <1>6, <1>7, <1>9, PlainStep

LEMMA IncrementStep ==
  ASSUME IInv, NEW r \in Requests, IncrementDownloadCount(r)
  PROVE  IInv'
<1>1. req[r] \in Request /\ req \in [Requests -> Request]
  BY DEF IInv, TypeOK, Request
<1>2. req[r].pc = "count" /\ UNCHANGED <<resource, now, served>>
  BY DEF IncrementDownloadCount
<1>3. CASE GoesTo(r, "gone") /\ UNCHANGED link
  <2> DEFINE q == [req[r] EXCEPT !.pc = "gone"]
  <2>1. q \in Request /\ q.pc = "gone"
    BY <1>1 DEF Request, Places
  <2>2. req' = [req EXCEPT ![r] = q] /\ req'[r] = q
    BY <1>1, <1>3 DEF GoesTo
  <2>3. Counted(r)'
    BY <2>1, <2>2 DEF Counted
  <2>4. ~(link = None /\ resource)
    BY <1>2 DEF IInv, Unborn
  <2> QED  BY <1>2, <1>3, <2>1, <2>2, <2>3, <2>4, PlainStep
<1>4. CASE /\ link # None
           /\ link.terms.max = None \/ link.count < link.terms.max
           /\ link' = [link EXCEPT !.count = @ + 1] /\ GoesTo(r, "read")
  <2> DEFINE q == [req[r] EXCEPT !.pc = "read"]
  <2>1. q \in Request /\ q.pc = "read"
    BY <1>1 DEF Request, Places
  <2>2. req' = [req EXCEPT ![r] = q]
    BY <1>4 DEF GoesTo
  <2>3. /\ link \in Share /\ link' \in Share /\ link'.terms = link.terms
        /\ link'.count = link.count + 1 /\ link.count \in Nat
    BY <1>4 DEF IInv, TypeOK, Optional, Share
  <2>4. Cardinality(Reading') = Cardinality(Reading) + 1
    BY <1>1, <1>2, <2>1, <2>2, ReadingStep
  <2>5. TypeOK'
    BY <1>1, <1>2, <1>4, <2>1, <2>2, <2>3
       DEF IInv, TypeOK, Optional, Request
  <2>6. Unborn'
    BY <2>3, NoShareAssumption DEF Unborn
  <2>7. LimitKept'
    <3>1. served \in Nat /\ Cardinality(Reading) \in Nat
      BY ReadingCount DEF IInv, TypeOK
    <3>2. link.terms.max \in Optional(Int)
      BY <2>3, ShareLinkAssumption DEF Share, CreateShareInput, Optional
    <3> QED  BY <1>2, <1>4, <2>3, <2>4, <3>1, <3>2
                DEF IInv, LimitKept, Optional
  <2>8. /\ req'[r] = q /\ \A s \in Requests \ {r} : req'[s] = req[s]
    BY <1>1, <2>2
  <2>9. CutAtTheLimit' /\ (\A s \in Requests : Counted(s))'
    BY <1>4, <2>1, <2>3, <2>8, ZenonT(60) DEF IInv, CutAtTheLimit, Counted
  <2> QED  BY <2>5, <2>6, <2>7, <2>9 DEF IInv
<1> QED  BY <1>3, <1>4 DEF IncrementDownloadCount

LEMMA ReadStep ==
  ASSUME IInv, NEW r \in Requests, Read(r)
  PROVE  IInv'
<1> DEFINE q == [req[r] EXCEPT !.pc = IF resource THEN "served"
                                                  ELSE "not_found"]
<1>1. req[r] \in Request /\ req \in [Requests -> Request]
  BY DEF IInv, TypeOK, Request
<1>2. /\ req[r].pc = "read" /\ UNCHANGED <<link, resource, now>>
      /\ served' = IF resource THEN served + 1 ELSE served
      /\ req' = [req EXCEPT ![r] = q]
  BY DEF Read, GoesTo
<1>3. q \in Request /\ q.pc \in {"served", "not_found"}
  BY <1>1 DEF Request, Places
<1>4. Cardinality(Reading') = Cardinality(Reading) - 1
  BY <1>1, <1>2, <1>3, ReadingStep
<1>5. served \in Nat /\ Cardinality(Reading) \in Nat
  BY ReadingCount DEF IInv, TypeOK
<1>6. /\ req'[r] = q /\ \A s \in Requests \ {r} : req'[s] = req[s]
  BY <1>1, <1>2
<1>7. TypeOK'
  BY <1>1, <1>2, <1>3, <1>5 DEF IInv, TypeOK, Request
<1>8. Unborn'
  BY <1>2 DEF IInv, Unborn
<1>9. LimitKept'
  <2>1. link # None => link.count \in Nat
    BY DEF IInv, TypeOK, Optional, Share
  <2> QED  BY <1>2, <1>4, <1>5, <2>1 DEF IInv, LimitKept
<1>10. CutAtTheLimit' /\ (link' # None => (\A s \in Requests : Counted(s))')
  BY <1>2, <1>3, <1>6 DEF IInv, CutAtTheLimit, Counted
<1> QED  BY <1>7, <1>8, <1>9, <1>10 DEF IInv

LEMMA StreamStep ==
  ASSUME IInv, NEW r \in Requests, Stream(r)
  PROVE  IInv'
<1> DEFINE left == req[r].size - req[r].got
<1>1. req[r] \in Request /\ req \in [Requests -> Request]
  BY DEF IInv, TypeOK, Request
<1>2. req[r].pc = "stream" /\ UNCHANGED <<link, resource, now, served>>
  BY DEF Stream
<1>3. PICK n \in 0 .. Smaller(Asked(req[r]), left) :
        /\ n = 0 => left = 0
        /\ LET remaining == IF req[r].remaining = None THEN None
                            ELSE req[r].remaining - n
           IN req' = [req EXCEPT ![r].got = @ + n,
                ![r].remaining = remaining,
                ![r].pc = IF Exceeded(remaining) THEN "too_large"
                          ELSE IF n = 0 THEN "stored" ELSE @]
  BY ZenonT(60) DEF Stream
<1> DEFINE remaining == IF req[r].remaining = None THEN None
                        ELSE req[r].remaining - n
           q == [req[r] EXCEPT !.got = @ + n, !.remaining = remaining,
                   !.pc = IF Exceeded(remaining) THEN "too_large"
                          ELSE IF n = 0 THEN "stored" ELSE @]
<1>4. n \in Nat /\ n <= left
  <2>1. Asked(req[r]) \in Int /\ left \in Int
    BY <1>1, ShareLinkAssumption DEF Asked, Smaller, Request, Optional
  <2> QED  BY <2>1 DEF Smaller
<1>5. remaining \in Optional(Int)
  BY <1>1, <1>4 DEF Request, Optional
<1>6. q.pc = IF Exceeded(remaining) THEN "too_large"
             ELSE IF n = 0 THEN "stored" ELSE "stream"
  BY <1>1, <1>2 DEF Request
<1>7. q \in Request /\ req' = [req EXCEPT ![r] = q]
  <2>1. q.pc \in Places /\ req[r].got + n \in Nat
    BY <1>1, <1>4, <1>6 DEF Request, Places
  <2>2. q \in Request
    BY <1>1, <1>5, <2>1 DEF Request
  <2>3. req' = [req EXCEPT ![r] = q]
    BY <1>1, <1>3
  <2> QED  BY <2>2, <2>3
<1>8. /\ q.got = req[r].got + n /\ q.size = req[r].size /\ q.op = req[r].op
      /\ q.remaining = remaining /\ req'[r] = q
      /\ req[r].got \in Nat /\ req[r].size \in Nat
  BY <1>1, <1>7 DEF Request
<1>9. ~(link = None /\ resource)
  BY <1>2 DEF IInv, Unborn
<1> HIDE DEF q
<1> DEFINE limit == link.terms.maxSize
<1>10. link # None => /\ limit \in Optional(Nat)
                      /\ req[r].op # None
                      /\ req[r].got <= req[r].size
                      /\ req[r].remaining = IF limit = None THEN None
                                            ELSE limit - req[r].got
                      /\ req[r].remaining # None => req[r].remaining >= 0
  BY <1>2, ShareLinkAssumption
     DEF IInv, Counted, TypeOK, Optional, Share, CreateShareInput
<1>11. link # None => remaining = IF limit = None THEN None
                                  ELSE limit - q.got
  <2>1. \A i \in Int : i # None
    BY ShareLinkAssumption
  <2> QED  BY <1>4, <1>8, <1>10, <2>1 DEF Optional
<1>12. ASSUME link # None
       PROVE  /\ q.pc = "stored" => (limit = None \/ q.size <= limit) /\ q.got = q.size
              /\ q.pc = "too_large" => ~(limit = None \/ q.size <= limit)
  <2>1. CASE limit = None
    BY <1>3, <1>6, <1>8, <1>10, <1>11, <1>12, <2>1 DEF Exceeded
  <2>2. CASE limit # None
    BY <1>3, <1>4, <1>6, <1>8, <1>10, <1>11, <1>12, <2>2,
       ShareLinkAssumption DEF Exceeded, Optional
  <2> QED  BY <2>1, <2>2
<1>13. link # None => Counted(r)'
  <2>1. ASSUME link # None, q.pc \in {"lookup", "stream"}, remaining # None
        PROVE  remaining >= 0
    BY <1>5, <1>6, <2>1 DEF Exceeded, Optional
  <2> QED  BY <1>2, <1>4, <1>8, <1>10, <1>11, <2>1 DEF Counted
<1>14. q.pc # "read"
  BY <1>6
<1> QED  BY <1>2, <1>7, <1>9, <1>12, <1>13, <1>14, PlainStep

LEMMA ShareNext == IInv /\ [Next]_vars => IInv'
<1> SUFFICES ASSUME IInv, [Next]_vars PROVE IInv'
  OBVIOUS
<1>1. CASE UNCHANGED vars
  BY <1>1 DEF vars, IInv, TypeOK, Unborn, LimitKept, CutAtTheLimit, Counted,
              Reading
<1>2. ASSUME NEW in \in CreateShareInput, CreateShare(in)
      PROVE  IInv'
  BY <1>2, OwnerStep
<1>3. CASE RevokeShare \/ Erase \/ Tick
  <2> DEFINE in == [folder |-> FALSE, canDownload |-> TRUE, canUpload |-> FALSE,
                    locked |-> FALSE, expires |-> None, max |-> None,
                    maxSize |-> None]
  <2>1. in \in CreateShareInput
    BY DEF CreateShareInput, Optional
  <2> QED  BY <1>3, <2>1, OwnerStep
<1>4. ASSUME NEW r \in Requests, NEW password \in BOOLEAN,
             NEW op \in {"download", "browse"}, Resolve(r, op, password, 0)
      PROVE  IInv'
  BY <1>4, ResolveStep
<1>5. ASSUME NEW r \in Requests, NEW password \in BOOLEAN,
             NEW size \in 0 .. LargestBody, Resolve(r, "upload", password, size)
      PROVE  IInv'
  BY <1>5, ResolveStep, ShareLinkAssumption
<1>6. ASSUME NEW r \in Requests, Lookup(r) \/ IncrementDownloadCount(r)
                                 \/ Read(r) \/ Stream(r)
      PROVE  IInv'
  BY <1>6, LookupStep, IncrementStep, ReadStep, StreamStep
<1> QED  BY <1>1, <1>2, <1>3, <1>4, <1>5, <1>6 DEF Next

(***************************************************************************)
(* The theorems.                                                           *)
(***************************************************************************)
\* The invariant is inductive, for every number of requests and every limit.
THEOREM ShareInvariant == Spec => []IInv
  BY ShareInit, ShareNext, PTL DEF Spec

\* A link with max_downloads never serves more than that: a download is
\* counted before it is served, in the UPDATE that checks the limit again.
THEOREM DownloadsLimited == Spec => []LimitKept
<1>1. IInv => LimitKept
  BY DEF IInv
<1> QED  BY <1>1, ShareInvariant, PTL

\* An upload is stored whole when it fits the limit of the link, and refused
\* otherwise, however its body is cut into reads.
THEOREM UploadsCutAtTheLimit == Spec => []CutAtTheLimit
<1>1. IInv => CutAtTheLimit
  BY DEF IInv
<1> QED  BY <1>1, ShareInvariant, PTL
=============================================================================
