----------------------------- MODULE Drivers_proofs -----------------------------
(***************************************************************************)
(* Proofs about the drivers.  About ShareLinks: its types, that Link       *)
(* cleans up after itself (StraysPaid) and that a file whose copy is       *)
(* remembered can still be linked (QuietLinksWork).  About                 *)
(* DriverLifecycle: its types and that there is never more than one pass   *)
(* for one driver object.  About Downloader, which reads the links of the  *)
(* drivers: it fails only for a cause outside, a send never blocks the     *)
(* lock it is made under, and the reader gets the bytes of the range in    *)
(* their order.                                                            *)
(***************************************************************************)
EXTENDS ShareLinks, DriverLifecycle, Downloader, FiniteSetTheorems, TLAPS
-----------------------------------------------------------------------------
(* What CopyFiles may hold. *)
LEMMA MapsForm ==
    ASSUME NEW m
    PROVE  m \in Maps <=> DOMAIN m \subseteq Files /\ m \in [DOMAIN m -> Copies]
<1>1. ASSUME m \in Maps PROVE DOMAIN m \subseteq Files /\ m \in [DOMAIN m -> Copies]
  <2>1. PICK D \in SUBSET Files : m \in [D -> Copies]
    BY <1>1, Zenon DEF Maps
  <2> QED
    BY <2>1
<1>2. ASSUME DOMAIN m \subseteq Files, m \in [DOMAIN m -> Copies] PROVE m \in Maps
  BY <1>2, Zenon DEF Maps
<1> QED
  BY <1>1, <1>2

(* The maps as the provers see them. *)
MapsOK(m) ==
    /\ DOMAIN m.CopyFiles \subseteq Files /\ m.CopyFiles \in [DOMAIN m.CopyFiles -> Copies]
    /\ m.DownloadUrl_dict \subseteq Copies
    /\ m.FileID_Link \subseteq Files \cup Rest
    /\ m = [CopyFiles |-> m.CopyFiles, DownloadUrl_dict |-> m.DownloadUrl_dict,
            FileID_Link |-> m.FileID_Link]

MemoType == [CopyFiles : Maps, DownloadUrl_dict : SUBSET Copies,
             FileID_Link : SUBSET (Files \cup Rest)]

(* The record of the maps, field by field. *)
LEMMA MemoForm ==
    ASSUME NEW m
    PROVE  m \in MemoType <=> MapsOK(m)
<1>1. m \in MemoType <=> /\ m.CopyFiles \in Maps
                         /\ m.DownloadUrl_dict \subseteq Copies
                         /\ m.FileID_Link \subseteq Files \cup Rest
                         /\ m = [CopyFiles |-> m.CopyFiles, DownloadUrl_dict |-> m.DownloadUrl_dict,
                                 FileID_Link |-> m.FileID_Link]
  <2> HIDE DEF Maps
  <2> QED
    BY DEF MemoType
<1> QED
  BY <1>1, MapsForm, Zenon DEF MapsOK

Types ==
    /\ drive \subseteq Copies
    /\ MapsOK(memo)
    /\ call \in [Calls -> {Idle} \cup CallRecords]
    /\ faults \in 0..MaxFaults
    /\ others \in 0..MaxOthers
    /\ paid \in Nat
    /\ gaveUp \subseteq Files

(* Types is TypeOK, with the maps as the provers see them. *)
LEMMA TypeFold == (TypeOK <=> Types) /\ (TypeOK' <=> Types')
<1>1. TypeOK <=> Types
  BY MemoForm, Zenon DEF TypeOK, Types, MemoType
<1>2. TypeOK' <=> Types'
  BY MemoForm, Zenon DEF TypeOK, Types, MemoType
<1> QED
  BY <1>1, <1>2

(* The record of one call changes. *)
LEMMA OneCall ==
    ASSUME Types, NEW p \in Calls, NEW c \in {Idle} \cup CallRecords, Becomes(p, c)
    PROVE  /\ call' \in [Calls -> {Idle} \cup CallRecords]
           /\ call'[p] = c /\ \A q \in Calls \ {p} : call'[q] = call[q]
BY DEF Types, Becomes

(* A call that is under way has a record, and these are its fields. *)
LEMMA BusyCall ==
    ASSUME Types, NEW p \in Calls, call[p].pc # "idle"
    PROVE  call[p] \in CallRecords /\ Busy(p)
BY DEF Types, Idle, Busy

(* A caller that waits for nothing. *)
LEMMA IdleIsIdle == Idle.pc = "idle" /\ Idle \in {Idle} \cup CallRecords
BY DEF Idle

Taking(c, x, y) == [c EXCEPT !.pc = x, !.copy = y]
Again(c, x) == [c EXCEPT !.pc = x, !.copy = 0, !.again = TRUE]
Succeeding(c, x) == [c EXCEPT !.pc = x, !.ok = TRUE]

(* The fields of a record that is changed in one of the ways of the code. *)
LEMMA CallMoves ==
    ASSUME NEW c \in CallRecords, NEW x \in Phases, NEW z, z = [c EXCEPT !.pc = x]
    PROVE  /\ z \in CallRecords /\ z.pc = x /\ z.copy = c.copy /\ z.file = c.file
           /\ (z.other <=> c.other) /\ (z.ok <=> c.ok)
BY DEF CallRecords

(* A call takes a copy (MakeCopy; Begin with a copy that is remembered). *)
LEMMA CallTakes ==
    ASSUME NEW c \in CallRecords, NEW x \in Phases, NEW y \in Copies \cup {0},
           NEW z, z = Taking(c, x, y)
    PROVE  /\ z \in CallRecords /\ z.pc = x /\ z.copy = y /\ z.file = c.file
           /\ (z.other <=> c.other) /\ (z.ok <=> c.ok)
BY DEF CallRecords, Taking

(* A call makes its request once more (NoId). *)
LEMMA CallAgain ==
    ASSUME NEW c \in CallRecords, NEW x \in Phases,
           NEW z, z = Again(c, x)
    PROVE  /\ z \in CallRecords /\ z.pc = x /\ z.copy = 0 /\ z.file = c.file
           /\ (z.other <=> c.other) /\ (z.ok <=> c.ok)
BY DEF CallRecords, Again

(* A call has its URL (Lookup, GetUrl). *)
LEMMA CallSucceeds ==
    ASSUME NEW c \in CallRecords, NEW x \in Phases, NEW z, z = Succeeding(c, x)
    PROVE  /\ z \in CallRecords /\ z.pc = x /\ z.copy = c.copy /\ z.file = c.file
           /\ (z.other <=> c.other) /\ z.ok
BY DEF CallRecords, Succeeding

(* A call counts a request that failed (UrlFails). *)
LEMMA CallCounts ==
    ASSUME NEW c \in CallRecords, c.count < Tries, NEW z, z = [c EXCEPT !.count = c.count + 1]
    PROVE  /\ z \in CallRecords /\ z.pc = c.pc /\ z.copy = c.copy /\ z.file = c.file
           /\ (z.other <=> c.other) /\ (z.ok <=> c.ok)
BY ShareAssumption DEF CallRecords

(* The fields of the record of a call. *)
LEMMA CallFields ==
    ASSUME NEW c \in CallRecords
    PROVE  /\ c.pc \in Phases /\ c.pc # "idle" /\ c.file \in Files /\ c.copy \in Copies \cup {0}
           /\ c.count \in 1..Tries /\ c.other \in BOOLEAN /\ c.ok \in BOOLEAN /\ c.again \in BOOLEAN
BY DEF CallRecords, Phases

(* The maps as ensureInit makes them are well formed and hold no copy. *)
LEMMA ForgottenOK ==
    MapsOK(Forgotten) /\ DOMAIN Forgotten.CopyFiles = {}
BY DEF MapsOK, Forgotten

(* What Begin makes of an idle call. *)
Fresh(f, other) == [pc |-> "copy", file |-> f, other |-> other, copy |-> 0,
                    again |-> FALSE, count |-> 1, ok |-> FALSE]

(* Its fields. *)
LEMMA FreshFacts ==
    ASSUME NEW f \in Files, NEW other \in BOOLEAN, NEW c, c = Fresh(f, other)
    PROVE  /\ c \in CallRecords /\ c.pc = "copy" /\ c.copy = 0 /\ c.file = f
           /\ (c.other <=> other) /\ ~c.ok
BY ShareAssumption DEF Fresh, CallRecords, Phases

(* The record of p after a Begin that does not end at once. *)
LEMMA BeginFacts ==
    ASSUME Types, NEW p \in Calls, NEW f \in Files, NEW other \in BOOLEAN, Begin(p, f, other)
    PROVE  \/ UNCHANGED call
           \/ \E c \in CallRecords :
                /\ Becomes(p, c) /\ c.file = f /\ (c.other <=> other) /\ ~c.ok
                /\ \/ c.pc = "copy" /\ c.copy = 0
                   \/ /\ c.pc = IF other THEN "preview" ELSE "lookup"
                      /\ f \in DOMAIN memo.CopyFiles /\ c.copy = memo.CopyFiles[f]
<1>1. PICK c : c = Fresh(f, other)
  BY Zenon
<1>2. /\ c \in CallRecords /\ c.pc = "copy" /\ c.copy = 0 /\ c.file = f
      /\ (c.other <=> other) /\ ~c.ok
  BY <1>1, FreshFacts
<1>3. CASE ~other /\ f \in memo.FileID_Link
  BY <1>3 DEF Begin
<1>4. CASE ~(~other /\ f \in memo.FileID_Link) /\ f \notin DOMAIN memo.CopyFiles
  <2>1. Becomes(p, c)
    BY <1>1, <1>4, Zenon DEF Begin, Fresh
  <2> QED
    BY <1>2, <2>1
<1>5. CASE ~(~other /\ f \in memo.FileID_Link) /\ f \in DOMAIN memo.CopyFiles
  <2>1. PICK x : x = IF other THEN "preview" ELSE "lookup"
    BY Zenon
  <2>2. PICK y : y = memo.CopyFiles[f]
    BY Zenon
  <2>3. x \in Phases /\ y \in Copies \cup {0}
    BY <1>5, <2>1, <2>2 DEF Types, MapsOK, Phases
  <2>4. PICK z : z = Taking(c, x, y)
    BY Zenon
  <2>5. Becomes(p, z)
    BY <1>1, <1>5, <2>1, <2>2, <2>4, Zenon DEF Begin, Fresh, Taking
  <2>6. /\ z \in CallRecords /\ z.pc = x /\ z.copy = y /\ z.file = c.file
        /\ (z.other <=> c.other) /\ (z.ok <=> c.ok)
    BY <1>2, <2>3, <2>4, CallTakes
  <2> QED
    BY <1>2, <1>5, <2>1, <2>2, <2>5, <2>6
<1> QED
  BY <1>3, <1>4, <1>5

(* Every step of a call leaves the others alone; what becomes of its own   *)
(* record.                                                                 *)
Moves(p, c, x) ==
    /\ c \in CallRecords /\ Becomes(p, c) /\ c.pc = x /\ c.file = call[p].file
    /\ (c.other <=> call[p].other)
Keeps(p, c, x) == Moves(p, c, x) /\ c.copy = call[p].copy /\ (c.ok <=> call[p].ok)

(* A step that only changes the phase keeps the rest of the record. *)
LEMMA PhaseKeeps ==
    ASSUME Types, NEW p \in Calls, call[p].pc # "idle", NEW x \in Phases,
           Becomes(p, [call[p] EXCEPT !.pc = x])
    PROVE  \E c : Keeps(p, c, x)
<1>1. PICK c : c = [call[p] EXCEPT !.pc = x]
  BY Zenon
<1>2. call[p] \in CallRecords /\ Becomes(p, c)
  BY <1>1, BusyCall, Zenon
<1>3. /\ c \in CallRecords /\ c.pc = x /\ c.copy = call[p].copy /\ c.file = call[p].file
      /\ (c.other <=> call[p].other) /\ (c.ok <=> call[p].ok)
  BY <1>1, <1>2, CallMoves
<1> QED
  BY <1>2, <1>3 DEF Keeps, Moves

(* What Copy2Myali changes: a copy under an id nobody uses. *)
LEMMA MakeCopyFacts ==
    ASSUME Types, NEW p \in Calls, MakeCopy(p)
    PROVE  \E z \in Copies :
              /\ z \notin InUse /\ drive' = drive \cup {z}
              /\ memo' = [memo EXCEPT !.DownloadUrl_dict = memo.DownloadUrl_dict \cap InUse]
              /\ \E r : Moves(p, r, "answer") /\ r.copy = z /\ (r.ok <=> call[p].ok)
<1>1. PICK z \in Copies \ InUse :
          /\ drive' = drive \cup {z}
          /\ memo' = [memo EXCEPT !.DownloadUrl_dict = memo.DownloadUrl_dict \cap InUse]
          /\ Becomes(p, [call[p] EXCEPT !.pc = "answer", !.copy = z])
  BY Zenon DEF MakeCopy
<1>2. call[p] \in CallRecords /\ "answer" \in Phases
  BY BusyCall DEF MakeCopy, Phases
<1>3. PICK r : r = Taking(call[p], "answer", z)
  BY Zenon
<1>4. /\ r \in CallRecords /\ r.pc = "answer" /\ r.copy = z /\ r.file = call[p].file
      /\ (r.other <=> call[p].other) /\ (r.ok <=> call[p].ok)
  BY <1>2, <1>3, CallTakes
<1>5. Becomes(p, r)
  BY <1>1, <1>3, Zenon DEF Taking
<1> QED
  BY <1>1, <1>4, <1>5 DEF Moves

(* What its answer changes in the record of the call. *)
LEMMA CopyMadeFacts ==
    ASSUME Types, NEW p \in Calls, CopyMade(p)
    PROVE  \E c : Keeps(p, c, IF call[p].other THEN "preview" ELSE "lookup")
<1>1. "preview" \in Phases /\ "lookup" \in Phases /\ call[p].pc # "idle"
  BY DEF Phases, CopyMade
<1>2. PICK x \in Phases : x = IF call[p].other THEN "preview" ELSE "lookup"
  BY <1>1
<1>3. Becomes(p, [call[p] EXCEPT !.pc = x])
  BY <1>2, Zenon DEF CopyMade
<1> QED
  BY <1>1, <1>2, <1>3, PhaseKeeps

(* An answer without an id ends the call or begins it anew. *)
LEMMA NoIdFacts ==
    ASSUME Types, NEW p \in Calls, NoId(p)
    PROVE  \/ Ends(p)
           \/ \E c : Moves(p, c, "copy") /\ c.copy = 0 /\ (c.ok <=> call[p].ok)
<1>1. CASE ~call[p].again
  <2>1. PICK c : c = Again(call[p], "copy")
    BY Zenon
  <2>2. Becomes(p, c) /\ call[p].pc # "idle" /\ "copy" \in Phases
    BY <1>1, <2>1 DEF NoId, Phases, Again
  <2>3. call[p] \in CallRecords
    BY <2>2, BusyCall
  <2>4. /\ c \in CallRecords /\ c.pc = "copy" /\ c.copy = 0 /\ c.file = call[p].file
        /\ (c.other <=> call[p].other) /\ (c.ok <=> call[p].ok)
    BY <2>1, <2>2, <2>3, CallAgain
  <2> QED
    BY <2>2, <2>4 DEF Moves
<1> QED
  BY <1>1 DEF NoId

(* GetmyLink finds the URL of the copy, or does not. *)
LEMMA LookupFacts ==
    ASSUME Types, NEW p \in Calls, Lookup(p)
    PROVE  \/ /\ call[p].copy \in memo.DownloadUrl_dict
              /\ \E c : Moves(p, c, "remove") /\ c.copy = call[p].copy /\ c.ok
           \/ /\ call[p].copy \notin memo.DownloadUrl_dict
              /\ \E c : Keeps(p, c, "url")
<1>1. call[p].pc # "idle" /\ "remove" \in Phases /\ "url" \in Phases
  BY DEF Lookup, Phases
<1>2. call[p] \in CallRecords
  BY <1>1, BusyCall
<1>3. CASE call[p].copy \in memo.DownloadUrl_dict
  <2>1. PICK c : c = Succeeding(call[p], "remove")
    BY Zenon
  <2>2. Becomes(p, c)
    BY <1>3, <2>1 DEF Lookup, Succeeding
  <2>3. /\ c \in CallRecords /\ c.pc = "remove" /\ c.copy = call[p].copy /\ c.file = call[p].file
        /\ (c.other <=> call[p].other) /\ c.ok
    BY <1>1, <1>2, <2>1, CallSucceeds
  <2> QED
    BY <1>3, <2>2, <2>3 DEF Moves
<1>4. CASE call[p].copy \notin memo.DownloadUrl_dict
  <2>1. Becomes(p, [call[p] EXCEPT !.pc = "url"])
    BY <1>4 DEF Lookup
  <2> QED
    BY <1>1, <1>4, <2>1, PhaseKeeps
<1> QED
  BY <1>3, <1>4

(* The request for a URL succeeds. *)
LEMMA GetUrlFacts ==
    ASSUME Types, NEW p \in Calls, GetUrl(p)
    PROVE  \E c : Moves(p, c, "remove") /\ c.copy = call[p].copy /\ c.ok
<1>1. call[p].pc # "idle" /\ "remove" \in Phases
  BY DEF GetUrl, Phases
<1>2. call[p] \in CallRecords
  BY <1>1, BusyCall
<1>3. PICK c : c = Succeeding(call[p], "remove")
  BY Zenon
<1>4. Becomes(p, c)
  BY <1>3 DEF GetUrl, Succeeding
<1>5. /\ c \in CallRecords /\ c.pc = "remove" /\ c.copy = call[p].copy /\ c.file = call[p].file
      /\ (c.other <=> call[p].other) /\ c.ok
  BY <1>1, <1>2, <1>3, CallSucceeds
<1> QED
  BY <1>4, <1>5 DEF Moves

(* It fails: another try, or the last; then the copy is gone or the file   *)
(* noted.                                                                  *)
LEMMA UrlFailsFacts ==
    ASSUME Types, NEW p \in Calls, UrlFails(p)
    PROVE  \/ \E c : Keeps(p, c, "url") /\ gaveUp' = gaveUp
           \/ /\ \E c : Keeps(p, c, "remove")
              /\ gaveUp' = IF call[p].copy \in drive THEN gaveUp \cup {call[p].file} ELSE gaveUp
<1>1. call[p].pc = "url" /\ call[p].pc # "idle" /\ "remove" \in Phases
  BY DEF UrlFails, Phases
<1>2. call[p] \in CallRecords
  BY <1>1, BusyCall
<1>3. call[p].count \in 1..Tries
  BY <1>2, CallFields
<1>4. CASE call[p].count < Tries
  <2>1. PICK c : c = [call[p] EXCEPT !.count = call[p].count + 1]
    BY Zenon
  <2>2. Becomes(p, c)
    BY <1>4, <2>1 DEF UrlFails, NextTry
  <2>3. /\ c \in CallRecords /\ c.pc = call[p].pc /\ c.copy = call[p].copy /\ c.file = call[p].file
        /\ (c.other <=> call[p].other) /\ (c.ok <=> call[p].ok)
    BY <1>2, <1>4, <2>1, CallCounts
  <2>4. gaveUp' = gaveUp
    BY <1>3, <1>4, ShareAssumption DEF UrlFails
  <2> QED
    BY <1>1, <2>2, <2>3, <2>4 DEF Keeps, Moves
<1>5. CASE ~(call[p].count < Tries)
  <2>1. call[p].count = Tries
    BY <1>3, <1>5, ShareAssumption
  <2>2. Becomes(p, [call[p] EXCEPT !.pc = "remove"])
    BY <1>5 DEF UrlFails, NextTry
  <2>3. gaveUp' = IF call[p].copy \in drive THEN gaveUp \cup {call[p].file} ELSE gaveUp
    BY <2>1 DEF UrlFails
  <2> QED
    BY <1>1, <2>2, <2>3, PhaseKeeps
<1> QED
  BY <1>4, <1>5

(* Remove changes only the phase of the call. *)
LEMMA RemoveCopyFacts ==
    ASSUME Types, NEW p \in Calls, RemoveCopy(p)
    PROVE  \E c : Keeps(p, c, "save")
<1>1. call[p].pc # "idle" /\ "save" \in Phases /\ Becomes(p, [call[p] EXCEPT !.pc = "save"])
  BY DEF RemoveCopy, Phases
<1> QED
  BY <1>1, PhaseKeeps
-----------------------------------------------------------------------------
(* The initial state has the types. *)
LEMMA TypeInit == Init => Types
<1> SUFFICES ASSUME Init PROVE Types
  OBVIOUS
<1>1. MapsOK(memo)
  BY ForgottenOK DEF Init
<1>2. call \in [Calls -> {Idle} \cup CallRecords]
  BY DEF Init
<1> QED
  BY <1>1, <1>2, ShareAssumption DEF Init, Types

(* The number of faults keeps its bound. *)
LEMMA FaultType == Types /\ (Fault \/ UNCHANGED faults) => faults' \in 0..MaxFaults
BY ShareAssumption DEF Types, Fault

(* The record of a call becomes one of a call under way, or Idle. *)
LEMMA MovesType ==
    ASSUME Types, NEW p \in Calls, NEW c, NEW x, Moves(p, c, x)
    PROVE  /\ call' \in [Calls -> {Idle} \cup CallRecords]
           /\ call'[p] = c /\ \A q \in Calls \ {p} : call'[q] = call[q]
BY OneCall DEF Moves

(* A call that returns leaves the others alone. *)
LEMMA EndsType ==
    ASSUME Types, NEW p \in Calls, Ends(p)
    PROVE  /\ call' \in [Calls -> {Idle} \cup CallRecords]
           /\ call'[p] = Idle /\ \A q \in Calls \ {p} : call'[q] = call[q]
BY OneCall, IdleIsIdle DEF Ends

(* Copies, links and URLs are remembered as what they are. *)
LEMMA MemoRemembers ==
    ASSUME Types, NEW f \in Files, NEW c \in Copies,
           memo' = [memo EXCEPT !.CopyFiles = Remember(f, c)]
    PROVE  /\ MapsOK(memo')
           /\ DOMAIN memo'.CopyFiles = DOMAIN memo.CopyFiles \cup {f}
           /\ memo'.CopyFiles[f] = c
           /\ \A g \in DOMAIN memo.CopyFiles \ {f} : memo'.CopyFiles[g] = memo.CopyFiles[g]
           /\ memo'.DownloadUrl_dict = memo.DownloadUrl_dict
<1>1. PICK R : R = Remember(f, c)
  BY Zenon
<1>2. /\ DOMAIN R = DOMAIN memo.CopyFiles \cup {f}
      /\ R \in [DOMAIN R -> Copies]
      /\ R[f] = c
      /\ \A g \in DOMAIN memo.CopyFiles \ {f} : R[g] = memo.CopyFiles[g]
  BY <1>1 DEF Types, MapsOK, Remember
<1>3. memo' = [CopyFiles |-> R, DownloadUrl_dict |-> memo.DownloadUrl_dict,
               FileID_Link |-> memo.FileID_Link]
  BY <1>1 DEF Types, MapsOK
<1> QED
  BY <1>2, <1>3 DEF Types, MapsOK

(* Only the URLs of the maps change (MakeCopy, GetUrl). *)
LEMMA MemoUrls ==
    ASSUME Types, NEW S \in SUBSET Copies, memo' = [memo EXCEPT !.DownloadUrl_dict = S]
    PROVE  MapsOK(memo') /\ memo'.CopyFiles = memo.CopyFiles /\ memo'.DownloadUrl_dict = S
<1>1. memo' = [CopyFiles |-> memo.CopyFiles, DownloadUrl_dict |-> S,
               FileID_Link |-> memo.FileID_Link]
  BY DEF Types, MapsOK
<1> QED
  BY <1>1 DEF Types, MapsOK

(* Only the links of the maps change (Save, LinkElsewhere). *)
LEMMA MemoLinks ==
    ASSUME Types, NEW S \in SUBSET (Files \cup Rest), memo' = [memo EXCEPT !.FileID_Link = S]
    PROVE  /\ MapsOK(memo') /\ memo'.CopyFiles = memo.CopyFiles
           /\ memo'.DownloadUrl_dict = memo.DownloadUrl_dict
<1>1. memo' = [CopyFiles |-> memo.CopyFiles, DownloadUrl_dict |-> memo.DownloadUrl_dict,
               FileID_Link |-> S]
  BY DEF Types, MapsOK
<1> QED
  BY <1>1 DEF Types, MapsOK

(* The copies are forgotten (cron3). *)
LEMMA MemoForgets ==
    ASSUME Types, memo' = [memo EXCEPT !.CopyFiles = Forgotten.CopyFiles]
    PROVE  MapsOK(memo') /\ DOMAIN memo'.CopyFiles = {}
<1>1. PICK E : E = Forgotten.CopyFiles
  BY Zenon
<1>2. DOMAIN E = {} /\ E \in [DOMAIN E -> Copies]
  BY <1>1, ForgottenOK DEF MapsOK
<1>3. memo' = [CopyFiles |-> E, DownloadUrl_dict |-> memo.DownloadUrl_dict,
               FileID_Link |-> memo.FileID_Link]
  BY <1>1 DEF Types, MapsOK
<1>4. memo'.CopyFiles = E /\ memo'.DownloadUrl_dict = memo.DownloadUrl_dict
      /\ memo'.FileID_Link = memo.FileID_Link
  BY <1>3
<1>5. MapsOK(memo')
  BY <1>2, <1>3, <1>4 DEF Types, MapsOK
<1> QED
  BY <1>2, <1>4, <1>5
-----------------------------------------------------------------------------
(* A call under way has a copy unless it is about to make one; it succeeds *)
(* only with a URL.                                                        *)
HaveCopy ==
    \A p \in Calls : call[p].pc # "idle" =>
        /\ call[p].copy = 0 <=> call[p].pc = "copy"
        /\ call[p].ok => call[p].pc \in {"remove", "save"}

(* A copy whose id is still to be remembered is there and nobody else      *)
(* knows it.                                                               *)
Answered ==
    \A p \in Calls : call[p].pc = "answer" =>
        /\ call[p].copy \in drive
        /\ \A f \in DOMAIN memo.CopyFiles : memo.CopyFiles[f] # call[p].copy
        /\ \A q \in Calls \ {p} : call[q].pc # "idle" => call[q].copy # call[p].copy

(* A remembered copy is of one file. *)
OneFile ==
    \A f \in DOMAIN memo.CopyFiles :
        /\ \A p \in Calls : call[p].pc # "idle" /\ call[p].copy = memo.CopyFiles[f] => call[p].file = f
        /\ \A g \in DOMAIN memo.CopyFiles : memo.CopyFiles[f] = memo.CopyFiles[g] => f = g

(* Who removes a remembered copy has its URL, or was refused it. *)
Removing ==
    \A p \in Calls : call[p].pc = "remove" =>
        /\ call[p].ok =>
              \A f \in DOMAIN memo.CopyFiles :
                  memo.CopyFiles[f] = call[p].copy => call[p].copy \in memo.DownloadUrl_dict
        /\ ~call[p].ok => call[p].file \in gaveUp \/ call[p].copy \notin drive

(* A remembered copy is there, or its URL is. *)
Linked ==
    \A f \in DOMAIN memo.CopyFiles \ gaveUp :
        memo.CopyFiles[f] \in drive \cup memo.DownloadUrl_dict

LInv == Types /\ HaveCopy /\ Answered /\ OneFile /\ Removing /\ Linked

(* LInv without the types. *)
LinkParts == HaveCopy /\ Answered /\ OneFile /\ Removing /\ Linked

(* A call is idle or has a record with its copy in it. *)
LEMMA NotIdle ==
    ASSUME Types, NEW p \in Calls
    PROVE  /\ call[p].pc = "idle" \/ (call[p] \in CallRecords /\ call[p].copy \in Copies \cup {0}
                                      /\ call[p].file \in Files /\ call[p].pc \in Phases)
           /\ call[p].pc # "idle" => Holds(p) = call[p].copy
<1>1. call[p] = Idle \/ call[p] \in CallRecords
  BY DEF Types
<1> QED
  BY <1>1, IdleIsIdle, CallFields DEF Holds, Busy

(* An id that is not in use is in no map, in no call and not on the drive. *)
LEMMA UnusedCopy ==
    ASSUME Types, NEW z \in Copies, z \notin InUse
    PROVE  /\ z \notin drive
           /\ \A f \in DOMAIN memo.CopyFiles : memo.CopyFiles[f] # z /\ memo.CopyFiles[f] \in InUse
           /\ \A p \in Calls : call[p].pc # "idle" => call[p].copy # z
BY NotIdle DEF InUse, Remembered

(* At the start there is nothing to be wrong about. *)
LEMMA LinkInit == Init => LinkParts
<1> SUFFICES ASSUME Init PROVE LinkParts
  OBVIOUS
<1>1. \A p \in Calls : call[p].pc = "idle"
  BY IdleIsIdle DEF Init
<1>2. DOMAIN memo.CopyFiles = {}
  BY ForgottenOK DEF Init
<1> QED
  BY <1>1, <1>2 DEF LinkParts, HaveCopy, Answered, OneFile, Removing, Linked

(* A new copy disturbs nobody: its id is nobody's (MakeCopy). *)
LEMMA LinkMake ==
    ASSUME LInv, NEW p \in Calls, MakeCopy(p)
    PROVE  LinkParts'
<1>1. PICK z, r :
        /\ z \in Copies
        /\ z \notin InUse /\ drive' = drive \cup {z}
        /\ memo' = [memo EXCEPT !.DownloadUrl_dict = memo.DownloadUrl_dict \cap InUse]
        /\ Moves(p, r, "answer") /\ r.copy = z /\ (r.ok <=> call[p].ok)
  BY MakeCopyFacts DEF LInv
<1>2. /\ call'[p] = r /\ \A q \in Calls \ {p} : call'[q] = call[q]
      /\ r.pc = "answer" /\ r.file = call[p].file
  BY <1>1, MovesType DEF LInv, Moves
<1>3. PICK S \in SUBSET Copies : S = memo.DownloadUrl_dict \cap InUse
  BY DEF LInv, Types, MapsOK
<1>4. memo'.CopyFiles = memo.CopyFiles /\ memo'.DownloadUrl_dict = S
  BY <1>1, <1>3, MemoUrls DEF LInv
<1>5. /\ z \notin drive
      /\ \A f \in DOMAIN memo.CopyFiles : memo.CopyFiles[f] # z /\ memo.CopyFiles[f] \in InUse
      /\ \A q \in Calls : call[q].pc # "idle" => call[q].copy # z
  BY <1>1, UnusedCopy DEF LInv
<1>6. call[p].pc = "copy" /\ gaveUp' = gaveUp /\ z # 0
  BY <1>1, ShareAssumption DEF MakeCopy
<1>7. HaveCopy'
  BY <1>1, <1>2, <1>6 DEF HaveCopy, LInv
<1>8. Answered'
  BY <1>1, <1>2, <1>4, <1>5, <1>6 DEF Answered, LInv
<1>9. OneFile'
  BY <1>1, <1>2, <1>4, <1>5, <1>6 DEF OneFile, LInv
<1>10. Removing'
  BY <1>1, <1>2, <1>3, <1>4, <1>5, <1>6 DEF Removing, LInv
<1>11. Linked'
  BY <1>1, <1>3, <1>4, <1>5, <1>6 DEF Linked, LInv
<1> QED
  BY <1>7, <1>8, <1>9, <1>10, <1>11 DEF LinkParts

(* The call of p is over or begins its request again: what it had is of no *)
(* concern any more.                                                       *)
LEMMA LinkLeaves ==
    ASSUME LInv, NEW p \in Calls,
           UNCHANGED drive, gaveUp' = gaveUp,
           memo'.CopyFiles = memo.CopyFiles, memo'.DownloadUrl_dict = memo.DownloadUrl_dict,
           \/ Ends(p)
           \/ \E c : Moves(p, c, "copy") /\ c.copy = 0 /\ ~c.ok
    PROVE  LinkParts'
<1>1. PICK c : /\ call'[p] = c /\ \A q \in Calls \ {p} : call'[q] = call[q]
               /\ c.pc = "idle" \/ (c.pc = "copy" /\ c.copy = 0 /\ ~c.ok)
  BY EndsType, MovesType, IdleIsIdle DEF LInv, Moves
<1>2. \A f \in DOMAIN memo.CopyFiles : memo.CopyFiles[f] # 0
  BY ShareAssumption DEF LInv, Types, MapsOK
<1>3. \A q \in Calls : call[q].pc = "answer" => call[q].copy # 0
  BY DEF LInv, HaveCopy
<1>4. HaveCopy'
  BY <1>1 DEF HaveCopy, LInv
<1>5. Answered'
  BY <1>1, <1>3 DEF Answered, LInv
<1>6. OneFile'
  BY <1>1, <1>2 DEF OneFile, LInv
<1>7. Removing'
  BY <1>1 DEF Removing, LInv
<1>8. Linked'
  BY DEF Linked, LInv
<1> QED
  BY <1>4, <1>5, <1>6, <1>7, <1>8 DEF LinkParts

(* The copy of p is remembered. *)
LEMMA LinkRemembers ==
    ASSUME LInv, NEW p \in Calls, call[p].pc = "answer",
           UNCHANGED drive, gaveUp' = gaveUp,
           memo' = [memo EXCEPT !.CopyFiles = Remember(call[p].file, call[p].copy)],
           \/ Ends(p)
           \/ \E c, x : Keeps(p, c, x) /\ x \in {"preview", "lookup"}
    PROVE  LinkParts'
<1>1. PICK f \in Files, z \in Copies : f = call[p].file /\ z = call[p].copy
  BY NotIdle DEF LInv, HaveCopy
<1>2. /\ DOMAIN memo'.CopyFiles = DOMAIN memo.CopyFiles \cup {f}
      /\ memo'.CopyFiles[f] = z
      /\ \A g \in DOMAIN memo.CopyFiles \ {f} : memo'.CopyFiles[g] = memo.CopyFiles[g]
      /\ memo'.DownloadUrl_dict = memo.DownloadUrl_dict
  BY <1>1, MemoRemembers DEF LInv
<1>3. PICK c : /\ call'[p] = c /\ \A q \in Calls \ {p} : call'[q] = call[q]
               /\ \/ c.pc = "idle"
                  \/ /\ c.pc \in {"preview", "lookup"} /\ c.copy = z /\ c.file = f
                     /\ (c.ok <=> call[p].ok)
  BY <1>1, EndsType, MovesType, IdleIsIdle DEF LInv, Moves, Keeps
<1>4. /\ z \in drive
      /\ \A g \in DOMAIN memo.CopyFiles : memo.CopyFiles[g] # z
      /\ \A q \in Calls \ {p} : call[q].pc # "idle" => call[q].copy # z
  BY <1>1 DEF LInv, Answered
<1>5. z # 0 /\ ~call[p].ok
  BY ShareAssumption DEF LInv, HaveCopy
<1>6. HaveCopy'
  BY <1>3, <1>5 DEF HaveCopy, LInv
<1>7. Answered'
  BY <1>2, <1>3, <1>4 DEF Answered, LInv
<1>8. OneFile'
  BY <1>1, <1>2, <1>3, <1>4 DEF OneFile, LInv
<1>9. Removing'
  BY <1>2, <1>3, <1>4 DEF Removing, LInv
<1>10. Linked'
  BY <1>2, <1>4 DEF Linked, LInv
<1> QED
  BY <1>6, <1>7, <1>8, <1>9, <1>10 DEF LinkParts

(* A call begins. *)
LEMMA LinkBegin ==
    ASSUME LInv, NEW p \in Calls, NEW f \in Files, NEW other \in BOOLEAN, Begin(p, f, other)
    PROVE  LinkParts'
<1>1. call[p].pc = "idle" /\ UNCHANGED <<drive, memo, gaveUp>>
  BY DEF Begin, Busy
<1>2. CASE UNCHANGED call
  BY <1>1, <1>2 DEF LInv, LinkParts, HaveCopy, Answered, OneFile, Removing, Linked
<1>3. CASE ~UNCHANGED call
  <2>1. PICK c \in CallRecords :
          /\ Becomes(p, c) /\ c.file = f /\ ~c.ok
          /\ \/ c.pc = "copy" /\ c.copy = 0
             \/ /\ c.pc = IF other THEN "preview" ELSE "lookup"
                /\ f \in DOMAIN memo.CopyFiles /\ c.copy = memo.CopyFiles[f]
    BY <1>3, BeginFacts DEF LInv
  <2>2. call'[p] = c /\ \A q \in Calls \ {p} : call'[q] = call[q]
    BY <2>1, OneCall DEF LInv
  <2>3. \A g \in DOMAIN memo.CopyFiles : memo.CopyFiles[g] # 0
    BY ShareAssumption DEF LInv, Types, MapsOK
  <2>4. c.pc \in {"copy", "preview", "lookup"} /\ (c.copy = 0 <=> c.pc = "copy")
    BY <2>1, <2>3
  <2>5. HaveCopy'
    BY <2>1, <2>2, <2>4 DEF HaveCopy, LInv
  <2>6. Answered'
    BY <1>1, <2>1, <2>2, <2>4 DEF Answered, HaveCopy, LInv
  <2>7. OneFile'
    BY <1>1, <2>1, <2>2, <2>3 DEF OneFile, LInv
  <2>8. Removing'
    BY <1>1, <2>1, <2>2, <2>4 DEF Removing, LInv
  <2>9. Linked'
    BY <1>1 DEF Linked, LInv
  <2> QED
    BY <2>5, <2>6, <2>7, <2>8, <2>9 DEF LinkParts
<1> QED
  BY <1>2, <1>3

(* The call of p goes on with the copy it has; more URLs may be known and  *)
(* more be given up.                                                       *)
LEMMA LinkGoesOn ==
    ASSUME LInv, NEW p \in Calls, call[p].pc \in {"lookup", "url"},
           UNCHANGED drive, gaveUp \subseteq gaveUp',
           memo'.CopyFiles = memo.CopyFiles, memo.DownloadUrl_dict \subseteq memo'.DownloadUrl_dict,
           NEW c, NEW x, Moves(p, c, x), c.copy = call[p].copy,
           \/ x = "url" /\ ~c.ok
           \/ x = "remove" /\ c.ok /\ c.copy \in memo'.DownloadUrl_dict
           \/ x = "remove" /\ ~c.ok /\ (c.copy \in drive => c.file \in gaveUp')
    PROVE  LinkParts'
<1>1. /\ call'[p] = c /\ \A q \in Calls \ {p} : call'[q] = call[q]
      /\ c.pc = x /\ c.file = call[p].file
  BY MovesType DEF LInv, Moves
<1>2. HaveCopy'
  BY <1>1 DEF HaveCopy, LInv
<1>3. Answered'
  BY <1>1 DEF Answered, LInv
<1>4. OneFile'
  BY <1>1 DEF OneFile, LInv
<1>5. Removing'
  BY <1>1 DEF Removing, LInv
<1>6. Linked'
  BY DEF Linked, LInv
<1> QED
  BY <1>2, <1>3, <1>4, <1>5, <1>6 DEF LinkParts

(* The copy of p is removed, or not. *)
LEMMA LinkRemoves ==
    ASSUME LInv, NEW p \in Calls, RemoveCopy(p)
    PROVE  LinkParts'
<1>1. /\ call[p].pc = "remove" /\ UNCHANGED <<memo, gaveUp>>
      /\ drive' = drive \ {call[p].copy} \/ UNCHANGED drive
  BY DEF RemoveCopy, Removed
<1>2. PICK c : Keeps(p, c, "save")
  BY RemoveCopyFacts DEF LInv
<1>3. /\ call'[p] = c /\ \A q \in Calls \ {p} : call'[q] = call[q]
      /\ c.pc = "save" /\ c.file = call[p].file /\ c.copy = call[p].copy
  BY <1>2, MovesType DEF LInv, Moves, Keeps
<1>4. HaveCopy'
  BY <1>1, <1>3 DEF HaveCopy, LInv
<1>5. Answered'
  BY <1>1, <1>3 DEF Answered, LInv
<1>6. OneFile'
  BY <1>1, <1>3 DEF OneFile, LInv
<1>7. Removing'
  BY <1>1, <1>3 DEF Removing, LInv
<1>8. Linked'
  <2>1. ASSUME NEW f \in DOMAIN memo.CopyFiles \ gaveUp, memo.CopyFiles[f] = call[p].copy
        PROVE  call[p].copy \in memo.DownloadUrl_dict
    <3>1. call[p].file = f /\ (call[p].copy \in drive \/ call[p].copy \in memo.DownloadUrl_dict)
      BY <1>1, <2>1 DEF LInv, OneFile, Linked
    <3>2. call[p].ok => call[p].copy \in memo.DownloadUrl_dict
      BY <1>1, <2>1 DEF LInv, Removing
    <3>3. ~call[p].ok => f \in gaveUp \/ call[p].copy \notin drive
      BY <1>1, <3>1 DEF LInv, Removing
    <3> QED
      BY <3>1, <3>2, <3>3
  <2> QED
    BY <1>1, <2>1 DEF Linked, LInv
<1> QED
  BY <1>4, <1>5, <1>6, <1>7, <1>8 DEF LinkParts

(* The maps are cleared; the calls go on, or the process is gone. *)
LEMMA LinkForgets ==
    ASSUME LInv, UNCHANGED drive, gaveUp' = gaveUp,
           DOMAIN memo'.CopyFiles = {}, \A p \in Calls : call'[p] = call[p] \/ call'[p].pc = "idle"
    PROVE  LinkParts'
<1>1. HaveCopy'
  BY DEF HaveCopy, LInv
<1>2. Answered'
  BY DEF Answered, LInv
<1>3. OneFile' /\ Linked'
  BY DEF OneFile, Linked
<1>4. Removing'
  BY DEF Removing, LInv
<1> QED
  BY <1>1, <1>2, <1>3, <1>4 DEF LinkParts
-----------------------------------------------------------------------------
(* Every step keeps LinkParts. *)
LEMMA LinkStep == LInv /\ [Next]_vars => LinkParts'
<1> SUFFICES ASSUME LInv, [Next]_vars PROVE LinkParts'
  OBVIOUS
<1>1. ASSUME NEW p \in Calls, Asks(p) PROVE LinkParts'
  BY <1>1, LinkBegin DEF Asks
<1>2. ASSUME NEW p \in Calls, Advance(p) PROVE LinkParts'
  <2>1. CASE MakeCopy(p)
    BY <2>1, LinkMake
  <2>2. CASE CopyMade(p)
    <3>1. \E c : Keeps(p, c, IF call[p].other THEN "preview" ELSE "lookup")
      BY <2>2, CopyMadeFacts DEF LInv
    <3>2. \E c, x : Keeps(p, c, x) /\ x \in {"preview", "lookup"}
      BY <3>1
    <3>3. /\ call[p].pc = "answer" /\ UNCHANGED drive /\ gaveUp' = gaveUp
          /\ memo' = [memo EXCEPT !.CopyFiles = Remember(call[p].file, call[p].copy)]
      BY <2>2 DEF CopyMade
    <3> QED
      BY <3>2, <3>3, LinkRemembers
  <2>3. CASE CopyFails(p)
    BY <2>3, LinkLeaves DEF CopyFails
  <2>4. CASE NoId(p)
    <3>1. Ends(p) \/ \E c : Moves(p, c, "copy") /\ c.copy = 0 /\ (c.ok <=> call[p].ok)
      BY <2>4, NoIdFacts DEF LInv
    <3>2. ~call[p].ok
      BY <2>4 DEF NoId, LInv, HaveCopy
    <3>3. Ends(p) \/ \E c : Moves(p, c, "copy") /\ c.copy = 0 /\ ~c.ok
      BY <3>1, <3>2
    <3>4. UNCHANGED drive /\ gaveUp' = gaveUp /\ memo' = memo
      BY <2>4 DEF NoId
    <3> QED
      BY <3>3, <3>4, LinkLeaves
  <2>5. CASE IdElsewhere(p)
    BY <2>5, LinkRemembers DEF IdElsewhere
  <2>6. CASE Lookup(p)
    <3>1. /\ call[p].pc = "lookup" /\ UNCHANGED <<drive, memo, gaveUp>> /\ ~call[p].ok
      BY <2>6 DEF Lookup, LInv, HaveCopy
    <3>2. PICK c, x : /\ Moves(p, c, x) /\ c.copy = call[p].copy
                      /\ \/ x = "remove" /\ c.ok /\ c.copy \in memo.DownloadUrl_dict
                         \/ x = "url" /\ ~c.ok
      BY <2>6, <3>1, LookupFacts DEF LInv, Keeps
    <3> QED
      BY <3>1, <3>2, LinkGoesOn
  <2>7. CASE GetUrl(p)
    <3>1. /\ call[p].pc = "url" /\ UNCHANGED <<drive, gaveUp>> /\ call[p].copy \in drive
          /\ memo' = [memo EXCEPT !.DownloadUrl_dict = memo.DownloadUrl_dict \cup {call[p].copy}]
      BY <2>7 DEF GetUrl
    <3>2. PICK S \in SUBSET Copies : S = memo.DownloadUrl_dict \cup {call[p].copy}
      BY <3>1 DEF LInv, Types, MapsOK
    <3>3. memo'.CopyFiles = memo.CopyFiles /\ memo'.DownloadUrl_dict = S
      BY <3>1, <3>2, MemoUrls DEF LInv
    <3>4. PICK c : Moves(p, c, "remove") /\ c.copy = call[p].copy /\ c.ok
      BY <2>7, GetUrlFacts DEF LInv
    <3> QED
      BY <3>1, <3>2, <3>3, <3>4, LinkGoesOn
  <2>8. CASE UrlFails(p)
    <3>1. /\ call[p].pc = "url" /\ UNCHANGED <<drive, memo>> /\ ~call[p].ok
      BY <2>8 DEF UrlFails, LInv, HaveCopy
    <3>2. PICK c, x : /\ Moves(p, c, x) /\ c.copy = call[p].copy /\ ~c.ok
                      /\ gaveUp \subseteq gaveUp'
                      /\ \/ x = "url"
                         \/ x = "remove" /\ (c.copy \in drive => c.file \in gaveUp')
      BY <2>8, <3>1, UrlFailsFacts DEF LInv, Keeps, Moves
    <3> QED
      BY <3>1, <3>2, LinkGoesOn
  <2>9. CASE RemoveCopy(p)
    BY <2>9, LinkRemoves
  <2>10. CASE Save(p)
    <3>1. Ends(p) /\ UNCHANGED drive /\ gaveUp' = gaveUp
      BY <2>10 DEF Save
    <3>2. memo'.CopyFiles = memo.CopyFiles /\ memo'.DownloadUrl_dict = memo.DownloadUrl_dict
      <4>1. CASE memo' = memo
        BY <4>1
      <4>2. CASE memo' = [memo EXCEPT !.FileID_Link = memo.FileID_Link \cup {call[p].file}]
        <5>1. PICK S \in SUBSET (Files \cup Rest) : S = memo.FileID_Link \cup {call[p].file}
          BY <2>10, NotIdle DEF LInv, Types, MapsOK, Save
        <5> QED
          BY <4>2, <5>1, MemoLinks DEF LInv
      <4> QED
        BY <2>10, <4>1, <4>2 DEF Save
    <3> QED
      BY <3>1, <3>2, LinkLeaves
  <2>11. CASE Preview(p)
    BY <2>11, LinkLeaves DEF Preview
  <2> QED
    BY <1>2, <2>1, <2>2, <2>3, <2>4, <2>5, <2>6, <2>7, <2>8, <2>9, <2>10, <2>11 DEF Advance
<1>3. CASE LinkElsewhere
  <2>1. PICK f \in Rest : memo' = [memo EXCEPT !.FileID_Link = memo.FileID_Link \cup {f}]
    BY <1>3 DEF LinkElsewhere
  <2>2. PICK S \in SUBSET (Files \cup Rest) : S = memo.FileID_Link \cup {f}
    BY <2>1 DEF LInv, Types, MapsOK
  <2>3. memo'.CopyFiles = memo.CopyFiles /\ memo'.DownloadUrl_dict = memo.DownloadUrl_dict
    BY <2>1, <2>2, MemoLinks DEF LInv
  <2>4. UNCHANGED <<drive, call, gaveUp>>
    BY <1>3 DEF LinkElsewhere
  <2> QED
    BY <2>3, <2>4 DEF LInv, LinkParts, HaveCopy, Answered, OneFile, Removing, Linked
<1>4. CASE Cron2
  <2>1. DOMAIN memo'.CopyFiles = {} /\ UNCHANGED <<drive, call, gaveUp>>
    BY <1>4, ForgottenOK DEF Cron2, Cleared
  <2> QED
    BY <2>1, LinkForgets
<1>5. CASE Cron3
  <2>1. DOMAIN memo'.CopyFiles = {} /\ UNCHANGED <<drive, call, gaveUp>>
    BY <1>5, MemoForgets DEF Cron3, LInv
  <2> QED
    BY <2>1, LinkForgets
<1>6. CASE Crash
  <2>1. DOMAIN memo'.CopyFiles = {} /\ UNCHANGED <<drive, gaveUp>>
        /\ \A p \in Calls : call'[p].pc = "idle"
    BY <1>6, ForgottenOK, IdleIsIdle DEF Crash
  <2> QED
    BY <2>1, LinkForgets
<1>7. CASE UNCHANGED vars
  BY <1>7 DEF vars, LInv, LinkParts, HaveCopy, Answered, OneFile, Removing, Linked
<1> QED
  BY <1>1, <1>2, <1>3, <1>4, <1>5, <1>6, <1>7 DEF Next

(* Each step keeps the types. *)
LEMMA TypeStep == LInv /\ [Next]_vars => Types'
<1> SUFFICES ASSUME LInv, [Next]_vars PROVE Types'
  OBVIOUS
<1>t. Types
  BY DEF LInv
<1>m. drive \subseteq Copies /\ MapsOK(memo) /\ faults \in 0..MaxFaults /\ others \in 0..MaxOthers
      /\ paid \in Nat /\ gaveUp \subseteq Files /\ call \in [Calls -> {Idle} \cup CallRecords]
  BY <1>t DEF Types
<1>1. ASSUME NEW p \in Calls, Asks(p) PROVE Types'
  <2>1. PICK f \in Files, other \in BOOLEAN : Begin(p, f, other)
    BY <1>1 DEF Asks
  <2>2. call' \in [Calls -> {Idle} \cup CallRecords]
    BY <1>t, <1>m, <2>1, BeginFacts, OneCall
  <2>3. UNCHANGED <<drive, memo, faults, gaveUp>>
    BY <2>1 DEF Begin
  <2>4. others' \in 0..MaxOthers /\ paid' \in Nat
    BY <1>m, <2>1, ShareAssumption DEF Begin
  <2> QED
    BY <1>m, <2>2, <2>3, <2>4 DEF Types
<1>2. ASSUME NEW p \in Calls, Advance(p) PROVE Types'
  <2>p. paid + 1 \in Nat /\ paid + Made(p) \in Nat
    BY <1>m DEF Made
  <2>f. faults' \in 0..MaxFaults /\ others' = others /\ paid' \in Nat
    <3>1. Fault \/ UNCHANGED faults
      BY <1>2 DEF Advance, MakeCopy, CopyMade, CopyFails, NoId, IdElsewhere, Lookup, GetUrl,
                  UrlFails, RemoveCopy, Save, Preview
    <3>2. others' = others
      BY <1>2 DEF Advance, MakeCopy, CopyMade, CopyFails, NoId, IdElsewhere, Lookup, GetUrl,
                  UrlFails, RemoveCopy, Save, Preview
    <3>3. paid' = paid \/ paid' = paid + 1 \/ paid' = paid + Made(p)
      BY <1>2 DEF Advance, MakeCopy, CopyMade, CopyFails, NoId, IdElsewhere, Lookup, GetUrl,
                  UrlFails, RemoveCopy, Save, Preview
    <3> QED
      BY <1>t, <1>m, <2>p, <3>1, <3>2, <3>3, FaultType
  <2>c. call' \in [Calls -> {Idle} \cup CallRecords]
    <3>1. \/ Ends(p) \/ \E c, x : Moves(p, c, x)
      BY <1>2, <1>t, MakeCopyFacts, CopyMadeFacts, NoIdFacts, LookupFacts, GetUrlFacts,
         UrlFailsFacts, RemoveCopyFacts
         DEF Advance, CopyFails, IdElsewhere, Save, Preview, Keeps
    <3> QED
      BY <1>t, <3>1, EndsType, MovesType
  <2>z. drive' \subseteq Copies /\ gaveUp' \subseteq Files /\ MapsOK(memo')
    <3>1. CASE MakeCopy(p)
      <4>1. PICK z \in Copies :
              /\ drive' = drive \cup {z}
              /\ memo' = [memo EXCEPT !.DownloadUrl_dict = memo.DownloadUrl_dict \cap InUse]
        BY <1>t, <3>1, MakeCopyFacts
      <4>2. PICK S \in SUBSET Copies : S = memo.DownloadUrl_dict \cap InUse
        BY <1>m DEF MapsOK
      <4>3. MapsOK(memo')
        BY <1>t, <4>1, <4>2, MemoUrls
      <4>4. gaveUp' = gaveUp
        BY <3>1 DEF MakeCopy
      <4> QED
        BY <1>m, <4>1, <4>3, <4>4
    <3>2. CASE CopyMade(p) \/ IdElsewhere(p)
      <4>1. /\ call[p].pc = "answer" /\ UNCHANGED <<drive, gaveUp>>
            /\ memo' = [memo EXCEPT !.CopyFiles = Remember(call[p].file, call[p].copy)]
        BY <3>2 DEF CopyMade, IdElsewhere
      <4>2. call[p].file \in Files /\ call[p].copy \in Copies
        BY <1>t, <4>1, NotIdle DEF LInv, HaveCopy
      <4>3. MapsOK(memo')
        BY <1>t, <4>1, <4>2, MemoRemembers
      <4> QED
        BY <1>m, <4>1, <4>3
    <3>3. CASE GetUrl(p)
      <4>1. /\ UNCHANGED <<drive, gaveUp>> /\ call[p].copy \in drive
            /\ memo' = [memo EXCEPT !.DownloadUrl_dict = memo.DownloadUrl_dict \cup {call[p].copy}]
        BY <3>3 DEF GetUrl
      <4>2. PICK S \in SUBSET Copies : S = memo.DownloadUrl_dict \cup {call[p].copy}
        BY <1>m, <4>1 DEF MapsOK
      <4>3. MapsOK(memo')
        BY <1>t, <4>1, <4>2, MemoUrls
      <4> QED
        BY <1>m, <4>1, <4>3
    <3>4. CASE UrlFails(p)
      <4>1. call[p].file \in Files
        BY <1>t, <3>4, NotIdle DEF UrlFails
      <4> QED
        BY <1>m, <3>4, <4>1 DEF UrlFails
    <3>5. CASE Save(p)
      <4>1. call[p].file \in Files /\ UNCHANGED <<drive, gaveUp>>
        BY <1>t, <3>5, NotIdle DEF Save
      <4>2. PICK S \in SUBSET (Files \cup Rest) : S = memo.FileID_Link \cup {call[p].file}
        BY <1>m, <4>1 DEF MapsOK
      <4>3. memo' = memo \/ memo' = [memo EXCEPT !.FileID_Link = S]
        BY <3>5, <4>2 DEF Save
      <4>4. MapsOK(memo')
        BY <1>t, <1>m, <4>3, MemoLinks
      <4> QED
        BY <1>m, <4>1, <4>4
    <3>6. CASE RemoveCopy(p)
      BY <1>m, <3>6 DEF RemoveCopy
    <3>7. CASE CopyFails(p) \/ NoId(p) \/ Lookup(p) \/ Preview(p)
      BY <1>m, <3>7 DEF CopyFails, NoId, Lookup, Preview
    <3> QED
      BY <1>2, <3>1, <3>2, <3>3, <3>4, <3>5, <3>6, <3>7 DEF Advance
  <2> QED
    BY <1>m, <2>f, <2>c, <2>z DEF Types
<1>3. CASE LinkElsewhere
  <2>1. PICK f \in Rest : memo' = [memo EXCEPT !.FileID_Link = memo.FileID_Link \cup {f}]
    BY <1>3 DEF LinkElsewhere
  <2>2. PICK S \in SUBSET (Files \cup Rest) : S = memo.FileID_Link \cup {f}
    BY <1>m, <2>1 DEF MapsOK
  <2>3. MapsOK(memo')
    BY <1>t, <2>1, <2>2, MemoLinks
  <2> QED
    BY <1>m, <1>3, <2>3 DEF LinkElsewhere, Types
<1>4. CASE Cron2 \/ Cron3
  <2>1. MapsOK(memo')
    BY <1>t, <1>4, ForgottenOK, MemoForgets DEF Cron2, Cron3, Cleared
  <2> QED
    BY <1>m, <1>4, <2>1 DEF Cron2, Cron3, Types
<1>5. CASE Crash
  <2>1. MapsOK(memo')
    BY <1>5, ForgottenOK DEF Crash
  <2>2. Cardinality({p \in Calls : Holds(p) # 0}) \in Nat
    BY FS_Subset, FS_CardinalityType, ShareAssumption
  <2>3. paid' \in Nat
    BY <1>m, <1>5, <2>2 DEF Crash
  <2>4. call' \in [Calls -> {Idle} \cup CallRecords]
    BY <1>5 DEF Crash
  <2>5. faults' \in 0..MaxFaults
    BY <1>t, <1>5, FaultType DEF Crash
  <2> QED
    BY <1>m, <1>5, <2>1, <2>3, <2>4, <2>5 DEF Crash, Types
<1>6. CASE UNCHANGED vars
  BY <1>m, <1>6 DEF vars, Types
<1> QED
  BY <1>1, <1>2, <1>3, <1>4, <1>5, <1>6 DEF Next

(* LInv holds in every state: calls that share the maps without a lock, and*)
(* the cron jobs that clear them, keep it.                                 *)
THEOREM Invariance == Spec => []LInv
<1>1. Init => LInv
  BY TypeInit, LinkInit DEF LInv, LinkParts
<1>2. LInv /\ [Next]_vars => LInv'
  BY TypeStep, LinkStep DEF LInv, LinkParts
<1> QED
  BY <1>1, <1>2, PTL DEF Spec
-----------------------------------------------------------------------------
(* The copies that a call of Link is going to remove, and the calls of     *)
(* Other that are going to leave one.                                      *)
Owns(p) == call[p].pc \in {"answer", "lookup", "url", "remove"} /\ ~call[p].other
Owned == {c \in Copies : \E p \in Calls : Owns(p) /\ call[p].copy = c}
Making == {p \in Calls : call[p].pc = "copy" /\ call[p].other}

(* Every other copy has been paid for. *)
Account == IsFiniteSet(drive) /\ Cardinality(drive \ Owned) + Cardinality(Making) <= paid

(* The account after a step: nothing new to pay, or one thing and one more *)
(* paid, or what a call was making is there.                               *)
Settles(D, E, M, N, m, n) ==
    \E c, p :
        \/ E \subseteq D /\ N \subseteq M /\ m <= n
        \/ E \subseteq D \cup {c} /\ N \subseteq M /\ m + 1 <= n
        \/ E \subseteq D /\ N \subseteq M \cup {p} /\ m + 1 <= n
        \/ E \subseteq D \cup {c} /\ N \subseteq M \ {p} /\ p \in M /\ m <= n

(* One element more. *)
LEMMA OneElement ==
    ASSUME NEW S, IsFiniteSet(S), NEW x
    PROVE  /\ IsFiniteSet(S \cup {x}) /\ Cardinality(S \cup {x}) \in Nat
           /\ Cardinality(S \cup {x}) <= Cardinality(S) + 1
<1>1. IsFiniteSet(S \cup {x})
  BY FS_AddElement
<1>2. Cardinality(S \cup {x}) = Cardinality(S) \/ Cardinality(S \cup {x}) = Cardinality(S) + 1
  BY FS_AddElement
<1> QED
  BY <1>1, <1>2, FS_CardinalityType

(* Then it is still in order. *)
LEMMA Counting ==
    ASSUME NEW D, NEW E, NEW M \in SUBSET Calls, NEW N \in SUBSET Calls, NEW m \in Nat, NEW n \in Nat,
           IsFiniteSet(D), Cardinality(D) + Cardinality(M) <= m, Settles(D, E, M, N, m, n)
    PROVE  IsFiniteSet(E) /\ Cardinality(E) + Cardinality(N) <= n
<1>1. /\ IsFiniteSet(M) /\ Cardinality(M) \in Nat /\ Cardinality(D) \in Nat
  BY FS_Subset, FS_CardinalityType, ShareAssumption
<1>0. PICK c, p :
           \/ E \subseteq D /\ N \subseteq M /\ m <= n
           \/ E \subseteq D \cup {c} /\ N \subseteq M /\ m + 1 <= n
           \/ E \subseteq D /\ N \subseteq M \cup {p} /\ m + 1 <= n
           \/ E \subseteq D \cup {c} /\ N \subseteq M \ {p} /\ p \in M /\ m <= n
  BY DEF Settles
<1>2. /\ IsFiniteSet(D \cup {c}) /\ Cardinality(D \cup {c}) \in Nat
      /\ Cardinality(D \cup {c}) <= Cardinality(D) + 1
  BY <1>1, OneElement
<1>3. /\ IsFiniteSet(M \cup {p}) /\ Cardinality(M \cup {p}) \in Nat
      /\ Cardinality(M \cup {p}) <= Cardinality(M) + 1
  BY <1>1, OneElement
<1>4. /\ IsFiniteSet(M \ {p})
      /\ p \in M => Cardinality(M \ {p}) = Cardinality(M) - 1
  BY FS_RemoveElement, <1>1
<1>5. IsFiniteSet(E) /\ Cardinality(E) \in Nat /\ IsFiniteSet(N) /\ Cardinality(N) \in Nat
  <2>1. E \subseteq D \cup {c}
    BY <1>0
  <2>2. IsFiniteSet(E)
    BY <1>2, <2>1, FS_Subset
  <2>3. IsFiniteSet(N)
    BY FS_Subset, ShareAssumption
  <2> QED
    BY <2>2, <2>3, FS_CardinalityType
<1>6. /\ E \subseteq D => Cardinality(E) <= Cardinality(D)
      /\ E \subseteq D \cup {c} => Cardinality(E) <= Cardinality(D) + 1
  <2>1. E \subseteq D => Cardinality(E) <= Cardinality(D)
    BY <1>1, FS_Subset
  <2>2. E \subseteq D \cup {c} => Cardinality(E) <= Cardinality(D \cup {c})
    BY <1>2, FS_Subset
  <2> QED
    BY <1>1, <1>2, <1>5, <2>1, <2>2
<1>7. /\ N \subseteq M => Cardinality(N) <= Cardinality(M)
      /\ N \subseteq M \cup {p} => Cardinality(N) <= Cardinality(M) + 1
      /\ N \subseteq M \ {p} /\ p \in M => Cardinality(N) <= Cardinality(M) - 1
  <2>1. N \subseteq M => Cardinality(N) <= Cardinality(M)
    BY <1>1, FS_Subset
  <2>2. N \subseteq M \cup {p} => Cardinality(N) <= Cardinality(M \cup {p})
    BY <1>3, FS_Subset
  <2>3. N \subseteq M \ {p} => Cardinality(N) <= Cardinality(M \ {p})
    BY <1>4, FS_Subset
  <2> QED
    BY <1>1, <1>3, <1>4, <1>5, <2>1, <2>2, <2>3
<1> QED
  BY <1>0, <1>1, <1>5, <1>6, <1>7

(* The account after a step of p. *)
LEMMA AccountStep ==
    ASSUME LInv, Account, paid' \in Nat, NEW p \in Calls, NEW r,
           call'[p] = r, \A q \in Calls \ {p} : call'[q] = call[q],
           NEW c,
           \/ /\ drive' \subseteq drive \cup {c} /\ ~Owns(p)
              /\ r.pc = "answer" /\ r.copy = c /\ c \in Copies
              /\ paid <= paid'
              /\ call[p].pc = "copy" /\ (r.other <=> call[p].other)
           \/ /\ drive' \subseteq drive /\ paid <= paid'
              /\ r.pc # "copy" \/ ~r.other \/ p \in Making
              /\ \/ ~Owns(p)
                 \/ r.pc \in {"lookup", "url", "remove"} /\ ~r.other /\ r.copy = call[p].copy
                 \/ call[p].copy \notin drive'
           \/ /\ drive' \subseteq drive /\ paid + 1 <= paid'
              /\ r.pc # "copy" \/ ~r.other \/ ~Owns(p)
    PROVE  Account'
<1>1. /\ \A z \in Owned : z \in Owned' \/ (Owns(p) /\ call[p].copy = z)
      /\ ~Owns(p) \/ (r.pc \in {"lookup", "url", "remove"} /\ ~r.other /\ r.copy = call[p].copy)
           => Owned \subseteq Owned'
      /\ r.pc = "answer" /\ ~r.other /\ r.copy \in Copies => r.copy \in Owned'
  BY DEF Owned, Owns
<1>2. /\ Making' \subseteq Making \cup {p}
      /\ r.pc # "copy" \/ ~r.other => Making' \subseteq Making \ {p}
      /\ p \in Making <=> (call[p].pc = "copy" /\ call[p].other)
      /\ Making \in SUBSET Calls /\ Making' \in SUBSET Calls
  BY DEF Making
<1>3. /\ IsFiniteSet(drive \ Owned) /\ IsFiniteSet(drive)
      /\ Cardinality(drive \ Owned) + Cardinality(Making) <= paid
      /\ paid \in Nat
  BY FS_Subset DEF Account, LInv, Types
<1>4. IsFiniteSet(drive')
  <2>1. drive' \subseteq drive \cup {c} \/ drive' \subseteq drive
    OBVIOUS
  <2>2. IsFiniteSet(drive \cup {c})
    BY <1>3, FS_AddElement
  <2> QED
    BY <1>3, <2>1, <2>2, FS_Subset
<1>5. \E z, q :
        \/ drive' \ Owned' \subseteq drive \ Owned /\ Making' \subseteq Making /\ paid <= paid'
        \/ drive' \ Owned' \subseteq (drive \ Owned) \cup {z} /\ Making' \subseteq Making /\ paid + 1 <= paid'
        \/ drive' \ Owned' \subseteq drive \ Owned /\ Making' \subseteq Making \cup {q} /\ paid + 1 <= paid'
        \/ /\ drive' \ Owned' \subseteq (drive \ Owned) \cup {z}
           /\ Making' \subseteq Making \ {q} /\ q \in Making /\ paid <= paid'
  <2>1. CASE /\ drive' \subseteq drive \cup {c} /\ ~Owns(p)
             /\ r.pc = "answer" /\ r.copy = c /\ c \in Copies
             /\ paid <= paid'
             /\ call[p].pc = "copy" /\ (r.other <=> call[p].other)
    <3>1. CASE r.other
      <4>1. drive' \ Owned' \subseteq (drive \ Owned) \cup {c}
        BY <1>1, <2>1
      <4>2. Making' \subseteq Making \ {p} /\ p \in Making
        BY <1>2, <2>1, <3>1
      <4> QED
        BY <2>1, <4>1, <4>2
    <3>2. CASE ~r.other
      <4>1. drive' \ Owned' \subseteq drive \ Owned
        BY <1>1, <2>1, <3>2
      <4>2. Making' \subseteq Making
        BY <1>2, <2>1
      <4> QED
        BY <2>1, <4>1, <4>2
    <3> QED
      BY <3>1, <3>2
  <2>2. CASE /\ drive' \subseteq drive /\ paid <= paid'
             /\ r.pc # "copy" \/ ~r.other \/ p \in Making
             /\ \/ ~Owns(p)
                \/ r.pc \in {"lookup", "url", "remove"} /\ ~r.other /\ r.copy = call[p].copy
                \/ call[p].copy \notin drive'
    <3>1. drive' \ Owned' \subseteq drive \ Owned
      BY <1>1, <2>2
    <3>2. Making' \subseteq Making
      BY <1>2, <2>2
    <3> QED
      BY <2>2, <3>1, <3>2
  <2>3. CASE /\ drive' \subseteq drive /\ paid + 1 <= paid'
             /\ r.pc # "copy" \/ ~r.other \/ ~Owns(p)
    <3>1. drive' \ Owned' \subseteq (drive \ Owned) \cup {call[p].copy}
      BY <1>1, <2>3
    <3>2. CASE r.pc # "copy" \/ ~r.other
      <4>1. Making' \subseteq Making
        BY <1>2, <3>2
      <4> QED
        BY <2>3, <3>1, <4>1
    <3>3. CASE ~Owns(p)
      <4>1. drive' \ Owned' \subseteq drive \ Owned
        BY <1>1, <2>3, <3>3
      <4> QED
        BY <1>2, <2>3, <4>1
    <3> QED
      BY <2>3, <3>2, <3>3
  <2> QED
    BY <2>1, <2>2, <2>3
<1>6. IsFiniteSet(drive' \ Owned') /\ Cardinality(drive' \ Owned') + Cardinality(Making') <= paid'
  <2>1. PICK D, E, M, N, m, n :
          /\ D = drive \ Owned /\ E = drive' \ Owned' /\ M = Making /\ N = Making'
          /\ m = paid /\ n = paid'
    OBVIOUS
  <2>2. /\ M \in SUBSET Calls /\ N \in SUBSET Calls /\ m \in Nat /\ n \in Nat
        /\ IsFiniteSet(D) /\ Cardinality(D) + Cardinality(M) <= m
    BY <1>2, <1>3, <2>1
  <2>3. Settles(D, E, M, N, m, n)
    BY <1>5, <2>1, Zenon DEF Settles
  <2>4. IsFiniteSet(E) /\ Cardinality(E) + Cardinality(N) <= n
    BY <2>2, <2>3, Counting
  <2> QED
    BY <2>1, <2>4
<1> QED
  BY <1>4, <1>6 DEF Account

(* The copies that calls are responsible for are no more than the calls    *)
(* that have one (Crash).                                                  *)
LEMMA OwnedFew ==
    ASSUME LInv
    PROVE  /\ IsFiniteSet(Owned)
           /\ Cardinality(Owned) <= Cardinality({p \in Calls : Holds(p) # 0})
           /\ Cardinality({p \in Calls : Holds(p) # 0}) \in Nat
<1> DEFINE H == {p \in Calls : Holds(p) # 0}
           O == {p \in Calls : Owns(p)}
           f == [p \in O |-> call[p].copy]
<1>1. IsFiniteSet(H) /\ IsFiniteSet(O) /\ Cardinality(H) \in Nat
  BY FS_Subset, FS_CardinalityType, ShareAssumption
<1>2. ASSUME NEW p \in O PROVE p \in H /\ call[p].copy \in Copies
  <2>1. call[p].pc # "idle" /\ call[p].pc # "copy"
    BY <1>2 DEF Owns
  <2> QED
    BY <1>2, <2>1, NotIdle DEF LInv, HaveCopy
<1>3. Cardinality(O) <= Cardinality(H)
  BY <1>1, <1>2, FS_Subset
<1>4. f \in Surjection(O, Owned)
  <2>1. \A p \in O : call[p].copy \in Owned
    BY <1>2 DEF Owned
  <2>2. f \in [O -> Owned]
    BY <2>1
  <2>3. \A c \in Owned : \E p \in O : f[p] = c
    BY DEF Owned
  <2> QED
    BY <2>2, <2>3 DEF Surjection
<1> HIDE DEF f, O
<1>5. IsFiniteSet(Owned) /\ Cardinality(Owned) <= Cardinality(O)
  BY <1>1, <1>4, FS_Surjection
<1> HIDE DEF H
<1>6. Cardinality(O) \in Nat /\ Cardinality(Owned) \in Nat
  BY <1>1, <1>5, FS_CardinalityType
<1>7. Cardinality(Owned) <= Cardinality(H)
  BY <1>1, <1>3, <1>5, <1>6
<1> QED
  BY <1>1, <1>5, <1>7 DEF H

(* A crash loses the calls, and pays for each that had a copy (Crash). *)
LEMMA AccountCrash ==
    ASSUME LInv, Account, Crash
    PROVE  Account'
<1>1. PICK n : n = Cardinality({p \in Calls : Holds(p) # 0})
  BY Zenon
<1>2. paid' = paid + n /\ drive' = drive /\ call' = [p \in Calls |-> Idle]
  BY <1>1 DEF Crash
<1>3. IsFiniteSet(Owned) /\ Cardinality(Owned) <= n /\ n \in Nat
  BY <1>1, OwnedFew
<1>4. Owned' = {} /\ Making' = {}
  BY <1>2, IdleIsIdle DEF Owned, Owns, Making
<1>5. drive' \ Owned' = drive
  BY <1>2, <1>4
<1>6. IsFiniteSet(drive) /\ IsFiniteSet(drive \ Owned) /\ paid \in Nat
  BY FS_Subset DEF Account, LInv, Types
<1>7. Cardinality(drive) <= Cardinality(drive \ Owned) + Cardinality(Owned)
  <2>1. Cardinality((drive \ Owned) \cup Owned) =
          Cardinality(drive \ Owned) + Cardinality(Owned) - Cardinality((drive \ Owned) \cap Owned)
    BY <1>3, <1>6, FS_Union
  <2>2. (drive \ Owned) \cap Owned = {} /\ drive \subseteq (drive \ Owned) \cup Owned
    OBVIOUS
  <2>3. IsFiniteSet((drive \ Owned) \cup Owned)
    BY <1>3, <1>6, FS_Union
  <2>4. Cardinality(drive) <= Cardinality((drive \ Owned) \cup Owned)
    BY <2>2, <2>3, FS_Subset
  <2>5. Cardinality((drive \ Owned) \cap Owned) = 0
    BY <2>2, FS_EmptySet
  <2>6. Cardinality(drive \ Owned) \in Nat /\ Cardinality(Owned) \in Nat
    BY <1>3, <1>6, FS_CardinalityType
  <2> QED
    BY <2>1, <2>4, <2>5, <2>6
<1>8. Cardinality(Making') = 0
  BY <1>4, FS_EmptySet
<1>9. /\ Cardinality(drive \ Owned) + Cardinality(Making) <= paid
      /\ Cardinality(Making) \in Nat /\ Cardinality(drive \ Owned) \in Nat
      /\ Cardinality(drive) \in Nat /\ Cardinality(Owned) \in Nat
  <2>1. IsFiniteSet(Making)
    BY FS_Subset, ShareAssumption DEF Making
  <2> QED
    BY <1>3, <1>6, <2>1, FS_CardinalityType DEF Account
<1>10. Cardinality(drive) + 0 <= paid + n
  BY <1>3, <1>6, <1>7, <1>9
<1>11. Cardinality(drive' \ Owned') + Cardinality(Making') <= paid'
  BY <1>2, <1>5, <1>8, <1>10
<1> QED
  BY <1>2, <1>6, <1>11 DEF Account

(* Every step keeps the account. *)
LEMMA AccountNext == LInv /\ Account /\ [Next]_vars => Account'
<1> SUFFICES ASSUME LInv, Account, [Next]_vars PROVE Account'
  OBVIOUS
<1>t. Types /\ Types' /\ paid \in Nat /\ paid' \in Nat
  BY TypeStep DEF LInv, Types
<1>1. ASSUME NEW p \in Calls, Asks(p) PROVE Account'
  <2>1. PICK f \in Files, other \in BOOLEAN : Begin(p, f, other)
    BY <1>1 DEF Asks
  <2>2. /\ call[p].pc = "idle" /\ UNCHANGED drive
        /\ other => paid' = paid + 1
        /\ ~other => paid' = paid
    BY <2>1 DEF Begin, Busy
  <2>3. paid <= paid' /\ ~Owns(p)
    BY <1>t, <2>2 DEF Owns
  <2>4. CASE UNCHANGED call
    <3>1. call'[p] = call[p] /\ \A q \in Calls \ {p} : call'[q] = call[q]
      BY <2>4
    <3> QED
      BY <1>t, <2>2, <2>3, <3>1, AccountStep
  <2>5. CASE ~UNCHANGED call
    <3>1. PICK c \in CallRecords : Becomes(p, c) /\ (c.other <=> other)
      BY <1>t, <2>1, <2>5, BeginFacts
    <3>2. call'[p] = c /\ \A q \in Calls \ {p} : call'[q] = call[q]
      BY <1>t, <3>1, OneCall
    <3>3. CASE other
      <4>1. paid + 1 <= paid'
        BY <1>t, <2>2, <3>3
      <4> QED
        BY <1>t, <2>2, <2>3, <3>2, <4>1, AccountStep
    <3>4. CASE ~other
      BY <1>t, <2>2, <2>3, <3>1, <3>2, <3>4, AccountStep
    <3> QED
      BY <3>3, <3>4
  <2> QED
    BY <2>4, <2>5
<1>2. ASSUME NEW p \in Calls, Advance(p) PROVE Account'
  <2>1. CASE MakeCopy(p)
    <3>1. PICK z, r :
            /\ z \in Copies
            /\ drive' = drive \cup {z} /\ Moves(p, r, "answer") /\ r.copy = z
      BY <1>t, <2>1, MakeCopyFacts
    <3>2. /\ call'[p] = r /\ \A q \in Calls \ {p} : call'[q] = call[q]
          /\ r.pc = "answer" /\ (r.other <=> call[p].other)
      BY <1>t, <3>1, MovesType DEF Moves
    <3>3. call[p].pc = "copy" /\ paid' = paid /\ ~Owns(p)
      BY <2>1 DEF MakeCopy, Owns
    <3>4. paid <= paid'
      BY <1>t, <3>3
    <3> QED
      BY <1>t, <3>1, <3>2, <3>3, <3>4, AccountStep
  <2>2. CASE CopyMade(p)
    <3>1. PICK r : Keeps(p, r, IF call[p].other THEN "preview" ELSE "lookup")
      BY <1>t, <2>2, CopyMadeFacts
    <3>2. /\ call'[p] = r /\ \A q \in Calls \ {p} : call'[q] = call[q]
          /\ r.pc = IF call[p].other THEN "preview" ELSE "lookup"
          /\ r.copy = call[p].copy /\ (r.other <=> call[p].other)
      BY <1>t, <3>1, MovesType DEF Moves, Keeps
    <3>3. drive' \subseteq drive /\ paid' = paid
      BY <2>2 DEF CopyMade
    <3>4. paid <= paid'
      BY <1>t, <3>3
    <3>5. ~Owns(p) \/ (r.pc \in {"lookup", "url", "remove"} /\ ~r.other /\ r.copy = call[p].copy)
      BY <3>2 DEF Owns
    <3> QED
      BY <1>t, <3>2, <3>3, <3>4, <3>5, AccountStep
  <2>3. CASE CopyFails(p) \/ NoId(p)
    <3>1. /\ call[p].pc \in {"copy", "answer"} /\ drive' \subseteq drive
          /\ paid' = paid + Made(p)
      BY <2>3 DEF CopyFails, NoId
    <3>2. Ends(p) \/ \E c : Moves(p, c, "copy") /\ c.copy = 0
      BY <1>t, <2>3, NoIdFacts DEF CopyFails
    <3>3. PICK r : /\ call'[p] = r /\ \A q \in Calls \ {p} : call'[q] = call[q]
                   /\ r.pc = "idle" \/ (r.pc = "copy" /\ (r.other <=> call[p].other))
      BY <1>t, <3>2, EndsType, MovesType, IdleIsIdle DEF Moves
    <3>4. CASE call[p].pc = "copy"
      <4>1. paid <= paid' /\ ~Owns(p)
        BY <1>t, <3>1, <3>4 DEF Made, Owns
      <4>2. r.pc # "copy" \/ ~r.other \/ p \in Making
        BY <3>3, <3>4 DEF Making
      <4> QED
        BY <1>t, <3>1, <3>3, <4>1, <4>2, AccountStep
    <3>5. CASE call[p].pc = "answer"
      <4>1. paid + 1 <= paid'
        BY <1>t, <3>1, <3>5 DEF Made
      <4>2. r.pc # "copy" \/ ~r.other \/ ~Owns(p)
        BY <3>3 DEF Owns
      <4> QED
        BY <1>t, <3>1, <3>3, <4>1, <4>2, AccountStep
    <3> QED
      BY <3>1, <3>4, <3>5
  <2>4. CASE IdElsewhere(p)
    <3>1. Ends(p) /\ drive' \subseteq drive /\ paid' = paid + 1
      BY <2>4 DEF IdElsewhere
    <3>2. PICK r : /\ call'[p] = r /\ r.pc # "copy" /\ \A q \in Calls \ {p} : call'[q] = call[q]
      BY <1>t, <3>1, EndsType, IdleIsIdle
    <3>3. paid + 1 <= paid'
      BY <1>t, <3>1
    <3>4. r.pc # "copy" \/ ~r.other \/ ~Owns(p)
      BY <3>2, Zenon
    <3> QED
      BY <1>t, <3>1, <3>2, <3>3, <3>4, AccountStep
  <2>5. CASE Lookup(p) \/ GetUrl(p) \/ UrlFails(p)
    <3>1. PICK r, x : Moves(p, r, x) /\ r.copy = call[p].copy /\ x \in {"url", "remove"}
      BY <1>t, <2>5, LookupFacts, GetUrlFacts, UrlFailsFacts DEF Keeps
    <3>2. /\ call'[p] = r /\ \A q \in Calls \ {p} : call'[q] = call[q]
          /\ r.pc \in {"url", "remove"} /\ (r.other <=> call[p].other)
      BY <1>t, <3>1, MovesType DEF Moves
    <3>3. drive' \subseteq drive /\ paid' = paid
      BY <2>5 DEF Lookup, GetUrl, UrlFails
    <3>4. paid <= paid'
      BY <1>t, <3>3
    <3>5. ~Owns(p) \/ (r.pc \in {"lookup", "url", "remove"} /\ ~r.other /\ r.copy = call[p].copy)
      BY <3>1, <3>2 DEF Owns
    <3> QED
      BY <1>t, <3>2, <3>3, <3>4, <3>5, AccountStep
  <2>6. CASE RemoveCopy(p)
    <3>1. PICK r : Keeps(p, r, "save")
      BY <1>t, <2>6, RemoveCopyFacts
    <3>2. /\ call'[p] = r /\ r.pc # "copy" /\ \A q \in Calls \ {p} : call'[q] = call[q]
      BY <1>t, <3>1, MovesType DEF Moves, Keeps
    <3>3. CASE drive' = drive \ {call[p].copy} /\ paid' = paid
      <4>a. drive' \subseteq drive /\ paid <= paid'
        BY <1>t, <3>3
      <4>b. r.pc # "copy" \/ ~r.other \/ p \in Making
        BY <3>2, Zenon
      <4>1. drive' \subseteq drive /\ paid <= paid' /\ (r.pc # "copy" \/ ~r.other \/ p \in Making)
        BY <4>a, <4>b, Zenon
      <4>2. \/ ~Owns(p)
            \/ r.pc \in {"lookup", "url", "remove"} /\ ~r.other /\ r.copy = call[p].copy
            \/ call[p].copy \notin drive'
        BY <3>3
      <4> QED
        BY <1>t, <3>2, <4>1, <4>2, AccountStep
    <3>4. CASE drive' = drive /\ paid' = paid + 1
      <4>a. drive' \subseteq drive /\ paid + 1 <= paid'
        BY <1>t, <3>4
      <4>b. r.pc # "copy" \/ ~r.other \/ ~Owns(p)
        BY <3>2, Zenon
      <4>1. drive' \subseteq drive /\ paid + 1 <= paid' /\ (r.pc # "copy" \/ ~r.other \/ ~Owns(p))
        BY <4>a, <4>b, Zenon
      <4> QED
        BY <1>t, <3>2, <4>1, AccountStep
    <3> QED
      BY <2>6, <3>3, <3>4 DEF RemoveCopy, Removed
  <2>7. CASE Save(p) \/ Preview(p)
    <3>1. Ends(p) /\ drive' \subseteq drive /\ paid' = paid /\ ~Owns(p)
      BY <2>7 DEF Save, Preview, Owns
    <3>2. PICK r : /\ call'[p] = r /\ r.pc # "copy" /\ \A q \in Calls \ {p} : call'[q] = call[q]
      BY <1>t, <3>1, EndsType, IdleIsIdle
    <3>3. paid <= paid'
      BY <1>t, <3>1
    <3>4. r.pc # "copy" \/ ~r.other \/ p \in Making
      BY <3>2, Zenon
    <3> QED
      BY <1>t, <3>1, <3>2, <3>3, <3>4, AccountStep
  <2> QED
    BY <1>2, <2>1, <2>2, <2>3, <2>4, <2>5, <2>6, <2>7 DEF Advance
<1>3. CASE UNCHANGED <<drive, call, paid>>
  BY <1>3 DEF Account, Owned, Owns, Making
<1>4. CASE Crash
  BY <1>4, AccountCrash
<1> QED
  BY <1>1, <1>2, <1>3, <1>4 DEF Next, vars, LinkElsewhere, Cron2, Cron3

(* At the start there is no copy and nothing is paid. *)
LEMMA AccountInit == Init => Account
<1> SUFFICES ASSUME Init PROVE Account
  OBVIOUS
<1>1. \A p \in Calls : call[p].pc = "idle"
  BY IdleIsIdle DEF Init
<1>2. drive = {} /\ Making = {} /\ drive \ Owned = {} /\ paid = 0
  BY <1>1 DEF Init, Making
<1>3. IsFiniteSet(drive) /\ Cardinality(drive \ Owned) = 0 /\ Cardinality(Making) = 0
  BY <1>2, FS_EmptySet
<1> QED
  BY <1>2, <1>3 DEF Account

(* The variables keep their types. *)
THEOREM TypeCorrect == Spec => []TypeOK
<1>1. LInv => TypeOK
  BY TypeFold DEF LInv
<1> QED
  BY <1>1, Invariance, PTL

(* Whatever calls overlap, whatever the cron jobs clear under them and     *)
(* whatever fails: each copy that nobody will ever remove is paid for by a *)
(* fault or a call of Other (Link, GetmyLink, Remove).                     *)
THEOREM LinkCleansUp == Spec => []StraysPaid
<1>1. LInv /\ Account => StraysPaid
  <2> SUFFICES ASSUME LInv, Account PROVE StraysPaid
    OBVIOUS
  <2>1. Owned \subseteq {Holds(p) : p \in Calls}
    BY NotIdle DEF LInv, Owned, Owns
  <2>2. Strays \subseteq drive \ Owned
    BY <2>1 DEF Strays
  <2>3. IsFiniteSet(drive \ Owned) /\ IsFiniteSet(Making)
    BY FS_Subset, ShareAssumption DEF Account, Making
  <2>4. IsFiniteSet(Strays) /\ Cardinality(Strays) <= Cardinality(drive \ Owned)
    BY <2>2, <2>3, FS_Subset
  <2>5. Cardinality(Strays) \in Nat /\ Cardinality(drive \ Owned) \in Nat /\ Cardinality(Making) \in Nat
    BY <2>3, <2>4, FS_CardinalityType
  <2>6. Cardinality(drive \ Owned) + Cardinality(Making) <= paid /\ paid \in Nat
    BY DEF Account, LInv, Types
  <2> QED
    BY <2>4, <2>5, <2>6 DEF StraysPaid
<1> QED
  BY <1>1, Invariance, AccountInit, AccountNext, PTL DEF Spec

(* When no call is under way, every remembered copy without a link is      *)
(* there, or its URL is known, or the service refused its URL Tries times  *)
(* (Link, cron2, cron3).                                                   *)
THEOREM LinksWork == Spec => []QuietLinksWork
<1>1. LInv => QuietLinksWork
  BY DEF LInv, Linked, QuietLinksWork
<1> QED
  BY <1>1, Invariance, PTL
-----------------------------------------------------------------------------
Live == [pc : {"enter", "sync", "sleep"}, obj : Objects, loops : BOOLEAN]

(* Where doSync returns to is again a goroutine's state, and not in doSync *)
(* (AfterSync).                                                            *)
LEMMA AfterSyncType ==
    ASSUME LifecycleTypeOK, NEW t \in Threads, thread[t] # Unused
    PROVE  /\ AfterSync(t) \in Live \cup {Unused}
           /\ AfterSync(t).pc # "sync"
<1>1. thread[t] \in Live
  BY DEF LifecycleTypeOK, Live
<1>2. /\ [thread[t] EXCEPT !.pc = "sleep"] \in Live
      /\ [thread[t] EXCEPT !.pc = "sleep"].pc = "sleep"
  BY <1>1 DEF Live
<1>3. Unused.pc = "unused"
  BY DEF Unused
<1> QED
  BY <1>2, <1>3 DEF AfterSync

(* A go statement keeps the type and puts nobody in doSync (Go, used by    *)
(* Init of the driver and by Other("sync")).                               *)
LEMMA GoKeeps ==
    ASSUME LifecycleTypeOK, OnePassPerObject,
           NEW o \in Objects, NEW loops \in BOOLEAN, Go(o, loops), UNCHANGED running
    PROVE  /\ thread' \in [Threads -> Live \cup {Unused}]
           /\ OnePassPerObject'
<1>1. PICK t \in Threads :
          /\ thread[t] = Unused
          /\ thread' = [thread EXCEPT ![t] = [pc |-> "enter", obj |-> o, loops |-> loops]]
  BY DEF Go
<1>2. [pc |-> "enter", obj |-> o, loops |-> loops] \in Live
  BY DEF Live
<1>3. thread \in [Threads -> Live \cup {Unused}]
  BY DEF LifecycleTypeOK, Live
<1>4. thread' \in [Threads -> Live \cup {Unused}]
  BY <1>1, <1>2, <1>3
<1>5. Syncing' = Syncing /\ \A u \in Syncing : thread'[u] = thread[u]
  BY <1>1, <1>3 DEF Syncing, Unused
<1> QED
  BY <1>4, <1>5 DEF OnePassPerObject, Syncing

(* initStorage keeps both (InitStorage).                                   *)
LEMMA InitStorageKeeps ==
    ASSUME LifecycleTypeOK, OnePassPerObject, NEW o \in Objects, InitStorage(o)
    PROVE  /\ mounted' \in Objects
           /\ thread' \in [Threads -> Live \cup {Unused}]
           /\ running' = running
           /\ OnePassPerObject'
<1>1. CASE Go(o, TRUE)
  BY <1>1, GoKeeps DEF InitStorage
<1>2. CASE UNCHANGED thread
  BY <1>2 DEF InitStorage, LifecycleTypeOK, Live, OnePassPerObject, Syncing
<1> QED
  BY <1>1, <1>2 DEF InitStorage

(* Every step keeps both: EnterSync finds the flag clear only when nobody  *)
(* is in, and LeaveSync clears the flag of the only one that is.           *)
LEMMA PassStep ==
    LifecycleTypeOK /\ OnePassPerObject /\ [LifecycleNext]_lifecycleVars => LifecycleTypeOK' /\ OnePassPerObject'
<1> SUFFICES ASSUME LifecycleTypeOK, OnePassPerObject, [LifecycleNext]_lifecycleVars
             PROVE  LifecycleTypeOK' /\ OnePassPerObject'
  OBVIOUS
<1> USE DEF Live
<1>t. thread \in [Threads -> Live \cup {Unused}]
  BY DEF LifecycleTypeOK
<1>1. CASE CreateStorage \/ EnableStorage \/ StartUp
  <2>1. PICK o \in fresh : InitStorage(o) /\ fresh' = fresh \ {o} /\ row' = "enabled"
    BY <1>1 DEF CreateStorage, EnableStorage, StartUp, LoadStorage
  <2>2. o \in Objects
    BY DEF LifecycleTypeOK
  <2>3. /\ mounted' \in Objects
        /\ thread' \in [Threads -> Live \cup {Unused}]
        /\ running' = running
        /\ OnePassPerObject'
    BY <2>1, <2>2, InitStorageKeeps
  <2> QED
    BY <2>1, <2>3 DEF LifecycleTypeOK
<1>2. CASE DisableStorage
  BY <1>2 DEF DisableStorage, LifecycleTypeOK, OnePassPerObject, Syncing
<1>3. CASE UpdateStorage
  <2>1. CASE UNCHANGED <<mounted, running, thread>>
    BY <1>3, <2>1 DEF UpdateStorage, LifecycleTypeOK, OnePassPerObject, Syncing
  <2>2. CASE mounted # NoObject /\ InitStorage(mounted)
    <3>1. mounted \in Objects
      BY <2>2 DEF LifecycleTypeOK
    <3>2. /\ mounted' \in Objects
          /\ thread' \in [Threads -> Live \cup {Unused}]
          /\ running' = running
          /\ OnePassPerObject'
      BY <2>2, <3>1, InitStorageKeeps
    <3>3. row' \in {"enabled", "disabled"} /\ fresh' = fresh
      BY <1>3 DEF UpdateStorage
    <3> QED
      BY <3>2, <3>3 DEF LifecycleTypeOK
  <2> QED
    BY <1>3, <2>1, <2>2 DEF UpdateStorage
<1>4. CASE DeleteStorage
  BY <1>4 DEF DeleteStorage, LifecycleTypeOK, OnePassPerObject, Syncing
<1>5. CASE SyncRequest
  <2>1. mounted \in Objects
    BY <1>5 DEF SyncRequest, LifecycleTypeOK
  <2>2. /\ thread' \in [Threads -> Live \cup {Unused}]
        /\ OnePassPerObject'
    BY <1>5, <2>1, GoKeeps DEF SyncRequest
  <2> QED
    BY <1>5, <2>2 DEF SyncRequest, LifecycleTypeOK
<1>6. CASE ProcessEnds
  <2>1. /\ thread' \in [Threads -> Live \cup {Unused}]
        /\ running' \in [Objects -> BOOLEAN]
        /\ Syncing' = {}
    BY <1>6 DEF ProcessEnds, Syncing, Unused
  <2>2. \A o \in Objects : running'[o] = FALSE
    BY <1>6 DEF ProcessEnds
  <2>3. OnePassPerObject'
    BY <2>1, <2>2 DEF OnePassPerObject
  <2> QED
    BY <1>6, <2>1, <2>3 DEF ProcessEnds, LifecycleTypeOK
<1>7. ASSUME NEW t \in Threads, Run(t)
      PROVE  LifecycleTypeOK' /\ OnePassPerObject'
  <2>1. thread[t] # Unused
    BY <1>7 DEF Run, EnterSync, LeaveSync, WakeUp, Unused
  <2>2. thread[t] \in Live
    BY <2>1, <1>t
  <2>3. /\ AfterSync(t) \in Live \cup {Unused}
        /\ AfterSync(t).pc # "sync"
    BY <2>1, AfterSyncType
  <2>4. UNCHANGED <<row, mounted, fresh>>
    BY <1>7 DEF Run, EnterSync, LeaveSync, WakeUp
  <2>5. CASE EnterSync(t) /\ running[thread[t].obj]
    <3>1. thread' = [thread EXCEPT ![t] = AfterSync(t)] /\ running' = running
      BY <2>5 DEF EnterSync
    <3>2. thread' \in [Threads -> Live \cup {Unused}]
      BY <3>1, <2>3, <1>t
    <3>3. Syncing' = Syncing /\ \A u \in Syncing : thread'[u] = thread[u]
      BY <2>5, <3>1, <2>3, <1>t DEF EnterSync, Syncing
    <3> QED
      BY <2>4, <3>1, <3>2, <3>3 DEF LifecycleTypeOK, OnePassPerObject, Syncing
  <2>6. CASE EnterSync(t) /\ ~running[thread[t].obj]
    <3> DEFINE o == thread[t].obj
    <3>1. /\ thread' = [thread EXCEPT ![t].pc = "sync"]
          /\ running' = [running EXCEPT ![o] = TRUE]
      BY <2>6 DEF EnterSync
    <3>2. /\ thread' \in [Threads -> Live \cup {Unused}]
          /\ \A u \in Threads : thread'[u].obj = thread[u].obj
      BY <3>1, <2>2, <1>t
    <3>3. Syncing' = Syncing \cup {t}
      BY <3>1, <2>2, <1>t DEF Syncing
    <3>4. \A u \in Syncing : thread[u].obj # o
      BY <2>6, <2>2 DEF OnePassPerObject
    <3>5. \A u, v \in Syncing' : thread'[u].obj = thread'[v].obj => u = v
      BY <3>2, <3>3, <3>4 DEF OnePassPerObject, Syncing
    <3>6. /\ running' \in [Objects -> BOOLEAN]
          /\ running'[o]
          /\ \A p \in Objects \ {o} : running'[p] = running[p]
      BY <3>1, <2>2 DEF LifecycleTypeOK
    <3>7. ASSUME NEW p \in Objects
          PROVE  running'[p] <=> \E u \in Syncing' : thread'[u].obj = p
      <4>1. CASE p = o
        BY <4>1, <3>2, <3>3, <3>6
      <4>2. CASE p # o
        <5>1. (\E u \in Syncing' : thread'[u].obj = p) <=> (\E u \in Syncing : thread[u].obj = p)
          BY <4>2, <3>2, <3>3 DEF Syncing
        <5> QED
          BY <4>2, <5>1, <3>6 DEF OnePassPerObject
      <4> QED
        BY <4>1, <4>2
    <3>8. OnePassPerObject'
      BY <3>5, <3>7 DEF OnePassPerObject
    <3> QED
      BY <2>4, <3>2, <3>6, <3>8 DEF LifecycleTypeOK
  <2>7. CASE LeaveSync(t)
    <3> DEFINE o == thread[t].obj
    <3>1. /\ thread[t].pc = "sync"
          /\ thread' = [thread EXCEPT ![t] = AfterSync(t)]
          /\ running' = [running EXCEPT ![o] = FALSE]
      BY <2>7 DEF LeaveSync
    <3>2. thread' \in [Threads -> Live \cup {Unused}]
      BY <3>1, <2>3, <1>t
    <3>3. /\ Syncing' = Syncing \ {t}
          /\ t \in Syncing
          /\ \A u \in Syncing' : thread'[u] = thread[u]
      BY <3>1, <2>3, <1>t DEF Syncing
    <3>4. \A u \in Syncing' : thread[u].obj # o
      BY <3>3 DEF OnePassPerObject
    <3>5. /\ running' \in [Objects -> BOOLEAN]
          /\ ~running'[o]
          /\ \A p \in Objects \ {o} : running'[p] = running[p]
      BY <3>1, <2>2 DEF LifecycleTypeOK
    <3>6. ASSUME NEW p \in Objects
          PROVE  running'[p] <=> \E u \in Syncing' : thread'[u].obj = p
      <4>1. CASE p = o
        BY <4>1, <3>3, <3>4, <3>5
      <4>2. CASE p # o
        <5>1. (\E u \in Syncing' : thread'[u].obj = p) <=> (\E u \in Syncing : thread[u].obj = p)
          BY <4>2, <3>3
        <5> QED
          BY <4>2, <5>1, <3>5 DEF OnePassPerObject
      <4> QED
        BY <4>1, <4>2
    <3>7. \A u, v \in Syncing' : thread'[u].obj = thread'[v].obj => u = v
      BY <3>3 DEF OnePassPerObject
    <3>8. OnePassPerObject'
      BY <3>6, <3>7 DEF OnePassPerObject
    <3> QED
      BY <2>4, <3>2, <3>5, <3>8 DEF LifecycleTypeOK
  <2>8. CASE WakeUp(t)
    <3>1. /\ thread[t].pc = "sleep"
          /\ thread' = [thread EXCEPT ![t].pc = "enter"]
          /\ running' = running
      BY <2>8 DEF WakeUp
    <3>2. thread' \in [Threads -> Live \cup {Unused}]
      BY <3>1, <2>2, <1>t
    <3>3. Syncing' = Syncing /\ \A u \in Syncing : thread'[u] = thread[u]
      BY <3>1, <2>2, <1>t DEF Syncing
    <3> QED
      BY <2>4, <3>1, <3>2, <3>3 DEF LifecycleTypeOK, OnePassPerObject, Syncing
  <2> QED
    BY <1>7, <2>5, <2>6, <2>7, <2>8 DEF Run
<1>8. CASE UNCHANGED lifecycleVars
  BY <1>8 DEF lifecycleVars, LifecycleTypeOK, OnePassPerObject, Syncing
<1> QED
  BY <1>1, <1>2, <1>3, <1>4, <1>5, <1>6, <1>7, <1>8 DEF LifecycleNext

(* Both hold at the start: there is no goroutine and no flag is set.       *)
LEMMA PassInit == LifecycleInit => LifecycleTypeOK /\ OnePassPerObject
<1> SUFFICES ASSUME LifecycleInit
             PROVE  LifecycleTypeOK /\ OnePassPerObject
  OBVIOUS
<1>1. LifecycleTypeOK
  BY DEF LifecycleInit, LifecycleTypeOK
<1>2. Syncing = {} /\ \A o \in Objects : running[o] = FALSE
  BY DEF LifecycleInit, Syncing, Unused
<1> QED
  BY <1>1, <1>2 DEF OnePassPerObject

(* The variables keep their types in every behaviour of DriverLifecycle.   *)
THEOREM LifeTypes == LifecycleSpec => []LifecycleTypeOK
<1> QED
  BY PassInit, PassStep, PTL DEF LifecycleSpec

(* However the mount is created, changed, disabled and deleted, and        *)
(* whoever asks for a pass: at most one goroutine is in doSync for each    *)
(* driver object, and syncRunning says whether one is.                     *)
THEOREM MutualExclusion == LifecycleSpec => []OnePassPerObject
<1> QED
  BY PassInit, PassStep, PTL DEF LifecycleSpec
-----------------------------------------------------------------------------
(* The steps as long as no body breaks off after its last byte.            *)
UsualWork(w) ==
    \/ Take(w) \/ Stop(w) \/ Respond(w) \/ FirstRefused(w) \/ LaterRefused(w) \/ GiveBack(w)
    \/ Write(w) \/ BodyEnds(w) \/ NextAttempt(w) \/ WriteFails(w) \/ RequestEnds(w)

UsualTrouble(w) == WrongSize(w) \/ RequestFails(w) \/ StatusError(w) \/ BodyBreaks(w)

UsualRead == ReadFails \/ ReadBytes \/ FinishBuf

UsualNext ==
    \/ \E w \in Workers : UsualWork(w) \/ UsualTrouble(w)
    \/ UsualRead \/ Close \/ ParentCancel

(* Another cause outside for the end of a download. *)
Cause == troubles.fatal > 0 \/ troubles.breaks + troubles.status > MaxRetries

(* What the proof needs of the types. *)
WorkerFields == {"pc", "ch", "retry", "n"}
LoadTypes ==
    /\ {"done", "err"} \subseteq DOMAIN d
    /\ troubles \in [status : Nat, breaks : Nat, late : Nat, fatal : Nat]
    /\ DOMAIN worker = Workers
    /\ \A w \in Workers :
          WorkerFields \subseteq DOMAIN worker[w] /\ worker[w].retry \in Nat

(* Each attempt of a worker that has failed, the one it is about to repeat *)
(* too, was refused or broke off. *)
AttemptsPaid ==
    \A w \in Workers :
        worker[w].retry + (IF worker[w].pc \in {"refused", "broken"} THEN 1 ELSE 0)
            <= troubles.breaks + troubles.status

(* The context ends with the reader, or for a cause. *)
DoneForCause ==
    /\ {"pc", "id", "buf", "got"} \subseteq DOMAIN reader
    /\ d.done => reader.pc = "closed" \/ Cause

FailedForCause == reader.pc = "failed" => Cause

LoadInv == LoadTypes /\ AttemptsPaid /\ DoneForCause /\ FailedForCause

(* A worker whose next state is r. *)
WorkerOK(r) ==
    /\ WorkerFields \subseteq DOMAIN r /\ r.retry \in Nat
    /\ r.retry + (IF r.pc \in {"refused", "broken"} THEN 1 ELSE 0)
            <= troubles'.breaks + troubles'.status

(* The troubles grow, the causes stay. *)
Grows ==
    /\ troubles' \in [status : Nat, breaks : Nat, late : Nat, fatal : Nat]
    /\ troubles.breaks + troubles.status <= troubles'.breaks + troubles'.status
    /\ Cause => Cause'

(* What goes wrong is counted, and is never forgotten (Goes). *)
LEMMA SomeTrouble ==
    ASSUME LoadTypes
    PROVE  /\ UNCHANGED troubles => Grows
           /\ Goes("fatal") => Grows /\ Cause'
           /\ Goes("breaks") \/ Goes("status") =>
                 /\ Grows
                 /\ troubles.breaks + troubles.status + 1 <= troubles'.breaks + troubles'.status
<1>1. UNCHANGED troubles => Grows
  BY DEF LoadTypes, Grows, Cause
<1>2. ASSUME Goes("fatal") PROVE Grows /\ Cause'
  BY <1>2 DEF LoadTypes, Grows, Cause, Goes
<1>3. ASSUME Goes("breaks") PROVE
                 /\ Grows
                 /\ troubles.breaks + troubles.status + 1 <= troubles'.breaks + troubles'.status
  BY <1>3, DownloadAssumption DEF LoadTypes, Grows, Cause, Goes
<1>4. ASSUME Goes("status") PROVE
                 /\ Grows
                 /\ troubles.breaks + troubles.status + 1 <= troubles'.breaks + troubles'.status
  BY <1>4, DownloadAssumption DEF LoadTypes, Grows, Cause, Goes
<1> QED
  BY <1>1, <1>2, <1>3, <1>4

(* One worker changes. *)
LEMMA OneWorker ==
    ASSUME LoadTypes, AttemptsPaid, Grows, NEW w \in Workers, NEW r, WorkerOK(r),
           worker' = [worker EXCEPT ![w] = r], {"done", "err"} \subseteq DOMAIN d'
    PROVE  LoadTypes' /\ AttemptsPaid'
<1>1. DOMAIN worker' = Workers
  BY DEF LoadTypes
<1>2. \A u \in Workers : worker'[u] = worker[u] \/ worker'[u] = r
  BY DEF LoadTypes
<1>w. Workers' = Workers
  BY DEF Workers, Cap, MaxPart
<1>3. LoadTypes'
  BY <1>1, <1>2, <1>w DEF LoadTypes, WorkerOK, Grows
<1>4. ASSUME NEW u \in Workers
      PROVE  worker'[u].retry + (IF worker'[u].pc \in {"refused", "broken"} THEN 1 ELSE 0)
                <= troubles'.breaks + troubles'.status
  <2>1. CASE worker'[u] = r
    BY <2>1 DEF WorkerOK
  <2>2. CASE worker'[u] = worker[u]
    BY <2>2 DEF LoadTypes, AttemptsPaid, Grows
  <2> QED
    BY <1>2, <2>1, <2>2
<1>5. AttemptsPaid'
  BY <1>4, <1>w DEF AttemptsPaid
<1> QED
  BY <1>3, <1>5

(* A worker that has tried nothing yet, or nothing of its next chunk. *)
NothingTried(r) ==
    r \in {IdleWorker, Off} \/ \E c : r = [IdleWorker EXCEPT !.pc = "try", !.ch = c]

(* Nothing has been refused to it. *)
LEMMA NoWork ==
    ASSUME NEW r, NothingTried(r), LoadTypes, Grows
    PROVE  WorkerOK(r)
<1>1. WorkerFields \subseteq DOMAIN r /\ r.retry = 0 /\ r.pc \notin {"refused", "broken"}
  BY DEF NothingTried, IdleWorker, Off, Unborn, WorkerFields
<1>2. troubles'.breaks \in Nat /\ troubles'.status \in Nat
  BY DEF Grows
<1>3. 0 <= troubles'.breaks + troubles'.status
  BY <1>2
<1>4. r.retry + (IF r.pc \in {"refused", "broken"} THEN 1 ELSE 0) = 0
  BY <1>1
<1> QED
  BY <1>1, <1>3, <1>4 DEF WorkerOK

(* A step that leaves the reader alone and ends the context only for a cause. *)
LEMMA ReaderStays ==
    ASSUME LoadInv, Grows, UNCHANGED reader, d'.done => d.done \/ Cause'
    PROVE  DoneForCause' /\ FailedForCause'
<1>1. DoneForCause'
  BY DEF LoadInv, DoneForCause, Grows
<1>2. reader.pc = "failed" => Cause
  BY DEF LoadInv, FailedForCause, Cause
<1>3. reader'.pc = "failed" => Cause'
  BY <1>2 DEF Grows
<1> QED
  BY <1>1, <1>3 DEF Cause, FailedForCause

(* An attempt fails (downloadChunk). *)
LEMMA RetryKeeps ==
    ASSUME LoadInv, UNCHANGED <<reader, troubles>>,
           NEW w \in Workers, NEW next, NEW n, WorkerOK(next),
           next.retry <= troubles.breaks + troubles.status, Retry(w, next, n)
    PROVE  LoadInv'
<1>t. LoadTypes /\ AttemptsPaid /\ DoneForCause /\ Grows
  BY SomeTrouble DEF LoadInv
<1>1. CASE worker' = [worker EXCEPT ![w] = IdleWorker] /\ UNCHANGED d
  <2>1. LoadTypes' /\ AttemptsPaid'
    <3>1. WorkerOK(IdleWorker)
      BY <1>t, NoWork DEF NothingTried
    <3>2. {"done", "err"} \subseteq DOMAIN d'
      BY <1>t, <1>1 DEF LoadTypes
    <3> QED
      BY <1>t, <1>1, <3>1, <3>2, OneWorker
  <2>2. DoneForCause' /\ FailedForCause'
    BY <1>t, <1>1, ReaderStays
  <2> QED
    BY <2>1, <2>2 DEF LoadInv
<1>2. CASE (d.done \/ next.retry > MaxRetries) /\ Fatal(w)
  <2>1. /\ worker' = [worker EXCEPT ![w] = Off]
        /\ d' = [d EXCEPT !.err = TRUE, !.done = TRUE]
    BY <1>2 DEF Fatal, Leave
  <2>2. LoadTypes' /\ AttemptsPaid'
    <3>1. WorkerOK(Off)
      BY <1>t, NoWork DEF NothingTried
    <3>2. {"done", "err"} \subseteq DOMAIN d'
      BY <1>t, <2>1 DEF LoadTypes
    <3> QED
      BY <1>t, <2>1, <3>1, <3>2, OneWorker
  <2>3. next.retry > MaxRetries => Cause'
    <3>1. /\ next.retry \in Nat /\ MaxRetries \in Nat
          /\ troubles.breaks \in Nat /\ troubles.status \in Nat
      BY <1>t, DownloadAssumption DEF WorkerOK, LoadTypes
    <3>2. next.retry > MaxRetries => troubles.breaks + troubles.status > MaxRetries
      BY <3>1
    <3> QED
      BY <3>2 DEF Cause
  <2>4. DoneForCause' /\ FailedForCause'
    BY <1>t, <1>2, <2>3, ReaderStays
  <2> QED
    BY <2>2, <2>4 DEF LoadInv
<1>3. CASE worker' = [worker EXCEPT ![w] = next] /\ d' = [d EXCEPT !.written = @ + n]
  <2>1. {"done", "err"} \subseteq DOMAIN d' /\ (d'.done => d.done)
    BY <1>t, <1>3 DEF LoadTypes
  <2>2. LoadTypes' /\ AttemptsPaid'
    BY <1>t, <1>3, <2>1, OneWorker
  <2>3. DoneForCause' /\ FailedForCause'
    BY <1>t, <2>1, ReaderStays
  <2> QED
    BY <2>2, <2>3 DEF LoadInv
<1> QED
  BY <1>1, <1>2, <1>3 DEF Retry

(* Workers that get a chunk, end, or have their answer leave the context   *)
(* alone; sendChunkTask may start another one.                             *)
LEMMA SendKeeps ==
    ASSUME LoadInv, UNCHANGED <<reader, troubles>>,
           NEW new \in BOOLEAN, NEW ws, DOMAIN ws = Workers,
           \A u \in Workers : WorkerOK(ws[u]), SendChunkTask(new, ws)
    PROVE  LoadInv'
<1>t. LoadTypes /\ AttemptsPaid /\ DoneForCause /\ Grows
  BY SomeTrouble DEF LoadInv
<1>w. Workers' = Workers
  BY DEF Workers, Cap, MaxPart
<1>1. \/ worker' = ws
      \/ worker' = [ws EXCEPT ![Cap - d.concurrency + 1] = IdleWorker]
  BY DEF SendChunkTask
<1>2. PICK i : worker' = ws \/ worker' = [ws EXCEPT ![i] = IdleWorker]
  BY <1>1
<1>3. /\ DOMAIN worker' = Workers
      /\ \A u \in Workers : worker'[u] = ws[u] \/ worker'[u] = IdleWorker
  BY <1>2
<1>4. WorkerOK(IdleWorker)
  BY <1>t, NoWork DEF NothingTried
<1>5. \A u \in Workers : WorkerOK(worker'[u])
  BY <1>3, <1>4
<1>6. {"done", "err"} \subseteq DOMAIN d' /\ (d'.done => d.done)
  BY <1>t DEF LoadTypes, SendChunkTask
<1>7. LoadTypes' /\ AttemptsPaid'
  BY <1>t, <1>w, <1>3, <1>5, <1>6 DEF LoadTypes, AttemptsPaid, WorkerOK, Grows
<1>8. DoneForCause' /\ FailedForCause'
  BY <1>t, <1>6, ReaderStays
<1> QED
  BY <1>7, <1>8 DEF LoadInv

(* What a worker does when nothing goes wrong, and when its attempt fails. *)
LEMMA DownloadKeeps ==
    ASSUME LoadInv, NEW w \in Workers, UsualWork(w)
    PROVE  LoadInv'
<1>t. LoadTypes /\ AttemptsPaid /\ DoneForCause
  BY DEF LoadInv
<1>u. UNCHANGED <<reader, troubles>> /\ Grows
  <2>1. UNCHANGED <<reader, troubles>>
    BY DEF UsualWork, Take, Stop, Respond, FirstRefused, LaterRefused,
           GiveBack, Write, BodyEnds, NextAttempt, WriteFails,
           RequestEnds
  <2> QED
    BY <1>t, <2>1, SomeTrouble
<1>v. /\ WorkerFields \subseteq DOMAIN worker[w] /\ worker[w].retry \in Nat
      /\ worker[w].retry + (IF worker[w].pc \in {"refused", "broken"} THEN 1 ELSE 0)
            <= troubles.breaks + troubles.status
      /\ troubles.breaks \in Nat /\ troubles.status \in Nat
  BY <1>t DEF LoadTypes, AttemptsPaid
<1>o. \A u \in Workers : WorkerOK(worker[u])
  BY <1>t, <1>u DEF LoadTypes, AttemptsPaid, WorkerOK
<1>1. ASSUME NEW r, WorkerOK(r), worker' = [worker EXCEPT ![w] = r],
             {"done", "err"} \subseteq DOMAIN d', d'.done => d.done
      PROVE  LoadInv'
  <2>1. LoadTypes' /\ AttemptsPaid'
    BY <1>t, <1>u, <1>1, OneWorker
  <2>2. DoneForCause' /\ FailedForCause'
    BY <1>t, <1>u, <1>1, ReaderStays
  <2> QED
    BY <2>1, <2>2 DEF LoadInv
<1>2. \A r : NothingTried(r) => WorkerOK(r)
  BY <1>t, <1>u, NoWork
<1>d. {"done", "err"} \subseteq DOMAIN d
  BY <1>t DEF LoadTypes
<1>3. CASE Take(w)
  <2>1. PICK r : NothingTried(r) /\ worker' = [worker EXCEPT ![w] = r] /\ UNCHANGED d
    BY <1>3 DEF Take, Leave, NothingTried
  <2> QED
    BY <1>1, <1>2, <1>d, <2>1
<1>4. CASE Stop(w)
  <2>1. worker' = [worker EXCEPT ![w] = Off] /\ UNCHANGED d
    BY <1>4 DEF Stop, Leave
  <2>2. WorkerOK(Off)
    BY <1>2 DEF NothingTried
  <2> QED
    BY <1>1, <1>d, <2>1, <2>2
<1>5. CASE Respond(w)
  <2>1. PICK ws : ws = [worker EXCEPT ![w].pc = "body"]
    OBVIOUS
  <2>2. SendChunkTask(TRUE, ws)
    BY <1>5, <2>1 DEF Respond
  <2>3. DOMAIN ws = Workers /\ \A u \in Workers \ {w} : ws[u] = worker[u]
    BY <1>t, <2>1 DEF LoadTypes
  <2>4. /\ WorkerFields \subseteq DOMAIN ws[w] /\ ws[w].retry = worker[w].retry /\ ws[w].pc = "body"
    BY <1>t, <1>v, <2>1 DEF LoadTypes, WorkerFields
  <2>5. WorkerOK(ws[w])
    BY <1>v, <1>u, <2>4 DEF WorkerOK
  <2>6. \A u \in Workers : WorkerOK(ws[u])
    BY <1>o, <2>3, <2>5
  <2> QED
    BY <1>u, <2>2, <2>3, <2>6, SendKeeps
<1>6. CASE FirstRefused(w)
  <2>1. PICK r : /\ r = [worker[w] EXCEPT !.pc = "try", !.retry = @ + 1]
                 /\ Retry(w, r, 0) /\ worker[w].pc = "refused"
    BY <1>6 DEF FirstRefused
  <2>2. /\ WorkerFields \subseteq DOMAIN r /\ r.retry = worker[w].retry + 1 /\ r.pc = "try"
    BY <1>v, <2>1 DEF WorkerFields
  <2>3. WorkerOK(r) /\ r.retry <= troubles.breaks + troubles.status
    BY <1>v, <1>u, <2>1, <2>2 DEF WorkerOK
  <2> QED
    BY <1>u, <2>1, <2>3, RetryKeeps
<1>7. CASE LaterRefused(w)
  <2>1. PICK r : /\ r = [worker[w] EXCEPT !.pc = "try"]
                 /\ Retry(w, r, 0) /\ worker[w].pc = "refused"
    BY <1>7 DEF LaterRefused
  <2>2. /\ WorkerFields \subseteq DOMAIN r /\ r.retry = worker[w].retry /\ r.pc = "try"
    BY <1>v, <2>1 DEF WorkerFields
  <2>3. WorkerOK(r) /\ r.retry <= troubles.breaks + troubles.status
    BY <1>v, <1>u, <2>1, <2>2 DEF WorkerOK
  <2> QED
    BY <1>u, <2>1, <2>3, RetryKeeps
<1>8. CASE GiveBack(w)
  <2>1. PICK r : NothingTried(r) /\ worker' = [worker EXCEPT ![w] = r]
    BY <1>8 DEF GiveBack, Leave, NothingTried
  <2>2. {"done", "err"} \subseteq DOMAIN d' /\ (d'.done => d.done)
    BY <1>8, <1>d DEF GiveBack
  <2> QED
    BY <1>1, <1>2, <2>1, <2>2
<1>9. CASE Write(w)
  <2>1. PICK r : /\ r = [worker[w] EXCEPT !.pc = "copied"]
                 /\ worker' = [worker EXCEPT ![w] = r] /\ UNCHANGED d
    BY <1>9 DEF Write
  <2>2. /\ WorkerFields \subseteq DOMAIN r /\ r.retry = worker[w].retry /\ r.pc = "copied"
    BY <1>v, <2>1 DEF WorkerFields
  <2>3. WorkerOK(r)
    BY <1>v, <1>u, <2>2 DEF WorkerOK
  <2> QED
    BY <1>1, <1>d, <2>1, <2>3
<1>10. CASE BodyEnds(w)
  <2>1. worker' = [worker EXCEPT ![w] = IdleWorker]
    BY <1>10 DEF BodyEnds
  <2>2. {"done", "err"} \subseteq DOMAIN d' /\ (d'.done => d.done)
    BY <1>10, <1>d DEF BodyEnds
  <2>3. WorkerOK(IdleWorker)
    BY <1>2 DEF NothingTried
  <2> QED
    BY <1>1, <2>1, <2>2, <2>3
<1>11. CASE NextAttempt(w)
  <2>1. PICK r, n : /\ r = [worker[w] EXCEPT !.pc = "try", !.retry = @ + 1, !.n = 0,
                              !.ch.start = @ + worker[w].n, !.ch.size = @ - worker[w].n]
                    /\ Retry(w, r, n) /\ worker[w].pc = "broken"
    BY <1>11 DEF NextAttempt
  <2>2. /\ WorkerFields \subseteq DOMAIN r /\ r.retry = worker[w].retry + 1 /\ r.pc = "try"
    BY <1>v, <2>1 DEF WorkerFields
  <2>3. WorkerOK(r) /\ r.retry <= troubles.breaks + troubles.status
    BY <1>v, <1>u, <2>1, <2>2 DEF WorkerOK
  <2> QED
    BY <1>u, <2>1, <2>3, RetryKeeps
<1>12. CASE WriteFails(w) \/ RequestEnds(w)
  <2>1. Retry(w, worker[w], 0)
    BY <1>12 DEF WriteFails, RequestEnds
  <2>2. WorkerOK(worker[w]) /\ worker[w].retry <= troubles.breaks + troubles.status
    BY <1>v, <1>o
  <2> QED
    BY <1>u, <2>1, <2>2, RetryKeeps
<1> QED
  BY <1>3, <1>4, <1>5, <1>6, <1>7, <1>8, <1>9, <1>10, <1>11, <1>12 DEF UsualWork

(* What goes wrong, with the request or the body of one worker.            *)
LEMMA FaultKeeps ==
    ASSUME LoadInv, NEW w \in Workers, UsualTrouble(w)
    PROVE  LoadInv'
<1>t. LoadTypes /\ AttemptsPaid /\ DoneForCause
  BY DEF LoadInv
<1>u. UNCHANGED reader
  BY DEF UsualTrouble, WrongSize, RequestFails, StatusError, BodyBreaks
<1>v. /\ WorkerFields \subseteq DOMAIN worker[w] /\ worker[w].retry \in Nat
      /\ worker[w].retry <= troubles.breaks + troubles.status
      /\ troubles.breaks \in Nat /\ troubles.status \in Nat
  BY <1>t DEF LoadTypes, AttemptsPaid
<1>d. {"done", "err"} \subseteq DOMAIN d
  BY <1>t DEF LoadTypes
<1>1. CASE WrongSize(w) \/ RequestFails(w)
  <2>1. Goes("fatal")
    BY <1>1 DEF WrongSize, RequestFails
  <2>2. Grows /\ Cause'
    BY <1>t, <2>1, SomeTrouble
  <2>3. PICK r : NothingTried(r) /\ worker' = [worker EXCEPT ![w] = r]
    BY <1>1 DEF WrongSize, RequestFails, Fatal, Leave, NothingTried
  <2>4. {"done", "err"} \subseteq DOMAIN d'
    BY <1>1, <1>d DEF WrongSize, RequestFails, Fatal
  <2>5. WorkerOK(r)
    BY <1>t, <2>2, <2>3, NoWork
  <2>6. LoadTypes' /\ AttemptsPaid'
    BY <1>t, <2>2, <2>3, <2>4, <2>5, OneWorker
  <2>7. DoneForCause' /\ FailedForCause'
    BY <1>u, <2>2, ReaderStays
  <2> QED
    BY <2>6, <2>7 DEF LoadInv
<1>2. CASE StatusError(w) \/ BodyBreaks(w)
  <2>1. (Goes("breaks") \/ Goes("status")) /\ UNCHANGED d
    BY <1>2 DEF StatusError, BodyBreaks
  <2>2. /\ Grows
        /\ troubles.breaks + troubles.status + 1 <= troubles'.breaks + troubles'.status
    BY <1>t, <2>1, SomeTrouble
  <2>3. PICK r, k : /\ worker' = [worker EXCEPT ![w] = r]
                    /\ \/ r = [worker[w] EXCEPT !.pc = "refused"]
                       \/ r = [worker[w] EXCEPT !.pc = "broken", !.n = k]
    BY <1>2 DEF StatusError, BodyBreaks
  <2>4. WorkerFields \subseteq DOMAIN r /\ r.retry = worker[w].retry
    BY <1>v, <2>3 DEF WorkerFields
  <2>5. /\ troubles'.breaks \in Nat /\ troubles'.status \in Nat
        /\ r.retry + 1 <= troubles'.breaks + troubles'.status
    BY <1>v, <2>2, <2>4 DEF Grows
  <2>6. WorkerOK(r)
    BY <1>v, <2>4, <2>5 DEF WorkerOK
  <2>7. LoadTypes' /\ AttemptsPaid'
    BY <1>t, <1>d, <2>1, <2>2, <2>3, <2>6, OneWorker
  <2>8. DoneForCause' /\ FailedForCause'
    BY <1>u, <2>1, <2>2, ReaderStays
  <2> QED
    BY <2>7, <2>8 DEF LoadInv
<1> QED
  BY <1>1, <1>2 DEF UsualTrouble

(* The workers and what went wrong are as before. *)
LEMMA OthersStay ==
    ASSUME LoadInv, UNCHANGED troubles, UNCHANGED worker, {"done", "err"} \subseteq DOMAIN d'
    PROVE  LoadTypes' /\ AttemptsPaid'
<1>w. Workers' = Workers
  BY DEF Workers, Cap, MaxPart
<1> QED
  BY <1>w DEF LoadInv, LoadTypes, AttemptsPaid

(* The reader, the consumer and its caller. *)
LEMMA ReaderKeeps ==
    ASSUME LoadInv, UsualRead \/ Close \/ ParentCancel
    PROVE  LoadInv'
<1>t. LoadTypes /\ AttemptsPaid /\ DoneForCause /\ FailedForCause
  BY DEF LoadInv
<1>d. {"done", "err"} \subseteq DOMAIN d
  BY <1>t DEF LoadTypes
<1>r. {"pc", "id", "buf", "got"} \subseteq DOMAIN reader
  BY <1>t DEF DoneForCause
<1>1. CASE ReadFails
  <2>1. /\ UNCHANGED <<troubles, worker, d>>
        /\ reader' = [reader EXCEPT !.pc = "failed"]
        /\ reader.pc # "closed" /\ d.done
    BY <1>1 DEF ReadFails
  <2>2. Cause /\ Cause'
    BY <1>t, <2>1 DEF DoneForCause, Cause
  <2>3. LoadTypes' /\ AttemptsPaid'
    BY <1>d, <2>1, OthersStay
  <2>4. DoneForCause' /\ FailedForCause'
    BY <1>r, <2>1, <2>2 DEF DoneForCause, Cause, FailedForCause
  <2> QED
    BY <2>3, <2>4 DEF LoadInv
<1>2. CASE ReadBytes
  <2>1. /\ UNCHANGED <<troubles, worker, d>>
        /\ reader.pc \in {"read", "wait"}
    BY <1>2 DEF ReadBytes
  <2>2. ASSUME Deliver
        PROVE  /\ reader'.pc \in {"read", "wait"}
               /\ {"pc", "id", "buf", "got"} \subseteq DOMAIN reader'
    <3>1. PICK y : reader' = [reader EXCEPT !.pc = "read", !.got = y]
      BY <2>2 DEF Deliver
    <3> QED
      BY <1>r, <3>1
  <2>3. ASSUME Pend
        PROVE  /\ reader'.pc \in {"read", "wait"}
               /\ {"pc", "id", "buf", "got"} \subseteq DOMAIN reader'
    <3>1. reader' = [reader EXCEPT !.pc = "wait"]
      BY <2>3 DEF Pend
    <3> QED
      BY <1>r, <3>1
  <2>x. /\ reader'.pc \in {"read", "wait"}
        /\ {"pc", "id", "buf", "got"} \subseteq DOMAIN reader'
    BY <1>2, <2>2, <2>3 DEF ReadBytes
  <2>4. DoneForCause' /\ FailedForCause'
    BY <1>t, <2>1, <2>x DEF DoneForCause, Cause, FailedForCause
  <2>5. LoadTypes' /\ AttemptsPaid'
    BY <1>d, <2>1, OthersStay
  <2> QED
    BY <2>4, <2>5 DEF LoadInv
<1>3. CASE FinishBuf /\ UNCHANGED <<worker, d>>
  <2>1. UNCHANGED troubles /\ reader.pc = "read" /\ ~d.done
    BY <1>3 DEF FinishBuf
  <2>2. PICK i, b : \/ reader' = [reader EXCEPT !.pc = "eof"]
                    \/ reader' = [reader EXCEPT !.id = i, !.buf = b]
    BY <1>3 DEF FinishBuf
  <2>3. reader'.pc \in {"read", "eof"} /\ {"pc", "id", "buf", "got"} \subseteq DOMAIN reader'
    BY <1>r, <2>1, <2>2
  <2>4. DoneForCause' /\ FailedForCause'
    BY <1>3, <2>1, <2>3 DEF DoneForCause, FailedForCause
  <2>5. LoadTypes' /\ AttemptsPaid'
    BY <1>d, <1>3, <2>1, OthersStay
  <2> QED
    BY <2>4, <2>5 DEF LoadInv
<1>4. CASE FinishBuf /\ SendChunkTask(FALSE, worker)
  <2>1. UNCHANGED troubles /\ reader.pc = "read" /\ ~d.done
    BY <1>4 DEF FinishBuf
  <2>2. PICK i, b : \/ reader' = [reader EXCEPT !.pc = "eof"]
                    \/ reader' = [reader EXCEPT !.id = i, !.buf = b]
    BY <1>4 DEF FinishBuf
  <2>3. reader'.pc \in {"read", "eof"} /\ {"pc", "id", "buf", "got"} \subseteq DOMAIN reader'
    BY <1>r, <2>1, <2>2
  <2>4. /\ UNCHANGED worker /\ {"done", "err"} \subseteq DOMAIN d'
        /\ (d'.done => d.done)
    BY <1>d, <1>4 DEF SendChunkTask
  <2>5. DoneForCause' /\ FailedForCause'
    BY <2>1, <2>3, <2>4 DEF DoneForCause, FailedForCause
  <2>6. LoadTypes' /\ AttemptsPaid'
    BY <2>1, <2>4, OthersStay
  <2> QED
    BY <2>5, <2>6 DEF LoadInv
<1>5. CASE Close
  <2>1. /\ UNCHANGED <<troubles, worker>>
        /\ reader' = [reader EXCEPT !.pc = "closed"]
        /\ {"done", "err"} \subseteq DOMAIN d'
    BY <1>5, <1>d DEF Close
  <2>2. reader'.pc = "closed" /\ {"pc", "id", "buf", "got"} \subseteq DOMAIN reader'
    BY <1>r, <2>1
  <2>3. DoneForCause' /\ FailedForCause'
    BY <2>2 DEF DoneForCause, FailedForCause
  <2>4. LoadTypes' /\ AttemptsPaid'
    BY <2>1, OthersStay
  <2> QED
    BY <2>3, <2>4 DEF LoadInv
<1>6. CASE ParentCancel
  <2>1. /\ UNCHANGED <<worker, reader>>
        /\ {"done", "err"} \subseteq DOMAIN d'
        /\ Goes("fatal")
    BY <1>6, <1>d DEF ParentCancel
  <2>2. Grows /\ Cause'
    BY <1>t, <2>1, SomeTrouble
  <2>3. DoneForCause' /\ FailedForCause'
    BY <2>1, <2>2, ReaderStays
  <2>4. Workers' = Workers
    BY DEF Workers, Cap, MaxPart
  <2>5. LoadTypes'
    BY <1>t, <2>1, <2>2, <2>4 DEF LoadTypes, Grows
  <2>6. AttemptsPaid'
    <3>1. SUFFICES ASSUME NEW w \in Workers
                   PROVE  worker[w].retry + (IF worker[w].pc \in {"refused", "broken"} THEN 1 ELSE 0)
                              <= troubles'.breaks + troubles'.status
      BY <2>1, <2>4 DEF AttemptsPaid
    <3> QED
      BY <1>t, <2>2 DEF LoadTypes, AttemptsPaid, Grows
  <2> QED
    BY <2>3, <2>5, <2>6 DEF LoadInv
<1>7. FinishBuf => UNCHANGED <<worker, d>> \/ SendChunkTask(FALSE, worker)
  BY DEF FinishBuf
<1> QED
  BY <1>1, <1>2, <1>3, <1>4, <1>5, <1>6, <1>7 DEF UsualRead

(* Every step of a download keeps the invariant. *)
LEMMA LoadStep == LoadInv /\ [UsualNext]_downloadVars => LoadInv'
<1> SUFFICES ASSUME LoadInv, [UsualNext]_downloadVars PROVE LoadInv'
  OBVIOUS
<1>1. CASE \E w \in Workers : UsualWork(w) \/ UsualTrouble(w)
  BY <1>1, DownloadKeeps, FaultKeeps
<1>2. CASE UsualRead \/ Close \/ ParentCancel
  BY <1>2, ReaderKeeps
<1>3. CASE UNCHANGED downloadVars
  <2>1. UNCHANGED <<d, worker, reader, troubles>>
    BY <1>3 DEF downloadVars
  <2>2. LoadTypes' /\ AttemptsPaid'
    BY <2>1, OthersStay DEF LoadInv, LoadTypes
  <2> QED
    BY <2>1, <2>2 DEF LoadInv, DoneForCause, Cause, FailedForCause
<1> QED
  BY <1>1, <1>2, <1>3 DEF UsualNext

(* It holds when the first chunk has been sent (download). *)
LEMMA LoadInit == DownloadInit => LoadInv
<1> SUFFICES ASSUME DownloadInit PROVE LoadInv
  OBVIOUS
<1>1. LoadTypes
  BY DEF DownloadInit, LoadTypes, IdleWorker, Unborn, WorkerFields
<1>2. AttemptsPaid
  BY DEF DownloadInit, AttemptsPaid, IdleWorker, Unborn
<1>3. DoneForCause /\ FailedForCause
  BY DEF DownloadInit, DoneForCause, FailedForCause
<1> QED
  BY <1>1, <1>2, <1>3 DEF LoadInv

-----------------------------------------------------------------------------
(* Quotient and remainder. *)
LEMMA DivisionFacts ==
    ASSUME NEW a \in Nat, NEW n \in Nat \ {0}
    PROVE  /\ a % n \in Nat /\ a % n < n /\ a \div n \in Nat
           /\ a = n * (a \div n) + (a % n)
  OBVIOUS

(* Two buffers of one window are different. *)
LEMMA PlacesDiffer ==
    ASSUME NEW n \in Nat \ {0}, NEW a \in Nat, NEW b \in Nat, a < b, b < a + n
    PROVE  a % n # b % n
<1> SUFFICES ASSUME a % n = b % n PROVE FALSE
  OBVIOUS
<1>1. a % n \in Nat /\ a \div n \in Nat /\ a = n * (a \div n) + (a % n)
  BY DivisionFacts
<1>2. b % n \in Nat /\ b \div n \in Nat /\ b = n * (b \div n) + (b % n)
  BY DivisionFacts
<1>3. PICK p \in Nat, q \in Nat, r \in Nat : a = n * p + r /\ b = n * q + r
  BY <1>1, <1>2
<1>4. n * p < n * q /\ n * q < n * p + n
  BY <1>3
<1>5. n * p + n = n * (p + 1)
  BY <1>3
<1>6. CASE q <= p
  <2>1. n * q <= n * p
    BY <1>6
  <2> QED
    BY <1>4, <2>1
<1>7. CASE q >= p + 1
  <2>1. n * q >= n * (p + 1)
    BY <1>7
  <2> QED
    BY <1>4, <1>5, <2>1
<1> QED
  BY <1>6, <1>7

(* The sizes and the first bytes of the chunks. *)
Offset(id) ==
    IF id = 0 THEN 0 ELSE IF id = 1 THEN ChunkSize(0) ELSE Length - (MaxPart - id) * PartSize

(* Every chunk has a byte and fits its buffer; there are two at least. *)
LEMMA SizeFacts ==
    /\ MaxPart \in Nat /\ MaxPart >= 2
    /\ \A id \in Nat : ChunkSize(id) \in 1..PartSize
    /\ \A id \in Nat : id >= 2 => ChunkSize(id) = PartSize
    /\ ChunkSize(0) + ChunkSize(1) = Length - (MaxPart - 2) * PartSize
<1>1. /\ Length \in Nat /\ PartSize \in Nat \ {0} /\ Length > PartSize
  BY DownloadAssumption
<1> DEFINE N == Length + PartSize - 1
<1>2. N \in Nat
  BY <1>1
<1>3. PICK q \in Nat, s \in Nat : MaxPart = q /\ s < PartSize /\ N = PartSize * q + s
  BY <1>1, <1>2, DivisionFacts DEF MaxPart
<1>4. PICK p \in Nat, r \in Nat : /\ p = Length \div PartSize /\ r = Length % PartSize
                                  /\ r < PartSize /\ Length = PartSize * p + r
  BY <1>1, DivisionFacts
<1>5. PICK m \in Nat : m = PartSize \div 2 /\ 2 * m <= PartSize
  <2>1. /\ PartSize \div 2 \in Nat /\ PartSize % 2 \in Nat
        /\ PartSize = 2 * (PartSize \div 2) + (PartSize % 2)
    BY <1>1, DivisionFacts
  <2> QED
    BY <2>1
<1>6. q = IF r = 0 THEN p ELSE p + 1
  <2>1. PartSize * q + s = PartSize * p + r + PartSize - 1
    BY <1>1, <1>3, <1>4
  <2>2. PartSize * (p + 1) = PartSize * p + PartSize /\ PartSize * (p + 2) = PartSize * p + 2 * PartSize
    BY <1>1
  <2>3. q <= p - 1 => PartSize * q <= PartSize * p - PartSize
    BY <1>1
  <2>4. q >= p + 2 => PartSize * q >= PartSize * p + 2 * PartSize
    BY <1>1
  <2>5. q = p \/ q = p + 1
    BY <1>1, <1>3, <1>4, <2>1, <2>3, <2>4
  <2>6. CASE q = p
    BY <1>1, <1>3, <1>4, <2>1, <2>6
  <2>7. CASE q = p + 1
    BY <1>1, <1>3, <1>4, <2>1, <2>2, <2>7
  <2> QED
    BY <2>5, <2>6, <2>7
<1>7. q >= 2
  <2>1. p >= 1
    <3>1. p = 0 => PartSize * p = 0
      BY <1>1
    <3> QED
      BY <1>1, <1>4, <3>1
  <2>2. p = 1 => PartSize * p = PartSize
    BY <1>1
  <2> QED
    BY <1>1, <1>4, <1>6, <2>1, <2>2
<1>8. \A id : ChunkSize(id) =
          CASE id = 0 /\ r > 0 -> IF r < m THEN m ELSE r
            [] id = 1 /\ r > 0 /\ r < m -> PartSize + r - m
            [] OTHER -> PartSize
  BY <1>4, <1>5 DEF ChunkSize
<1>9. /\ ChunkSize(0) = IF r > 0 THEN (IF r < m THEN m ELSE r) ELSE PartSize
      /\ ChunkSize(1) = IF r > 0 /\ r < m THEN PartSize + r - m ELSE PartSize
  BY <1>8
<1>10. \A id \in Nat : id >= 2 => ChunkSize(id) = PartSize
  BY <1>8
<1>11. ChunkSize(0) \in 1..PartSize /\ ChunkSize(1) \in 1..PartSize
  <2>1. CASE r = 0
    BY <1>1, <1>9, <2>1
  <2>2. CASE r > 0 /\ r < m
    BY <1>1, <1>4, <1>5, <1>9, <2>2
  <2>3. CASE r > 0 /\ r >= m
    BY <1>1, <1>4, <1>5, <1>9, <2>3
  <2> QED
    BY <2>1, <2>2, <2>3
<1>12. \A id \in Nat : ChunkSize(id) \in 1..PartSize
  <2> SUFFICES ASSUME NEW id \in Nat PROVE ChunkSize(id) \in 1..PartSize
    OBVIOUS
  <2>1. id = 0 \/ id = 1 \/ id >= 2
    OBVIOUS
  <2> QED
    BY <1>1, <1>11, <1>10, <2>1
<1>13. ChunkSize(0) + ChunkSize(1) = IF r = 0 THEN 2 * PartSize ELSE PartSize + r
  <2>1. CASE r = 0
    BY <1>1, <1>9, <2>1
  <2>2. CASE r > 0 /\ r < m
    BY <1>1, <1>4, <1>5, <1>9, <2>2
  <2>3. CASE r > 0 /\ r >= m
    BY <1>1, <1>4, <1>5, <1>9, <2>3
  <2> QED
    BY <2>1, <2>2, <2>3
<1>14. Length - (q - 2) * PartSize = IF r = 0 THEN 2 * PartSize ELSE PartSize + r
  <2>1. (q - 2) * PartSize = PartSize * q - 2 * PartSize
    BY <1>1
  <2>2. PartSize * (p + 1) = PartSize * p + PartSize
    BY <1>1
  <2> QED
    BY <1>1, <1>4, <1>6, <2>1, <2>2
<1> QED
  BY <1>3, <1>7, <1>12, <1>10, <1>13, <1>14

(* The offsets follow one another to the end of the range. *)
LEMMA OffsetFacts ==
    /\ \A id \in Nat : Offset(id) \in Int /\ Offset(id + 1) = Offset(id) + ChunkSize(id)
    /\ Offset(0) = 0 /\ Offset(MaxPart) = Length
    /\ \A id \in Nat : id < MaxPart => Offset(id) < Length
    /\ \A id \in Nat : id <= MaxPart => Offset(id) <= Length
<1>1. /\ Length \in Nat /\ PartSize \in Nat \ {0} /\ Length > PartSize
  BY DownloadAssumption
<1>2. PICK m \in Nat : m = MaxPart /\ m >= 2
  BY SizeFacts
<1>3. \A id \in Nat : Offset(id) \in Int
  BY <1>1, <1>2, SizeFacts DEF Offset
<1>4. ASSUME NEW id \in Nat PROVE Offset(id + 1) = Offset(id) + ChunkSize(id)
  <2>1. CASE id = 0
    BY <1>1, <2>1, SizeFacts DEF Offset
  <2>2. CASE id = 1
    <3>1. ChunkSize(0) \in Int /\ ChunkSize(1) \in Int
      BY SizeFacts
    <3> QED
      BY <1>1, <2>2, <3>1, SizeFacts DEF Offset
  <2>3. CASE id >= 2
    <3>1. Offset(id) = Length - (m - id) * PartSize /\ Offset(id + 1) = Length - (m - (id + 1)) * PartSize
      BY <1>2, <2>3 DEF Offset
    <3>2. (m - id) * PartSize = (m - (id + 1)) * PartSize + PartSize
      BY <1>1
    <3>3. (m - (id + 1)) * PartSize \in Int
      BY <1>1
    <3>4. ChunkSize(id) = PartSize
      BY <2>3, SizeFacts
    <3> QED
      BY <1>1, <3>1, <3>2, <3>3, <3>4
  <2> QED
    BY <2>1, <2>2, <2>3
<1>5. Offset(MaxPart) = Length /\ Offset(0) = 0
  BY <1>1, <1>2 DEF Offset
<1>6. ASSUME NEW id \in Nat, id < MaxPart PROVE Offset(id) < Length
  <2>1. CASE id = 0
    BY <1>1, <2>1 DEF Offset
  <2>2. CASE id = 1
    <3>1. ChunkSize(0) \in 1..PartSize
      BY SizeFacts
    <3> QED
      BY <1>1, <2>2, <3>1 DEF Offset
  <2>3. CASE id >= 2
    <3>1. Offset(id) = Length - (m - id) * PartSize
      BY <1>2, <2>3 DEF Offset
    <3>2. (m - id) * PartSize >= PartSize
      BY <1>1, <1>2, <1>6
    <3> QED
      BY <1>1, <3>1, <3>2
  <2> QED
    BY <2>1, <2>2, <2>3
<1> QED
  BY <1>1, <1>2, <1>3, <1>4, <1>5, <1>6

(* The buffers, the chunks and the states of the workers. *)
Buffers == [size : Int, offR : Int, data : Seq(Int), pending : BOOLEAN, signal : BOOLEAN]
Chunks == [id : Int, start : Int, size : Int, buf : Int, newConcurrency : BOOLEAN]
Stages == {"unborn", "idle", "try", "refused", "body", "copied", "broken", "off"}
Jobs == [pc : Stages, ch : Chunks, retry : Int, n : Int]

(* The types of the variables. *)
PartTypes ==
    /\ {"next", "pos", "concurrency"} \subseteq DOMAIN d
    /\ d.next \in Nat /\ d.pos \in Int /\ d.concurrency \in Int
    /\ chan \in Seq(Chunks) /\ bufs \in Seq(Buffers)
    /\ worker \in [Workers -> Jobs]
    /\ {"pc", "id", "buf", "got"} \subseteq DOMAIN reader
    /\ reader.id \in Nat /\ reader.got \in Seq(Int)

(* The buffer of a chunk; a worker that holds one, and how far a broken    *)
(* body has come in it.                                                   *)
Place(id) == (id % Len(bufs)) + 1
Holding(j) == j.pc \in {"try", "refused", "body", "broken"}
Ahead(j) == IF j.pc = "broken" THEN j.n ELSE 0

(* Chunk c, of which n bytes are written, is in the window that begins at  *)
(* low, and what is left of it is what its buffer lacks.                  *)
Alive(c, n, low) ==
    /\ c.id \in low..(d.next - 1)
    /\ c.buf = Place(c.id)
    /\ n >= 0 /\ n < c.size
    /\ Len(bufs[c.buf].data) + c.size = bufs[c.buf].size + n
    /\ c.start + n = Offset(c.id) + Len(bufs[c.buf].data)

(* So are those in the channel and in the hands of workers. *)
Queue(low) == \A i \in 1..Len(chan) : Alive(chan[i], 0, low)
Hands(low, ws) == \A w \in Workers : Holding(ws[w]) => Alive(ws[w].ch, Ahead(ws[w]), low)

(* No chunk is in two places. *)
Distinct(ws) ==
    /\ \A i, k \in 1..Len(chan) : chan[i].id = chan[k].id => i = k
    /\ \A i \in 1..Len(chan), w \in Workers : Holding(ws[w]) => ws[w].ch.id # chan[i].id
    /\ \A w, v \in Workers :
        Holding(ws[w]) /\ Holding(ws[v]) /\ ws[w].ch.id = ws[v].ch.id => w = v

(* The window from the chunk that is read to d.next: how long it may be,   *)
(* which depends on the concurrency that is left, and where it ends.      *)
Window(low) ==
    /\ d.concurrency < Cap
    /\ low <= d.next /\ d.next <= MaxPart
    /\ d.next - low <= Cap
    /\ d.concurrency > 0 => d.next - low <= Cap - d.concurrency
    /\ Len(bufs) >= 1 /\ d.next - low <= Len(bufs)
    /\ d.concurrency > 0 => d.next <= Len(bufs) /\ (d.next < MaxPart => Len(bufs) = d.next)
    /\ d.pos = Offset(d.next)

(* A buffer of the window holds the first bytes of its chunk, and only the *)
(* one that is read has been read from.                                   *)
Filled(b, id, low) ==
    /\ b.size = ChunkSize(id)
    /\ 0 <= b.offR /\ b.offR <= Len(b.data) /\ Len(b.data) <= b.size
    /\ \A i \in 1..Len(b.data) : b.data[i] = Offset(id) + i
    /\ id > low => b.offR = 0

Content(low) == \A id \in low..(d.next - 1) : Filled(bufs[Place(id)], id, low)

(* The reader has all bytes before the chunk it is in, and those it has    *)
(* read of its buffer.                                                    *)
Reading ==
    /\ reader.id < d.next
    /\ reader.buf = Place(reader.id)
    /\ Len(reader.got) = Offset(reader.id) + Cur.offR
    /\ \A i \in 1..Len(reader.got) : reader.got[i] = i
    /\ reader.pc = "eof" => Len(reader.got) = Length

(* The inductive invariant. *)
Parts == Window(reader.id) /\ Content(reader.id)
Held == Queue(reader.id) /\ Hands(reader.id, worker) /\ Distinct(worker)
Downloading == PartTypes /\ Parts /\ Held /\ Reading

(* How many workers there are. *)
LEMMA CapFacts == Cap \in Nat /\ Cap >= 1 /\ Cap <= MaxPart /\ Workers = 1..Cap
  BY SizeFacts, DownloadAssumption DEF Cap, Workers

(* The states of a worker without a chunk, and of one that has just taken c. *)
LEMMA JobFacts ==
    /\ Unborn \in Jobs /\ ~Holding(Unborn)
    /\ Off \in Jobs /\ ~Holding(Off)
    /\ IdleWorker \in Jobs /\ ~Holding(IdleWorker)
    /\ \A c \in Chunks : LET j == [IdleWorker EXCEPT !.pc = "try", !.ch = c]
                         IN  j \in Jobs /\ j.ch = c /\ Ahead(j) = 0
<1>1. NoChunk \in Chunks
  BY DEF NoChunk, Chunk, Chunks
<1>2. Unborn \in Jobs /\ Unborn.pc = "unborn"
  BY <1>1 DEF Unborn, Jobs, Stages
<1>3. Off \in Jobs /\ Off.pc = "off" /\ IdleWorker \in Jobs /\ IdleWorker.pc = "idle"
  BY <1>2 DEF Off, IdleWorker, Jobs, Stages
<1>4. ASSUME NEW c \in Chunks
      PROVE  LET j == [IdleWorker EXCEPT !.pc = "try", !.ch = c]
             IN  j \in Jobs /\ j.ch = c /\ j.pc = "try"
  BY <1>3 DEF Jobs, Stages
<1> QED
  BY <1>2, <1>3, <1>4 DEF Holding, Ahead

(* A place is the index of a buffer. *)
LEMMA PlaceFacts ==
    ASSUME bufs \in Seq(Buffers), Len(bufs) >= 1, NEW id \in Nat
    PROVE  Place(id) \in 1..Len(bufs) /\ (id < Len(bufs) => Place(id) = id + 1)
<1>1. Len(bufs) \in Nat \ {0}
  OBVIOUS
<1>2. id % Len(bufs) \in Nat /\ id % Len(bufs) < Len(bufs)
  BY <1>1, DivisionFacts
<1>3. id < Len(bufs) => id % Len(bufs) = id
  BY <1>1
<1> QED
  BY <1>1, <1>2, <1>3 DEF Place

(* Two chunks of the window have different buffers. *)
LEMMA ChunksApart ==
    ASSUME PartTypes, NEW low \in Nat, Window(low),
           NEW a \in low..(d.next - 1), NEW b \in low..(d.next - 1), a # b
    PROVE  Place(a) # Place(b)
<1>1. PICK n \in Nat \ {0} : n = Len(bufs) /\ d.next - low <= n /\ d.next \in Nat
  BY DEF Window, PartTypes
<1>2. a \in Nat /\ b \in Nat /\ a < b + n /\ b < a + n
  BY <1>1
<1>3. a % n # b % n
  <2>1. CASE a < b
    BY <1>2, <2>1, PlacesDiffer
  <2>2. CASE b < a
    BY <1>2, <2>2, PlacesDiffer
  <2> QED
    BY <1>2, <2>1, <2>2
<1>4. a % n \in Int /\ b % n \in Int
  BY <1>2, DivisionFacts
<1> QED
  BY <1>1, <1>3, <1>4 DEF Place

(* The steps that leave d.next and d.pos alone. *)
Steady ==
    /\ {"next", "pos", "concurrency"} \subseteq DOMAIN d'
    /\ d'.next = d.next /\ d'.pos = d.pos

(* A chunk of the window that is not touched stays what it is. *)
LEMMA AliveStays ==
    ASSUME Steady, bufs' = bufs
    PROVE  \A c, n, low : Alive(c, n, low)' <=> Alive(c, n, low)
  BY DEF Steady, Alive, Place

(* Chunks in the channel, and those of the workers, after a step. *)
LEMMA QueuePrimed ==
    ASSUME NEW low, NEW ch, low = reader'.id, ch = chan',
           \A i \in 1..Len(ch) : Alive(ch[i], 0, low)'
    PROVE  Queue(reader.id)'
  BY DEF Queue, Alive, Place

(* The same for the workers. *)
LEMMA HandsPrimed ==
    ASSUME NEW low, NEW ws, low = reader'.id, ws = worker',
           \A w \in Workers : Holding(ws[w]) => Alive(ws[w].ch, Ahead(ws[w]), low)'
    PROVE  Hands(reader.id, worker)'
  BY DEF Hands, Alive, Place

(* The same for the chunks being different. *)
LEMMA DistinctPrimed ==
    ASSUME NEW ws, ws = worker', chan' = chan, Distinct(ws)
    PROVE  Distinct(worker)'
  BY DEF Distinct

(* The window and the buffers, when neither moves. *)
LEMMA PartsStay ==
    ASSUME PartTypes, Parts, Steady, d'.concurrency = d.concurrency, bufs' = bufs, reader'.id = reader.id
    PROVE  Parts'
<1>1. Window(reader.id)'
  BY DEF Parts, Window, Steady
<1>2. \A id : Place(id)' = Place(id)
  BY DEF Place
<1>3. Content(reader.id)'
  <2>1. \A id \in reader.id..(d.next - 1) : Filled(bufs[Place(id)], id, reader.id)
    BY DEF Parts, Content
  <2> QED
    BY <1>2, <2>1 DEF Content, Steady
<1> QED
  BY <1>1, <1>3 DEF Parts

(* Nothing moves but the stage of the reader, or the flags of d. *)
LEMMA FlagsMove ==
    ASSUME Downloading, Steady, d'.concurrency = d.concurrency, UNCHANGED <<chan, bufs, worker>>,
           {"pc", "id", "buf", "got"} \subseteq DOMAIN reader',
           reader'.id = reader.id, reader'.buf = reader.buf, reader'.got = reader.got,
           reader'.pc = "eof" => reader.pc = "eof" \/ Len(reader.got) = Length
    PROVE  Downloading'
<1>1. PartTypes'
  BY DEF Downloading, PartTypes, Steady
<1>2. Parts'
  BY PartsStay DEF Downloading
<1>3. PICK ws, ch, low : ws = worker /\ ch = chan /\ low = reader.id
  OBVIOUS
<1>4. Queue(reader.id)'
  <2>1. \A i \in 1..Len(ch) : Alive(ch[i], 0, low)
    BY <1>3 DEF Downloading, Held, Queue
  <2>2. \A i \in 1..Len(ch) : Alive(ch[i], 0, low)'
    BY <2>1, AliveStays
  <2> QED
    BY <1>3, <2>2, QueuePrimed
<1>5. Hands(reader.id, worker)'
  <2>1. \A w \in Workers : Holding(ws[w]) => Alive(ws[w].ch, Ahead(ws[w]), low)
    BY <1>3 DEF Downloading, Held, Hands
  <2>2. \A w \in Workers : Holding(ws[w]) => Alive(ws[w].ch, Ahead(ws[w]), low)'
    BY <2>1, AliveStays
  <2> QED
    BY <1>3, <2>2, HandsPrimed
<1>6. Distinct(worker)'
  BY DistinctPrimed DEF Downloading, Held
<1>7. Reading'
  BY DEF Downloading, Reading, Steady, Cur, Place
<1> QED
  BY <1>1, <1>2, <1>4, <1>5, <1>6, <1>7 DEF Downloading, Held

(* A worker goes on with its chunk, or gives it up. *)
Continues(j, old) ==
    Holding(j) =>
        /\ Holding(old)
        /\ j.ch.id = old.ch.id /\ j.ch.buf = old.ch.buf
        /\ j.ch.size - Ahead(j) = old.ch.size - Ahead(old)
        /\ j.ch.start + Ahead(j) = old.ch.start + Ahead(old)
        /\ Ahead(j) >= 0

(* What the workers hold, when one of them does this. *)
LEMMA HandMoves ==
    ASSUME Downloading, NEW w \in Workers, NEW j \in Jobs, Continues(j, worker[w]),
           NEW ws, ws = [worker EXCEPT ![w] = j]
    PROVE  ws \in [Workers -> Jobs] /\ Hands(reader.id, ws) /\ Distinct(ws)
<1> DEFINE low == reader.id
<1>1. /\ ws \in [Workers -> Jobs] /\ ws[w] = j
      /\ \A v \in Workers : v # w => ws[v] = worker[v]
  BY DEF PartTypes, Downloading
<1>2. Holding(j) => Alive(j.ch, Ahead(j), low)
  <2> SUFFICES ASSUME Holding(j) PROVE Alive(j.ch, Ahead(j), low)
    OBVIOUS
  <2>1. Alive(worker[w].ch, Ahead(worker[w]), low)
    BY DEF Downloading, Held, Hands, Continues
  <2>2. j.ch \in Chunks /\ worker[w].ch \in Chunks /\ Ahead(j) \in Int /\ Ahead(worker[w]) \in Int
    BY DEF Downloading, PartTypes, Jobs, Ahead
  <2>3. PICK b : b = bufs[j.ch.buf] /\ Len(b.data) \in Int /\ b.size \in Int
    <3>1. j.ch.buf = worker[w].ch.buf /\ j.ch.buf \in 1..Len(bufs)
      <4>1. worker[w].ch.id \in Nat /\ Len(bufs) >= 1 /\ bufs \in Seq(Buffers)
        BY <2>1, <2>2 DEF Alive, Downloading, PartTypes, Parts, Window
      <4>2. worker[w].ch.buf = Place(worker[w].ch.id)
        BY <2>1 DEF Alive
      <4>3. Place(worker[w].ch.id) \in 1..Len(bufs)
        BY <4>1, PlaceFacts
      <4> QED
        BY <4>2, <4>3 DEF Continues
    <3>2. bufs[j.ch.buf] \in Buffers
      BY <3>1 DEF Downloading, PartTypes
    <3> QED
      BY <3>2 DEF Buffers
  <2>4. PICK o \in Int : o = Offset(j.ch.id)
    <3>1. worker[w].ch.id \in reader.id..(d.next - 1) /\ reader.id \in Nat /\ d.next \in Nat
      BY <2>1 DEF Alive, Downloading, PartTypes
    <3>2. j.ch.id \in Nat
      BY <3>1 DEF Continues
    <3> QED
      BY <3>2, OffsetFacts
  <2>5. /\ j.ch.id = worker[w].ch.id /\ j.ch.buf = worker[w].ch.buf
        /\ j.ch.size - Ahead(j) = worker[w].ch.size - Ahead(worker[w])
        /\ j.ch.start + Ahead(j) = worker[w].ch.start + Ahead(worker[w])
        /\ Ahead(j) >= 0
    BY DEF Continues
  <2>6. /\ j.ch.size \in Int /\ j.ch.start \in Int
        /\ worker[w].ch.size \in Int /\ worker[w].ch.start \in Int
    BY <2>2 DEF Chunks
  <2>7. /\ j.ch.id \in low..(d.next - 1) /\ j.ch.buf = Place(j.ch.id)
    BY <2>1, <2>5 DEF Alive
  <2>8. /\ Ahead(worker[w]) < worker[w].ch.size
        /\ Len(b.data) + worker[w].ch.size = b.size + Ahead(worker[w])
        /\ worker[w].ch.start + Ahead(worker[w]) = o + Len(b.data)
    BY <2>1, <2>3, <2>4, <2>5 DEF Alive
  <2>9. /\ Ahead(j) < j.ch.size
        /\ Len(b.data) + j.ch.size = b.size + Ahead(j)
        /\ j.ch.start + Ahead(j) = o + Len(b.data)
    <3>1. PICK l \in Int, z \in Int : l = Len(b.data) /\ z = b.size
      BY <2>3
    <3>2. PICK s1 \in Int, t1 \in Int, n1 \in Int :
            s1 = j.ch.size /\ t1 = j.ch.start /\ n1 = Ahead(j)
      BY <2>2, <2>6
    <3>3. PICK s2 \in Int, t2 \in Int, n2 \in Int :
            s2 = worker[w].ch.size /\ t2 = worker[w].ch.start /\ n2 = Ahead(worker[w])
      BY <2>2, <2>6
    <3>4. s1 - n1 = s2 - n2 /\ t1 + n1 = t2 + n2
      BY <2>5, <3>2, <3>3
    <3>5. n2 < s2 /\ l + s2 = z + n2 /\ t2 + n2 = o + l
      BY <2>8, <3>1, <3>3
    <3>6. n1 < s1 /\ l + s1 = z + n1 /\ t1 + n1 = o + l
      BY <3>4, <3>5
    <3> QED
      BY <3>1, <3>2, <3>6
  <2> QED
    BY <2>3, <2>4, <2>5, <2>7, <2>9 DEF Alive
<1>3. Hands(reader.id, ws)
  BY <1>1, <1>2 DEF Downloading, Held, Hands
<1>4. \A v \in Workers : Holding(ws[v]) => Holding(worker[v]) /\ ws[v].ch.id = worker[v].ch.id
  BY <1>1 DEF Continues
<1>5. Distinct(ws)
  BY <1>4 DEF Downloading, Held, Distinct
<1> QED
  BY <1>1, <1>3, <1>5

(* Nothing moves but one worker, which goes on with its chunk or gives it  *)
(* up.                                                                     *)
LEMMA WorkerMoves ==
    ASSUME Downloading, NEW w \in Workers, NEW j \in Jobs, Continues(j, worker[w]),
           worker' = [worker EXCEPT ![w] = j], Steady, d'.concurrency = d.concurrency,
           UNCHANGED <<chan, bufs, reader>>
    PROVE  Downloading'
<1>1. PICK ws, ch, low : ws = worker' /\ ch = chan /\ low = reader.id
  OBVIOUS
<1>2. ws \in [Workers -> Jobs] /\ Hands(low, ws) /\ Distinct(ws)
  BY <1>1, HandMoves
<1>3. PartTypes'
  BY <1>1, <1>2 DEF Downloading, PartTypes, Steady
<1>4. Parts'
  BY PartsStay DEF Downloading
<1>5. Queue(reader.id)'
  <2>1. \A i \in 1..Len(ch) : Alive(ch[i], 0, low)
    BY <1>1 DEF Downloading, Held, Queue
  <2>2. \A i \in 1..Len(ch) : Alive(ch[i], 0, low)'
    BY <2>1, AliveStays
  <2> QED
    BY <1>1, <2>2, QueuePrimed
<1>6. Hands(reader.id, worker)'
  <2>1. \A v \in Workers : Holding(ws[v]) => Alive(ws[v].ch, Ahead(ws[v]), low)
    BY <1>2 DEF Hands
  <2>2. \A v \in Workers : Holding(ws[v]) => Alive(ws[v].ch, Ahead(ws[v]), low)'
    BY <2>1, AliveStays
  <2> QED
    BY <1>1, <2>2, HandsPrimed
<1>7. Distinct(worker)'
  BY <1>1, <1>2, DistinctPrimed
<1>8. Reading'
  BY DEF Downloading, Reading, Steady, Cur, Place
<1> QED
  BY <1>3, <1>4, <1>5, <1>6, <1>7, <1>8 DEF Downloading, Held

(* downloadPart takes the first chunk of the channel. *)
LEMMA TakeKeeps ==
    ASSUME Downloading, NEW w \in Workers, Take(w)
    PROVE  Downloading'
<1> DEFINE low == reader.id
<1>1. /\ chan # <<>> /\ chan' = Tail(chan) /\ UNCHANGED <<d, bufs, reader>>
      /\ \/ worker' = [worker EXCEPT ![w] = Off]
         \/ worker' = [worker EXCEPT ![w] = [IdleWorker EXCEPT !.pc = "try", !.ch = Head(chan)]]
  BY DEF Take, Leave
<1>2. chan \in Seq(Chunks) /\ worker \in [Workers -> Jobs]
  BY DEF Downloading, PartTypes
<1>3. /\ chan[1] \in Chunks /\ 1 \in 1..Len(chan) /\ Head(chan) = chan[1]
      /\ chan' \in Seq(Chunks) /\ Len(chan') = Len(chan) - 1
      /\ \A i \in 1..Len(chan') : i + 1 \in 1..Len(chan) /\ chan'[i] = chan[i + 1]
  BY <1>1, <1>2
<1>4. PICK j \in Jobs : /\ worker' = [worker EXCEPT ![w] = j]
                        /\ Holding(j) => j.ch = chan[1] /\ Ahead(j) = 0
  <2>1. CASE worker' = [worker EXCEPT ![w] = Off]
    BY <2>1, JobFacts
  <2>2. CASE worker' = [worker EXCEPT ![w] = [IdleWorker EXCEPT !.pc = "try", !.ch = Head(chan)]]
    <3>1. PICK c \in Chunks : c = chan[1] /\ c = Head(chan)
      BY <1>3
    <3>2. PICK j : j = [IdleWorker EXCEPT !.pc = "try", !.ch = c]
      OBVIOUS
    <3>3. j \in Jobs /\ j.ch = c /\ Ahead(j) = 0
      BY <3>2, JobFacts
    <3> QED
      BY <2>2, <3>1, <3>2, <3>3
  <2> QED
    BY <1>1, <2>1, <2>2
<1>5. /\ worker' \in [Workers -> Jobs] /\ worker'[w] = j
      /\ \A v \in Workers : v # w => worker'[v] = worker[v]
  BY <1>2, <1>4
<1>6. PartTypes' /\ Parts' /\ Reading'
  BY <1>1, <1>3, <1>5
     DEF Downloading, PartTypes, Parts, Reading, Window, Content, Filled, Place, Cur
<1>7. \A c, n : Alive(c, n, low)' <=> Alive(c, n, low)
  BY <1>1 DEF Alive, Place
<1>8. \A i \in 1..Len(chan) : Alive(chan[i], 0, low)
  BY DEF Downloading, Held, Queue
<1>9. PICK ch, ws, lo : ch = chan' /\ ws = worker' /\ lo = low
  OBVIOUS
<1>10. Queue(reader.id)'
  <2>1. \A i \in 1..Len(ch) : Alive(ch[i], 0, lo)
    BY <1>3, <1>8, <1>9
  <2>2. \A i \in 1..Len(ch) : Alive(ch[i], 0, lo)'
    BY <1>1, <1>7, <1>9, <2>1
  <2> QED
    BY <1>1, <1>9, <2>2, QueuePrimed
<1>11. Hands(reader.id, worker)'
  <2>1. \A v \in Workers : Holding(ws[v]) => Alive(ws[v].ch, Ahead(ws[v]), lo)
    BY <1>3, <1>4, <1>5, <1>8, <1>9 DEF Downloading, Held, Hands
  <2>2. \A v \in Workers : Holding(ws[v]) => Alive(ws[v].ch, Ahead(ws[v]), lo)'
    BY <1>1, <1>7, <1>9, <2>1
  <2> QED
    BY <1>1, <1>9, <2>2, HandsPrimed
<1>12. Distinct(worker)'
  <2>1. \A i, k \in 1..Len(chan) : chan[i].id = chan[k].id => i = k
    BY DEF Downloading, Held, Distinct
  <2>2. \A i \in 1..Len(chan), v \in Workers : Holding(worker[v]) => worker[v].ch.id # chan[i].id
    BY DEF Downloading, Held, Distinct
  <2>3. \A u, v \in Workers :
          Holding(worker[u]) /\ Holding(worker[v]) /\ worker[u].ch.id = worker[v].ch.id => u = v
    BY DEF Downloading, Held, Distinct
  <2>4. \A i, k \in 1..Len(chan') : chan'[i].id = chan'[k].id => i = k
    <3> SUFFICES ASSUME NEW i \in 1..Len(chan'), NEW k \in 1..Len(chan'), chan'[i].id = chan'[k].id
                 PROVE  i = k
      OBVIOUS
    <3>1. /\ i + 1 \in 1..Len(chan) /\ chan'[i] = chan[i + 1]
          /\ k + 1 \in 1..Len(chan) /\ chan'[k] = chan[k + 1]
      BY <1>3
    <3>2. i + 1 = k + 1
      BY <2>1, <3>1
    <3> QED
      BY <3>2
  <2>5. \A i \in 1..Len(chan') : chan'[i].id # chan[1].id
    BY <1>2, <1>3, <2>1
  <2>6. \A i \in 1..Len(chan'), v \in Workers : Holding(worker'[v]) => worker'[v].ch.id # chan'[i].id
    BY <1>3, <1>4, <1>5, <2>2, <2>5
  <2>7. \A u, v \in Workers :
          Holding(worker'[u]) /\ Holding(worker'[v]) /\ worker'[u].ch.id = worker'[v].ch.id => u = v
    BY <1>3, <1>4, <1>5, <2>2, <2>3
  <2> QED
    BY <2>4, <2>6, <2>7 DEF Distinct, Holding
<1> QED
  BY <1>6, <1>10, <1>11, <1>12 DEF Downloading, Held

(* A refused worker gives its chunk back to the channel. *)
LEMMA GiveBackKeeps ==
    ASSUME Downloading, NEW w \in Workers, GiveBack(w)
    PROVE  Downloading'
<1> DEFINE low == reader.id
           c == worker[w].ch
<1>1. /\ worker[w].pc = "refused" /\ chan' = Append(chan, c) /\ UNCHANGED <<bufs, reader>>
      /\ \/ worker' = [worker EXCEPT ![w] = Off]
         \/ worker' = [worker EXCEPT ![w] = IdleWorker]
      /\ d' = [d EXCEPT !.concurrency = (IF @ > 0 THEN -@ ELSE @) - 1, !.panicked = d.closed]
  BY DEF GiveBack, Leave
<1>2. chan \in Seq(Chunks) /\ worker \in [Workers -> Jobs]
  BY DEF Downloading, PartTypes
<1>3. /\ Steady /\ d'.concurrency \in Int /\ d'.concurrency < 0
  BY <1>1 DEF Steady, Downloading, PartTypes
<1>4. /\ c \in Chunks /\ chan' \in Seq(Chunks) /\ Len(chan') = Len(chan) + 1
      /\ chan'[Len(chan) + 1] = c /\ \A i \in 1..Len(chan) : chan'[i] = chan[i]
  <2>1. c \in Chunks
    BY <1>2 DEF Jobs
  <2> QED
    BY <1>1, <1>2, <2>1
<1>5. PICK j \in Jobs : worker' = [worker EXCEPT ![w] = j] /\ ~Holding(j)
  <2> QED
    BY <1>1, JobFacts
<1>6. /\ worker' \in [Workers -> Jobs] /\ worker'[w] = j
      /\ \A v \in Workers : v # w => worker'[v] = worker[v]
  BY <1>2, <1>5
<1>7. PartTypes' /\ Reading'
  BY <1>1, <1>3, <1>4, <1>6 DEF Downloading, PartTypes, Reading, Steady, Place, Cur
<1>8. Parts'
  <2>1. d'.concurrency < Cap
    BY <1>3, CapFacts
  <2> QED
    BY <1>1, <1>3, <2>1 DEF Downloading, PartTypes, Steady, Parts, Window, Content, Filled, Place
<1>9. \A e, n : Alive(e, n, low)' <=> Alive(e, n, low)
  BY <1>1, <1>3 DEF Alive, Place, Steady
<1>10. Holding(worker[w]) /\ Ahead(worker[w]) = 0
  BY <1>1 DEF Holding, Ahead
<1>11. PICK ch, ws, lo : ch = chan' /\ ws = worker' /\ lo = low
  OBVIOUS
<1>12. Queue(reader.id)'
  <2>1. \A i \in 1..Len(chan) : Alive(chan[i], 0, low)
    BY DEF Downloading, Held, Queue
  <2>2. Alive(c, 0, low)
    BY <1>10 DEF Downloading, Held, Hands
  <2>3. \A i \in 1..Len(ch) : ch[i] = c \/ (i \in 1..Len(chan) /\ ch[i] = chan[i])
    BY <1>2, <1>4, <1>11
  <2>4. \A i \in 1..Len(ch) : Alive(ch[i], 0, lo)
    BY <1>11, <2>1, <2>2, <2>3
  <2>5. \A i \in 1..Len(ch) : Alive(ch[i], 0, lo)'
    BY <1>1, <1>9, <1>11, <2>4
  <2> QED
    BY <1>1, <1>11, <2>5, QueuePrimed
<1>13. Hands(reader.id, worker)'
  <2>1. \A v \in Workers : Holding(ws[v]) => Alive(ws[v].ch, Ahead(ws[v]), lo)
    BY <1>5, <1>6, <1>11 DEF Downloading, Held, Hands
  <2>2. \A v \in Workers : Holding(ws[v]) => Alive(ws[v].ch, Ahead(ws[v]), lo)'
    BY <1>1, <1>9, <1>11, <2>1
  <2> QED
    BY <1>1, <1>11, <2>2, HandsPrimed
<1>14. Distinct(worker)'
  <2>1. \A i, k \in 1..Len(chan) : chan[i].id = chan[k].id => i = k
    BY DEF Downloading, Held, Distinct
  <2>2. \A i \in 1..Len(chan), v \in Workers : Holding(worker[v]) => worker[v].ch.id # chan[i].id
    BY DEF Downloading, Held, Distinct
  <2>3. \A u, v \in Workers :
          Holding(worker[u]) /\ Holding(worker[v]) /\ worker[u].ch.id = worker[v].ch.id => u = v
    BY DEF Downloading, Held, Distinct
  <2>4. \A i, k \in 1..Len(chan') : chan'[i].id = chan'[k].id => i = k
    BY <1>2, <1>4, <1>10, <2>1, <2>2
  <2>5. \A i \in 1..Len(chan'), v \in Workers : Holding(worker'[v]) => worker'[v].ch.id # chan'[i].id
    BY <1>2, <1>4, <1>5, <1>6, <1>10, <2>2, <2>3
  <2>6. \A u, v \in Workers :
          Holding(worker'[u]) /\ Holding(worker'[v]) /\ worker'[u].ch.id = worker'[v].ch.id => u = v
    BY <1>5, <1>6, <2>3
  <2> QED
    BY <2>4, <2>5, <2>6 DEF Distinct, Holding
<1> QED
  BY <1>7, <1>8, <1>12, <1>13, <1>14 DEF Downloading, Held

(* What a chunk of the window says of its buffer. *)
LEMMA AliveFacts ==
    ASSUME PartTypes, NEW low \in Nat, Window(low), NEW c \in Chunks, NEW n \in Int, Alive(c, n, low)
    PROVE  /\ c.id \in Nat /\ c.buf \in 1..Len(bufs) /\ bufs[c.buf] \in Buffers
           /\ Offset(c.id) \in Int /\ Len(bufs[c.buf].data) \in Nat
<1>1. c.id \in Nat /\ c.buf = Place(c.id)
  BY DEF Alive, PartTypes, Chunks
<1>2. bufs \in Seq(Buffers) /\ Len(bufs) >= 1
  BY DEF PartTypes, Window
<1>3. PICK p : p = c.buf /\ p \in 1..Len(bufs)
  BY <1>1, <1>2, PlaceFacts
<1>4. PICK b : b = bufs[p] /\ b \in Buffers
  BY <1>2, <1>3
<1>5. Len(b.data) \in Nat
  BY <1>4 DEF Buffers
<1>6. Offset(c.id) \in Int
  BY <1>1, OffsetFacts
<1> QED
  BY <1>1, <1>3, <1>4, <1>5, <1>6

(* Buf.Write appends the next bytes of the range. *)
LEMMA WrittenFacts ==
    ASSUME NEW b \in Buffers, NEW c \in Chunks, NEW k \in Nat
    PROVE  LET x == BufWrite(b, c, k)
           IN  /\ x \in Buffers /\ x.size = b.size /\ x.offR = b.offR
               /\ Len(x.data) = Len(b.data) + k
               /\ \A i \in 1..Len(b.data) : x.data[i] = b.data[i]
               /\ \A i \in (Len(b.data) + 1)..(Len(b.data) + k) :
                    x.data[i] = c.start + (i - Len(b.data))
<1> DEFINE x == BufWrite(b, c, k)
<1>1. PICK s \in Seq(Int) : s = b.data
  BY DEF Buffers
<1>2. c.start \in Int
  BY DEF Chunks
<1>3. PICK t : t = s \o Piece(c, k)
  OBVIOUS
<1>4. /\ t \in Seq(Int) /\ Len(t) = Len(s) + k
      /\ \A i \in 1..Len(s) : t[i] = s[i]
      /\ \A i \in (Len(s) + 1)..(Len(s) + k) : t[i] = c.start + (i - Len(s))
  BY <1>2, <1>3 DEF Piece
<1>5. x.data = t /\ x.size = b.size /\ x.offR = b.offR /\ x \in Buffers
  BY <1>1, <1>3, <1>4 DEF BufWrite, Buffers
<1> QED
  BY <1>1, <1>4, <1>5

(* Bytes of the body reach the buffer of the chunk. *)
LEMMA WriteKeeps ==
    ASSUME Downloading, NEW w \in Workers, worker[w].pc = "body",
           NEW k \in Nat, k <= worker[w].ch.size, bufs' = Written(worker[w].ch, k),
           NEW j \in Jobs, worker' = [worker EXCEPT ![w] = j],
           Holding(j) => j.ch = worker[w].ch /\ Ahead(j) = k /\ k < worker[w].ch.size,
           UNCHANGED <<d, chan, reader>>
    PROVE  Downloading'
<1> DEFINE low == reader.id
           c == worker[w].ch
           p == c.buf
<1>1. PartTypes /\ Window(low) /\ low \in Nat /\ Len(bufs) \in Nat
  BY DEF Downloading, PartTypes, Parts
<1>2. /\ c \in Chunks /\ c.id \in Int /\ c.start \in Int /\ c.size \in Int
      /\ Holding(worker[w]) /\ Ahead(worker[w]) = 0
  BY DEF Downloading, PartTypes, Jobs, Chunks, Holding, Ahead
<1>3. Alive(c, 0, low)
  BY <1>2 DEF Downloading, Held, Hands
<1>4. /\ c.id \in Nat /\ p \in 1..Len(bufs) /\ bufs[p] \in Buffers
      /\ Offset(c.id) \in Int /\ Len(bufs[p].data) \in Nat
  <2>1. ASSUME NEW e \in Chunks, Alive(e, 0, low)
        PROVE  /\ e.id \in Nat /\ e.buf \in 1..Len(bufs) /\ bufs[e.buf] \in Buffers
               /\ Offset(e.id) \in Int /\ Len(bufs[e.buf].data) \in Nat
    BY <1>1, <2>1, AliveFacts
  <2> QED
    BY <1>2, <1>3, <2>1
<1>5. PICK x : x = BufWrite(bufs[p], c, k)
  OBVIOUS
<1>6. PICK l \in Nat, z \in Int, o \in Int :
        l = Len(bufs[p].data) /\ z = bufs[p].size /\ o = Offset(c.id)
  BY <1>4 DEF Buffers
<1>7. /\ x \in Buffers /\ x.size = z /\ x.offR = bufs[p].offR /\ Len(x.data) = l + k
      /\ \A i \in 1..l : x.data[i] = bufs[p].data[i]
      /\ \A i \in (l + 1)..(l + k) : x.data[i] = c.start + (i - l)
  <2>1. PICK b \in Buffers : b = bufs[p]
    BY <1>4
  <2>2. PICK e \in Chunks : e = c
    BY <1>2
  <2>3. x = BufWrite(b, e, k)
    BY <1>5, <2>1, <2>2
  <2>4. /\ x \in Buffers /\ x.size = b.size /\ x.offR = b.offR /\ Len(x.data) = Len(b.data) + k
        /\ \A i \in 1..Len(b.data) : x.data[i] = b.data[i]
        /\ \A i \in (Len(b.data) + 1)..(Len(b.data) + k) :
             x.data[i] = e.start + (i - Len(b.data))
    BY <2>3, WrittenFacts
  <2> QED
    BY <1>6, <2>1, <2>2, <2>4
<1>8. l + c.size = z /\ c.start = o + l
  BY <1>2, <1>3, <1>6 DEF Alive
<1>9. /\ bufs' = [bufs EXCEPT ![p] = x] /\ bufs' \in Seq(Buffers) /\ Len(bufs') = Len(bufs)
      /\ bufs'[p] = x /\ \A i \in 1..Len(bufs) : i # p => bufs'[i] = bufs[i]
  <2>1. bufs \in Seq(Buffers) /\ bufs' = [bufs EXCEPT ![p] = x]
    BY <1>1, <1>5 DEF Written, PartTypes
  <2>2. p \in 1..Len(bufs) /\ x \in Buffers
    BY <1>4, <1>7
  <2> QED
    BY <2>1, <2>2
<1>10. /\ worker' \in [Workers -> Jobs] /\ worker'[w] = j
       /\ \A v \in Workers : v # w => worker'[v] = worker[v]
  BY <1>1 DEF PartTypes
<1>11. PartTypes' /\ Window(reader.id)'
  BY <1>1, <1>9, <1>10 DEF PartTypes, Window
<1>12. \A id \in low..(d.next - 1) : /\ Place(id)' = Place(id) /\ Place(id) \in 1..Len(bufs)
                                     /\ id # c.id => Place(id) # p
  <2> SUFFICES ASSUME NEW id \in low..(d.next - 1)
               PROVE  /\ Place(id)' = Place(id) /\ Place(id) \in 1..Len(bufs)
                      /\ id # c.id => Place(id) # p
    OBVIOUS
  <2>1. id \in Nat /\ Len(bufs) >= 1 /\ bufs \in Seq(Buffers)
    BY <1>1 DEF PartTypes, Window
  <2>2. Place(id)' = Place(id) /\ Place(id) \in 1..Len(bufs)
    BY <1>9, <2>1, PlaceFacts DEF Place
  <2>3. ASSUME id # c.id PROVE Place(id) # p
    <3>1. c.id \in low..(d.next - 1) /\ p = Place(c.id)
      BY <1>3 DEF Alive
    <3> QED
      BY <1>1, <2>3, <3>1, ChunksApart
  <2> QED
    BY <2>2, <2>3
<1>13. p = Place(c.id) /\ c.id \in low..(d.next - 1)
  BY <1>3 DEF Alive
<1>14. \A id \in low..(d.next - 1) : Filled(bufs'[Place(id)], id, low)
  <2> SUFFICES ASSUME NEW id \in low..(d.next - 1) PROVE Filled(bufs'[Place(id)], id, low)
    OBVIOUS
  <2>1. Filled(bufs[Place(id)], id, low)
    BY DEF Downloading, Parts, Content
  <2>2. CASE id # c.id
    BY <1>9, <1>12, <2>1, <2>2
  <2>3. CASE id = c.id
    <3>1. Filled(bufs[p], c.id, low)
      BY <1>13, <2>1, <2>3
    <3>2. /\ z = ChunkSize(c.id) /\ 0 <= x.offR /\ x.offR <= l
          /\ c.id > low => x.offR = 0
          /\ \A i \in 1..l : x.data[i] = o + i
      BY <1>6, <1>7, <3>1 DEF Filled
    <3>3. x.offR \in Int
      BY <1>7 DEF Buffers
    <3>4. \A i \in 1..(l + k) : x.data[i] = o + i
      <4>1. \A i \in (l + 1)..(l + k) : x.data[i] = o + i
        BY <1>2, <1>7, <1>8
      <4> QED
        BY <3>2, <4>1
    <3>5. x.offR <= l + k /\ l + k <= z
      BY <1>2, <1>8, <3>2, <3>3
    <3>6. Filled(x, c.id, low)
      BY <1>6, <1>7, <3>2, <3>4, <3>5 DEF Filled
    <3> QED
      BY <1>9, <1>13, <2>3, <3>6
  <2> QED
    BY <2>2, <2>3
<1>15. Content(reader.id)'
  BY <1>12, <1>14 DEF Content, Filled
<1>16. Reading'
  <2>1. reader.id < d.next /\ reader.buf = Place(reader.id)
    BY DEF Downloading, Reading
  <2>2. reader.id \in low..(d.next - 1)
    BY <1>1, <2>1 DEF PartTypes
  <2>3. bufs'[reader.buf].offR = bufs[reader.buf].offR
    BY <1>7, <1>9, <1>12, <2>1, <2>2
  <2> QED
    BY <1>12, <2>1, <2>2, <2>3 DEF Downloading, Reading, Cur
<1>17. ASSUME NEW e \in Chunks, NEW n \in Int, Alive(e, n, low), e.id # c.id
       PROVE  Alive(e, n, low)'
  <2>1. e.id \in low..(d.next - 1) /\ e.buf = Place(e.id)
    BY <1>17 DEF Alive
  <2>2. bufs'[e.buf] = bufs[e.buf] /\ Place(e.id)' = Place(e.id)
    BY <1>9, <1>12, <1>17, <2>1
  <2> QED
    BY <1>17, <2>2 DEF Alive
<1>18. Queue(reader.id)'
  <2>1. PICK ch, lo : ch = chan /\ lo = low
    OBVIOUS
  <2> SUFFICES ASSUME NEW i \in 1..Len(ch) PROVE Alive(ch[i], 0, lo)'
    BY <2>1, QueuePrimed
  <2>2. ch[i] \in Chunks /\ Alive(ch[i], 0, low)
    BY <1>1, <2>1 DEF Downloading, Held, Queue, PartTypes
  <2>3. ch[i].id # c.id
    BY <1>2, <2>1 DEF Downloading, Held, Distinct
  <2> QED
    BY <1>17, <2>1, <2>2, <2>3
<1>19. Hands(reader.id, worker)'
  <2>1. PICK vs, e : vs = worker' /\ e = c
    OBVIOUS
  <2>2. PICK lo : lo = low
    OBVIOUS
  <2> SUFFICES ASSUME NEW v \in Workers, Holding(vs[v])
               PROVE  Alive(vs[v].ch, Ahead(vs[v]), lo)'
    BY <2>2, <2>1, HandsPrimed
  <2>3. CASE v # w
    <3>1. PICK f \in Chunks, n \in Int : f = worker[v].ch /\ n = Ahead(worker[v])
      <4>1. worker[v] \in Jobs
        BY <1>1 DEF PartTypes
      <4> QED
        BY <4>1 DEF Jobs, Ahead
    <3>2. Alive(f, n, low) /\ f.id # c.id
      BY <1>2, <1>10, <2>1, <2>3, <3>1 DEF Downloading, Held, Hands, Distinct
    <3>3. Alive(f, n, lo)'
      BY <1>17, <2>2, <3>2
    <3>4. vs[v] = worker[v]
      BY <1>10, <2>1, <2>3
    <3> QED
      BY <3>1, <3>3, <3>4
  <2>4. CASE v = w
    <3>1. vs[v].ch = e /\ Ahead(vs[v]) = k /\ k < e.size
      BY <1>10, <2>1, <2>4
    <3>2. e.id \in lo..(d'.next - 1) /\ e.buf = Place(e.id)' /\ bufs'[e.buf] = x
      BY <1>9, <1>12, <1>13, <2>2, <2>1
    <3>3. Len(x.data) = l + k /\ x.size = z /\ e.size \in Int /\ e.start \in Int
      BY <1>2, <1>7, <2>1
    <3>4. l + e.size = z /\ e.start = o + l
      BY <1>8, <2>1
    <3>5. Len(x.data) + e.size = x.size + k /\ e.start + k = o + Len(x.data)
      <4>1. PICK s \in Int, t \in Int : s = e.size /\ t = e.start
        BY <3>3
      <4>2. l + k + s = z + k /\ t + k = o + (l + k)
        BY <3>4, <4>1
      <4> QED
        BY <3>3, <4>1, <4>2
    <3>6. o = Offset(e.id)
      BY <1>6, <2>1
    <3>7. Alive(e, k, lo)'
      BY <3>1, <3>2, <3>5, <3>6 DEF Alive
    <3> QED
      BY <3>1, <3>7
  <2> QED
    BY <2>3, <2>4
<1>20. Distinct(worker)'
  <2>1. \A v \in Workers : Holding(worker'[v]) => Holding(worker[v]) /\ worker'[v].ch.id = worker[v].ch.id
    BY <1>2, <1>10
  <2> QED
    BY <2>1 DEF Downloading, Held, Distinct, Holding
<1> QED
  BY <1>11, <1>15, <1>16, <1>18, <1>19, <1>20 DEF Downloading, Held, Parts

(* A buffer that is reset, and one that is new. *)
LEMMA ResetFacts ==
    /\ NewBuf \in Buffers
    /\ \A b \in Buffers, s \in Int :
        /\ Reset(b, s) \in Buffers /\ Reset(b, s).size = s
        /\ Reset(b, s).offR = 0 /\ Reset(b, s).data = <<>>
<1>1. PartSize \in Int /\ <<>> \in Seq(Int)
  BY DownloadAssumption
<1>2. NewBuf \in Buffers
  BY <1>1 DEF NewBuf, Buffers
<1>3. ASSUME NEW b \in Buffers, NEW s \in Int
      PROVE  /\ Reset(b, s) \in Buffers /\ Reset(b, s).size = s
             /\ Reset(b, s).offR = 0 /\ Reset(b, s).data = <<>>
  <2>1. PICK o \in Int : o = 0
    OBVIOUS
  <2>2. PICK e \in Seq(Int) : e = <<>>
    BY <1>1
  <2>3. PICK x : x = [b EXCEPT !.size = s, !.offR = o, !.data = e]
    OBVIOUS
  <2>4. x \in Buffers
    BY <2>3 DEF Buffers
  <2>5. x.size = s /\ x.offR = o /\ x.data = e
    BY <2>3 DEF Buffers
  <2>6. x = Reset(b, s)
    BY <2>1, <2>2, <2>3 DEF Reset
  <2> QED
    BY <2>1, <2>2, <2>4, <2>5, <2>6
<1> QED
  BY <1>2, <1>3

(* The branches of sendChunkTask: is there more of the range, the buffers   *)
(* with a new one if concurrency is left, and the index of the next chunk's. *)
More == d.pos < Length
Grown == IF d.concurrency > 0 THEN Append(bufs, NewBuf) ELSE bufs
Target == IF d.concurrency > 0 THEN Len(bufs) + 1 ELSE (d.next % Len(bufs)) + 1

Sends(new, ws) ==
    /\ new => d.concurrency > 0
    /\ bufs' = IF More THEN [Grown EXCEPT ![Target] = Reset(Grown[Target], ChunkSize(d.next))]
               ELSE Grown
    /\ chan' = IF More THEN Append(chan, Chunk(d.next, d.pos, ChunkSize(d.next), Target, new))
               ELSE chan
    /\ d' = [d EXCEPT !.concurrency = IF new THEN d.concurrency - 1 ELSE d.concurrency,
                      !.pos = IF More THEN d.pos + ChunkSize(d.next) ELSE d.pos,
                      !.next = IF More THEN d.next + 1 ELSE d.next]
    /\ worker' = IF new THEN [ws EXCEPT ![Cap - d.concurrency + 1] = IdleWorker] ELSE ws

(* sendChunkTask starts no worker and sends nothing, or it does all this.  *)
LEMMA SendCases ==
    ASSUME PartTypes, NEW new \in BOOLEAN, NEW ws, SendChunkTask(new, ws)
    PROVE  \/ new /\ worker' = ws /\ UNCHANGED <<d, chan, bufs>>
           \/ Sends(new, ws)
<1>1. d.concurrency \in Int
  BY DEF PartTypes
<1>2. CASE new /\ (d.concurrency <= 0 \/ free = 0)
  BY <1>2 DEF SendChunkTask
<1>3. CASE ~(new /\ (d.concurrency <= 0 \/ free = 0))
  <2>1. new => d.concurrency > 0
    BY <1>1, <1>3
  <2> QED
    BY <1>3, <2>1 DEF SendChunkTask, Sends, More, Grown, Target
<1> QED
  BY <1>2, <1>3

(* How sendChunkTask finds a buffer: there are m of them then, those *)
(* of the window stay where they are, and the next chunk gets another, t.  *)
Roomy(m, t, low) ==
    /\ m >= Len(bufs) /\ t \in 1..m /\ Target = t
    /\ Grown \in Seq(Buffers) /\ Len(Grown) = m
    /\ d.next - low < m
    /\ d.concurrency > 0 => m = Len(bufs) + 1
    /\ \A id \in low..(d.next - 1) :
         /\ Place(id) \in 1..m /\ (id % m) + 1 = Place(id) /\ Place(id) # t
         /\ Grown[Place(id)] = bufs[Place(id)]
    /\ More => d.next < MaxPart /\ (d.next % m) + 1 = t

(* In the window there is such a buffer, whoever sends. *)
LEMMA GrownFacts ==
    ASSUME PartTypes, NEW low \in Nat, Window(low), d.concurrency <= 0 => d.next - low < Len(bufs)
    PROVE  \E m, t \in Nat : Roomy(m, t, low)
<1>1. PICK l \in Nat, next \in Nat, con \in Int, top \in Nat :
        l = Len(bufs) /\ next = d.next /\ con = d.concurrency /\ top = MaxPart
  BY SizeFacts DEF PartTypes
<1>2. /\ bufs \in Seq(Buffers) /\ l >= 1 /\ next - low <= l /\ next <= top /\ low <= next
      /\ con > 0 => next <= l /\ (next < top => l = next)
      /\ con <= 0 => next - low < l
  BY <1>1 DEF PartTypes, Window
<1>3. More => next < top
  <2>1. d.pos = Offset(next) /\ Offset(top) = Length /\ Length \in Nat
    BY <1>1, OffsetFacts, DownloadAssumption DEF Window
  <2>2. next = top => ~More
    BY <2>1 DEF More
  <2> QED
    BY <1>2, <2>2
<1>4. \A id \in low..(next - 1) : Place(id) \in 1..l /\ (id < l => Place(id) = id + 1)
  <2> SUFFICES ASSUME NEW id \in low..(next - 1)
               PROVE  Place(id) \in 1..l /\ (id < l => Place(id) = id + 1)
    OBVIOUS
  <2>1. id \in Nat
    OBVIOUS
  <2> QED
    BY <1>1, <1>2, <2>1, PlaceFacts
<1>5. CASE con > 0
  <2>1. /\ Grown = Append(bufs, NewBuf) /\ Target = l + 1
    BY <1>1, <1>5 DEF Grown, Target
  <2>2. Grown \in Seq(Buffers) /\ Len(Grown) = l + 1 /\ \A i \in 1..l : Grown[i] = bufs[i]
    BY <1>1, <1>2, <2>1, ResetFacts
  <2>3. next - low < l + 1
    BY <1>2
  <2>4. ASSUME NEW id \in low..(next - 1)
        PROVE  /\ Place(id) \in 1..(l + 1) /\ (id % (l + 1)) + 1 = Place(id)
               /\ Grown[Place(id)] = bufs[Place(id)] /\ Place(id) # l + 1
    <3>1. id \in Nat /\ id < l
      BY <1>2, <1>5
    <3>2. Place(id) = id + 1 /\ Place(id) \in 1..l
      BY <1>4, <3>1
    <3>3. id % (l + 1) = id
      BY <3>1
    <3>4. PICK p \in Nat : p = Place(id)
      BY <3>2
    <3>5. p \in 1..(l + 1) /\ p # l + 1 /\ p \in 1..l /\ (id % (l + 1)) + 1 = p
      BY <3>2, <3>3, <3>4
    <3>6. Grown[p] = bufs[p]
      BY <2>2, <3>5
    <3> QED
      BY <3>4, <3>5, <3>6
  <2>5. More => (next % (l + 1)) + 1 = l + 1
    <3>1. next % (next + 1) = next
      OBVIOUS
    <3> QED
      BY <1>2, <1>3, <1>5, <3>1
  <2>6. l + 1 \in Nat /\ l + 1 \in 1..(l + 1)
    OBVIOUS
  <2>7. Roomy(l + 1, l + 1, low)
    BY <1>1, <1>3, <1>5, <2>1, <2>2, <2>3, <2>4, <2>5, <2>6 DEF Roomy
  <2> QED
    BY <2>6, <2>7
<1>6. CASE con <= 0
  <2>1. Grown = bufs /\ Target = Place(next)
    BY <1>1, <1>6 DEF Grown, Target, Place
  <2>2. Place(next) \in 1..l
    BY <1>1, <1>2, PlaceFacts
  <2>3. next - low < l
    BY <1>2, <1>6
  <2>4. ASSUME NEW id \in low..(next - 1) PROVE Place(id) # Place(next)
    <3>1. l \in Nat \ {0} /\ id \in Nat /\ id < next /\ next < id + l
      BY <1>2, <2>3
    <3>2. id % l # next % l
      BY <3>1, PlacesDiffer
    <3>3. id % l \in Int /\ next % l \in Int
      BY <3>1, DivisionFacts
    <3>4. Place(id) = (id % l) + 1 /\ Place(next) = (next % l) + 1
      BY <1>1 DEF Place
    <3> QED
      BY <3>2, <3>3, <3>4
  <2>5. \A id \in Nat : (id % l) + 1 = Place(id)
    BY <1>1 DEF Place
  <2>6. Roomy(l, Place(next), low)
    <3>1. /\ l >= Len(bufs) /\ Place(next) \in 1..l /\ Target = Place(next)
          /\ Grown \in Seq(Buffers) /\ Len(Grown) = l
          /\ d.next - low < l /\ (d.concurrency > 0 => l = Len(bufs) + 1)
      BY <1>1, <1>2, <1>6, <2>1, <2>2, <2>3
    <3>2. \A id \in low..(next - 1) :
            /\ Place(id) \in 1..l /\ (id % l) + 1 = Place(id) /\ Place(id) # Place(next)
            /\ Grown[Place(id)] = bufs[Place(id)]
      BY <1>4, <2>1, <2>4, <2>5
    <3>3. More => d.next < MaxPart /\ (d.next % l) + 1 = Place(next)
      BY <1>1, <1>3, <2>5
    <3> QED
      BY <1>1, <3>1, <3>2, <3>3 DEF Roomy
  <2> QED
    BY <2>2, <2>6
<1> QED
  BY <1>5, <1>6

(* What the channel, the workers and the buffers say of the window. *)
Sound(low, ws) == Window(low) /\ Content(low) /\ Queue(low) /\ Hands(low, ws) /\ Distinct(ws)

(* The types of what sendChunkTask changes. *)
SentTypes ==
    /\ {"next", "pos", "concurrency"} \subseteq DOMAIN d
    /\ d.next \in Nat /\ d.pos \in Int /\ d.concurrency \in Int
    /\ chan \in Seq(Chunks) /\ bufs \in Seq(Buffers)

(* sendChunkTask keeps what the channel, the workers and the buffers say   *)
(* of the window from low on; ws and vs are the workers before and after.  *)
LEMMA SendKeepsWindow ==
    ASSUME PartTypes, NEW low \in Nat, NEW new \in BOOLEAN, NEW ws \in [Workers -> Jobs],
           Sends(new, ws), Sound(low, ws),
           ~new => d.next - low < Cap /\ d.next - low < Len(bufs),
           ~new /\ d.concurrency > 0 => d.next - low < Cap - d.concurrency,
           NEW vs, vs = worker'
    PROVE  /\ vs \in [Workers -> Jobs] /\ SentTypes' /\ Sound(low, vs)'
           /\ d'.next >= d.next /\ (d.next < MaxPart => d'.next > d.next)
           /\ \A id \in low..(d.next - 1) :
                Place(id)' = Place(id) /\ bufs'[Place(id)] = bufs[Place(id)]
           /\ \A id \in d.next..(d'.next - 1) : bufs'[Place(id)'].offR = 0
<1>1. Window(low) /\ Content(low) /\ Queue(low) /\ Hands(low, ws) /\ Distinct(ws)
  BY DEF Sound
<1>2. PICK m \in Nat, t \in Nat : Roomy(m, t, low)
  <2>1. d.concurrency \in Int /\ (new => d.concurrency > 0)
    BY DEF PartTypes, Sends
  <2>2. d.concurrency <= 0 => d.next - low < Len(bufs)
    BY <2>1
  <2> QED
    BY <1>1, <2>2, GrownFacts
<1>3. PICK size \in Nat : size = ChunkSize(d.next) /\ size > 0
  <2>1. d.next \in Nat /\ PartSize \in Nat
    BY DownloadAssumption DEF PartTypes
  <2>2. ChunkSize(d.next) \in 1..PartSize
    BY <2>1, SizeFacts
  <2> QED
    BY <2>1, <2>2
<1>4. PICK x : x = Reset(Grown[t], size)
  OBVIOUS
<1>5. x \in Buffers /\ x.size = size /\ x.offR = 0 /\ x.data = <<>>
  <2>1. PICK g \in Buffers : g = Grown[t]
    BY <1>2 DEF Roomy
  <2>2. x = Reset(g, size) /\ size \in Int
    BY <1>4, <2>1
  <2> QED
    BY <2>2, ResetFacts
<1>6. /\ bufs' \in Seq(Buffers) /\ Len(bufs') = m
      /\ More => bufs'[t] = x
      /\ \A i \in 1..m : i # t => bufs'[i] = Grown[i]
  <2>1. bufs' = IF More THEN [Grown EXCEPT ![t] = x] ELSE Grown
    BY <1>2, <1>4, <1>3 DEF Sends, Roomy
  <2>2. Grown \in Seq(Buffers) /\ Len(Grown) = m /\ t \in 1..m
    BY <1>2 DEF Roomy
  <2> QED
    BY <1>5, <2>1, <2>2
<1>7. \A id \in low..(d.next - 1) : /\ Place(id)' = Place(id) /\ Place(id) # t
                                    /\ bufs'[Place(id)] = bufs[Place(id)]
  BY <1>2, <1>6 DEF Roomy, Place
<1>8. /\ {"next", "pos", "concurrency"} \subseteq DOMAIN d'
      /\ d'.next = IF More THEN d.next + 1 ELSE d.next
      /\ d'.pos = IF More THEN d.pos + size ELSE d.pos
      /\ d'.concurrency = IF new THEN d.concurrency - 1 ELSE d.concurrency
      /\ new => d.concurrency > 0
  BY <1>3 DEF Sends, PartTypes
<1>9. /\ d.next \in Nat /\ d.pos \in Int /\ d.concurrency \in Int
      /\ d'.next \in Nat /\ d'.pos \in Int /\ d'.concurrency \in Int
  <2>1. d.next \in Nat /\ d.pos \in Int /\ d.concurrency \in Int
    BY DEF PartTypes
  <2>2. d'.next \in Nat
    BY <1>8, <2>1
  <2>3. d'.pos \in Int
    BY <1>8, <2>1
  <2>4. d'.concurrency \in Int
    BY <1>8, <2>1
  <2> QED
    BY <2>1, <2>2, <2>3, <2>4
<1>10. PICK c : c = Chunk(d.next, d.pos, size, t, new)
  OBVIOUS
<1>11. /\ c \in Chunks /\ c.id = d.next /\ c.buf = t /\ c.size = size /\ c.start = d.pos
       /\ chan' = IF More THEN Append(chan, c) ELSE chan
  <2>1. c \in Chunks /\ c.id = d.next /\ c.buf = t /\ c.size = size /\ c.start = d.pos
    BY <1>9, <1>10 DEF Chunk, Chunks
  <2> QED
    BY <1>2, <1>3, <1>10, <2>1 DEF Sends, Roomy
<1>12. /\ chan \in Seq(Chunks) /\ chan' \in Seq(Chunks)
       /\ \A i \in 1..Len(chan) : chan'[i] = chan[i]
       /\ IF More THEN Len(chan') = Len(chan) + 1 /\ chan'[Len(chan) + 1] = c
                  ELSE Len(chan') = Len(chan)
  BY <1>11 DEF PartTypes
<1>13. SentTypes'
  BY <1>6, <1>8, <1>9, <1>12 DEF SentTypes
<1>14. /\ vs \in [Workers -> Jobs]
       /\ \A w \in Workers : Holding(vs[w]) => vs[w] = ws[w]
  <2>1. vs = ws \/ vs = [ws EXCEPT ![Cap - d.concurrency + 1] = IdleWorker]
    BY DEF Sends
  <2> QED
    BY <2>1, JobFacts
<1>15. d'.next >= d.next /\ d'.next <= MaxPart /\ (d.next < MaxPart => d'.next > d.next)
  <2>1. PICK top \in Nat : top = MaxPart /\ d.next <= top
    BY <1>1, SizeFacts DEF Window
  <2>2. More => d.next < top
    BY <1>2, <2>1 DEF Roomy
  <2>3. ASSUME d.next < top PROVE More
    <3>1. d.next < MaxPart
      BY <2>1, <2>3
    <3>2. Offset(d.next) < Length
      <4>1. PICK a \in Nat : a = d.next
        BY <1>9
      <4> QED
        BY <2>1, <3>1, <4>1, OffsetFacts
    <3> QED
      BY <1>1, <3>2 DEF Window, More
  <2> QED
    BY <1>8, <1>9, <2>1, <2>2, <2>3
<1>16. Window(low)'
  <2>1. PICK a \in Nat, con \in Int, top \in Nat, cap \in Nat, l \in Nat, b \in Nat, con2 \in Int :
          /\ a = d.next /\ con = d.concurrency /\ top = MaxPart /\ cap = Cap /\ l = Len(bufs)
          /\ b = d'.next /\ con2 = d'.concurrency
    <3>1. Len(bufs) \in Nat
      BY DEF PartTypes
    <3> QED
      BY <1>9, <3>1, SizeFacts, CapFacts
  <2>2. /\ con < cap /\ low <= a /\ a <= top /\ a - low <= cap
        /\ con > 0 => a - low <= cap - con
        /\ con > 0 => a <= l /\ (a < top => l = a)
    BY <1>1, <2>1 DEF Window
  <2>3. /\ b = (IF More THEN a + 1 ELSE a)
        /\ con2 = (IF new THEN con - 1 ELSE con)
        /\ new => con > 0
        /\ ~new => a - low < cap
        /\ ~new /\ con > 0 => a - low < cap - con
        /\ b <= top /\ (a < top => b > a)
    BY <1>8, <1>15, <2>1
  <2>4. /\ m >= 1 /\ a - low < m /\ (con > 0 => m = l + 1)
        /\ More => a < top
    BY <1>2, <2>1 DEF Roomy
  <2>5. con2 < cap /\ low <= b /\ b - low <= cap /\ b - low <= m
    BY <2>2, <2>3, <2>4
  <2>6. con2 > 0 => b - low <= cap - con2
    BY <2>2, <2>3
  <2>7. con2 > 0 => b <= m /\ (b < top => m = b)
    BY <2>2, <2>3, <2>4
  <2>8. d'.pos = Offset(b)
    <3>1. d.pos = Offset(a)
      BY <1>1, <2>1 DEF Window
    <3>2. Offset(a + 1) = Offset(a) + size
      BY <1>3, <2>1, OffsetFacts
    <3> QED
      BY <1>8, <2>3, <3>1, <3>2
  <2> QED
    BY <1>6, <2>1, <2>3, <2>4, <2>5, <2>6, <2>7, <2>8 DEF Window
<1>17. \A id \in d.next..(d'.next - 1) : bufs'[Place(id)'] = x /\ id = d.next
  <2> SUFFICES ASSUME NEW id \in d.next..(d'.next - 1) PROVE bufs'[Place(id)'] = x /\ id = d.next
    OBVIOUS
  <2>1. More /\ id = d.next
    BY <1>8, <1>9
  <2>2. Place(id)' = t
    BY <1>2, <1>6, <2>1 DEF Roomy, Place
  <2> QED
    BY <1>6, <2>1, <2>2
<1>18. Content(low)'
  <2> SUFFICES ASSUME NEW id \in low..(d'.next - 1) PROVE Filled(bufs'[Place(id)'], id, low)
    BY DEF Content, Filled
  <2>1. CASE id \in low..(d.next - 1)
    BY <1>1, <1>7, <2>1 DEF Content
  <2>2. CASE id \notin low..(d.next - 1)
    <3>1. id \in d.next..(d'.next - 1)
      BY <1>9, <2>2
    <3>2. bufs'[Place(id)'] = x /\ id = d.next
      BY <1>17, <3>1
    <3>3. Filled(x, id, low)
      BY <1>3, <1>5, <3>2 DEF Filled
    <3> QED
      BY <3>2, <3>3
  <2> QED
    BY <2>1, <2>2
<1>19. ASSUME NEW e, NEW n, Alive(e, n, low) PROVE Alive(e, n, low)'
  <2>1. e.id \in low..(d.next - 1) /\ e.buf = Place(e.id)
    BY <1>19 DEF Alive
  <2>2. bufs'[e.buf] = bufs[e.buf] /\ Place(e.id)' = Place(e.id)
    BY <1>7, <2>1
  <2>3. e.id \in low..(d'.next - 1)
    BY <1>9, <1>15, <2>1
  <2> QED
    BY <1>19, <2>1, <2>2, <2>3 DEF Alive
<1>20. ASSUME More PROVE Alive(c, 0, low)'
  <2>1. c.id \in low..(d'.next - 1)
    <3>1. low <= d.next
      BY <1>1 DEF Window
    <3> QED
      BY <1>8, <1>9, <1>11, <1>20, <3>1
  <2>2. c.buf = Place(c.id)' /\ bufs'[c.buf] = x
    BY <1>2, <1>6, <1>11, <1>20 DEF Roomy, Place
  <2>3. c.start = Offset(c.id) /\ Offset(c.id) \in Int
    <3>1. d.pos = Offset(d.next)
      BY <1>1 DEF Window
    <3> QED
      BY <1>9, <1>11, <3>1
  <2>4. c.size = size /\ x.size = size /\ Len(x.data) = 0
    BY <1>5, <1>11
  <2>5. c.size > 0 /\ 0 + c.size = size + 0
    BY <1>3, <2>4
  <2> QED
    BY <2>1, <2>2, <2>3, <2>4, <2>5 DEF Alive
<1>21. Queue(low)'
  BY <1>1, <1>12, <1>19, <1>20 DEF Queue
<1>22. Hands(low, vs)'
  <2> SUFFICES ASSUME NEW w \in Workers, Holding(vs[w]) PROVE Alive(vs[w].ch, Ahead(vs[w]), low)'
    BY DEF Hands, Holding, Ahead
  <2> QED
    BY <1>1, <1>14, <1>19 DEF Hands
<1>23. Distinct(vs)'
  <2>1. \A i, k \in 1..Len(chan) : chan[i].id = chan[k].id => i = k
    BY <1>1 DEF Distinct
  <2>2. \A i \in 1..Len(chan), w \in Workers : Holding(ws[w]) => ws[w].ch.id # chan[i].id
    BY <1>1 DEF Distinct
  <2>3. \A i \in 1..Len(chan) : chan[i].id # d.next
    BY <1>1, <1>9 DEF Queue, Alive
  <2>4. \A w \in Workers : Holding(ws[w]) => ws[w].ch.id # d.next
    BY <1>1, <1>9 DEF Hands, Alive
  <2>5. \A i, k \in 1..Len(chan') : chan'[i].id = chan'[k].id => i = k
    BY <1>11, <1>12, <2>1, <2>3
  <2>6. \A i \in 1..Len(chan'), w \in Workers : Holding(vs[w]) => vs[w].ch.id # chan'[i].id
    BY <1>11, <1>12, <1>14, <2>2, <2>4
  <2>7. \A w, v \in Workers :
          Holding(vs[w]) /\ Holding(vs[v]) /\ vs[w].ch.id = vs[v].ch.id => w = v
    BY <1>1, <1>14 DEF Distinct
  <2> QED
    BY <2>5, <2>6, <2>7 DEF Distinct, Holding
<1> QED
  BY <1>5, <1>17, <1>7, <1>13, <1>14, <1>15, <1>16, <1>18, <1>21, <1>22, <1>23 DEF Sound

(* What is sound after a step, for the reader and the workers as they are. *)
LEMMA SoundPrimed ==
    ASSUME NEW low, NEW ws, low = reader'.id, ws = worker', Sound(low, ws)'
    PROVE  Parts' /\ Held'
<1>1. Window(reader.id)' /\ Content(reader.id)'
  BY DEF Sound, Window, Content, Place
<1>2. PICK ch : ch = chan'
  OBVIOUS
<1>3. Queue(reader.id)'
  <2>1. \A i \in 1..Len(ch) : Alive(ch[i], 0, low)'
    BY <1>2 DEF Sound, Queue, Alive, Place
  <2> QED
    BY <1>2, <2>1, QueuePrimed
<1>4. Hands(reader.id, worker)'
  <2>1. \A w \in Workers : Holding(ws[w]) => Alive(ws[w].ch, Ahead(ws[w]), low)'
    BY DEF Sound, Hands
  <2> QED
    BY <2>1, HandsPrimed
<1>5. Distinct(worker)'
  BY DEF Sound, Distinct
<1> QED
  BY <1>1, <1>3, <1>4, <1>5 DEF Parts, Held

(* A request is answered: the chunk stays with its worker. *)
LEMMA RespondKeeps ==
    ASSUME Downloading, NEW w \in Workers, Respond(w)
    PROVE  Downloading'
<1> DEFINE j == [worker[w] EXCEPT !.pc = "body"]
           ws == [worker EXCEPT ![w] = j]
           low == reader.id
<1>1. worker[w].pc = "try" /\ SendChunkTask(TRUE, ws) /\ UNCHANGED reader
  BY DEF Respond
<1>2. worker[w] \in Jobs /\ PartTypes
  BY DEF Downloading, PartTypes
<1>3. j \in Jobs /\ Continues(j, worker[w])
  <2>1. j \in Jobs /\ j.pc = "body" /\ j.ch = worker[w].ch
    BY <1>2 DEF Jobs, Stages
  <2> QED
    BY <1>1, <2>1 DEF Continues, Holding, Ahead
<1>4. PICK vs0 : vs0 = ws
  OBVIOUS
<1>5. vs0 \in [Workers -> Jobs] /\ Hands(low, vs0) /\ Distinct(vs0)
  BY <1>3, <1>4, HandMoves
<1>6. CASE worker' = ws /\ UNCHANGED <<d, chan, bufs>>
  <2>1. Steady /\ d'.concurrency = d.concurrency
    BY <1>2, <1>6 DEF Steady, PartTypes
  <2> QED
    BY <1>1, <1>3, <1>6, <2>1, WorkerMoves
<1>7. CASE Sends(TRUE, vs0)
  <2>1. PICK vs : vs = worker'
    OBVIOUS
  <2>2. PICK l \in Nat, new \in BOOLEAN : l = low /\ (new <=> TRUE)
    BY <1>2 DEF PartTypes
  <2>3. Sound(l, vs0) /\ Sends(new, vs0)
    BY <1>5, <1>7, <2>2 DEF Sound, Downloading, Parts, Held
  <2>4. /\ vs \in [Workers -> Jobs] /\ SentTypes' /\ Sound(l, vs)'
        /\ d'.next >= d.next
        /\ \A id \in l..(d.next - 1) :
             Place(id)' = Place(id) /\ bufs'[Place(id)] = bufs[Place(id)]
    BY <1>2, <1>5, <2>1, <2>2, <2>3, SendKeepsWindow
  <2>5. PartTypes'
    BY <1>1, <1>2, <2>1, <2>4 DEF PartTypes, SentTypes
  <2>6. Parts' /\ Held'
    BY <1>1, <2>1, <2>2, <2>4, SoundPrimed
  <2>7. Reading'
    <3>1. /\ reader.id < d.next /\ reader.buf = Place(reader.id)
          /\ Len(reader.got) = Offset(reader.id) + bufs[reader.buf].offR
          /\ \A i \in 1..Len(reader.got) : reader.got[i] = i
          /\ reader.pc = "eof" => Len(reader.got) = Length
      BY DEF Downloading, Reading, Cur
    <3>2. l \in l..(d.next - 1) /\ d.next \in Nat /\ d'.next \in Nat
      BY <1>2, <2>2, <2>4, <3>1 DEF PartTypes, SentTypes
    <3>3. Place(l)' = Place(l) /\ bufs'[Place(l)] = bufs[Place(l)]
      BY <2>4, <3>2
    <3>4. reader.id < d'.next
      BY <2>2, <2>4, <3>1, <3>2
    <3>5. reader.buf = Place(l)' /\ bufs'[reader.buf] = bufs[reader.buf]
      BY <2>2, <3>1, <3>3
    <3> QED
      BY <1>1, <2>2, <3>1, <3>4, <3>5 DEF Reading, Cur, Place
  <2> QED
    BY <2>5, <2>6, <2>7 DEF Downloading
<1> QED
  BY <1>1, <1>2, <1>4, <1>6, <1>7, SendCases

(* The first buffer of the window, which the reader is in. *)
LEMMA CurFacts ==
    ASSUME Downloading
    PROVE  /\ reader.id \in reader.id..(d.next - 1)
           /\ reader.buf = Place(reader.id) /\ reader.buf \in 1..Len(bufs) /\ Cur \in Buffers
           /\ Filled(Cur, reader.id, reader.id)
           /\ Offset(reader.id) \in Int
<1>1. PartTypes /\ Parts /\ Reading
  BY DEF Downloading
<1>2. reader.id \in reader.id..(d.next - 1) /\ reader.buf = Place(reader.id)
  BY <1>1 DEF PartTypes, Reading
<1>3. reader.id \in Nat /\ Len(bufs) >= 1 /\ bufs \in Seq(Buffers)
  BY <1>1 DEF PartTypes, Parts, Window
<1>4. reader.buf \in 1..Len(bufs)
  BY <1>2, <1>3, PlaceFacts
<1>5. Filled(Cur, reader.id, reader.id)
  BY <1>1, <1>2 DEF Parts, Content, Cur
<1>6. Cur \in Buffers
  BY <1>3, <1>4 DEF Cur
<1>7. Offset(reader.id) \in Int
  BY <1>3, OffsetFacts
<1> QED
  BY <1>2, <1>4, <1>5, <1>6, <1>7

(* At the end of a buffer the reader has all bytes before the next one. *)
LEMMA BufferEnds ==
    ASSUME Downloading, Cur.offR >= Cur.size
    PROVE  /\ Len(reader.got) = Offset(reader.id + 1)
           /\ Len(Cur.data) = Cur.size
<1>1. PICK b \in Buffers, id \in Nat : b = Cur /\ id = reader.id
  BY CurFacts DEF Downloading, PartTypes
<1>2. PICK l \in Nat, o \in Int, z \in Int, f \in Int, c \in Int :
        l = Len(b.data) /\ o = b.offR /\ z = b.size /\ f = Offset(id) /\ c = ChunkSize(id)
  <2>1. Len(b.data) \in Nat /\ b.offR \in Int /\ b.size \in Int
    BY DEF Buffers
  <2>2. Offset(id) \in Int /\ ChunkSize(id) = b.size
    BY <1>1, CurFacts DEF Filled
  <2> QED
    BY <2>1, <2>2
<1>3. z = c /\ o <= l /\ l <= z /\ o >= z
  BY <1>1, <1>2, CurFacts DEF Filled
<1>4. Len(reader.got) = f + o
  BY <1>1, <1>2 DEF Downloading, Reading
<1>5. Offset(id + 1) = f + c
  BY <1>2, OffsetFacts
<1>6. o = c /\ l = z
  BY <1>3
<1> QED
  BY <1>1, <1>2, <1>4, <1>5, <1>6

(* finishBuf: the end of the range, or the next buffer. *)
LEMMA FinishKeeps ==
    ASSUME Downloading, FinishBuf
    PROVE  Downloading'
<1> DEFINE low == reader.id + 1
<1>1. Cur.offR >= Cur.size /\ Len(reader.got) = Offset(low) /\ Len(Cur.data) = Cur.size
  BY BufferEnds DEF FinishBuf
<1>2. /\ PartTypes /\ Window(reader.id) /\ Content(reader.id)
      /\ Queue(reader.id) /\ Hands(reader.id, worker) /\ Distinct(worker)
      /\ reader.id < d.next /\ \A i \in 1..Len(reader.got) : reader.got[i] = i
  BY DEF Downloading, Parts, Held, Reading
<1>3. /\ low \in Nat /\ reader.id \in Nat /\ d.next \in Nat /\ MaxPart \in Nat
      /\ Cap \in Nat /\ d.concurrency \in Int /\ Len(bufs) \in Nat
  <2>1. reader.id \in Nat /\ d.next \in Nat /\ d.concurrency \in Int /\ Len(bufs) \in Nat
    BY <1>2 DEF PartTypes
  <2>2. low \in Nat
    BY <2>1
  <2> QED
    BY <2>1, <2>2, SizeFacts, CapFacts
<1>4. CASE low >= MaxPart
  <2>1. reader' = [reader EXCEPT !.pc = "eof"] /\ UNCHANGED <<d, chan, bufs, worker>>
    BY <1>4 DEF FinishBuf
  <2>2. low = MaxPart
    BY <1>2, <1>3, <1>4 DEF Window
  <2>3. Len(reader.got) = Length
    BY <1>1, <2>2, OffsetFacts
  <2>4. /\ {"pc", "id", "buf", "got"} \subseteq DOMAIN reader'
        /\ reader'.id = reader.id /\ reader'.buf = reader.buf /\ reader'.got = reader.got
    BY <1>2, <2>1 DEF PartTypes
  <2>5. Steady /\ d'.concurrency = d.concurrency
    BY <1>2, <2>1 DEF Steady, PartTypes
  <2> QED
    BY <2>1, <2>3, <2>4, <2>5, FlagsMove
<1>5. CASE low < MaxPart
  <2>1. /\ SendChunkTask(FALSE, worker)
        /\ reader' = [reader EXCEPT !.id = @ + 1, !.buf = ((reader.id + 1) % Len(bufs')) + 1]
    <3>1. ~(low >= MaxPart)
      BY <1>3, <1>5
    <3> QED
      BY <3>1 DEF FinishBuf
  <2>2. PICK ws, vs : ws = worker /\ vs = worker'
    OBVIOUS
  <2>3. PICK l \in Nat, new \in BOOLEAN : l = low /\ (new <=> FALSE)
    BY <1>3
  <2>4. l = low /\ (new <=> FALSE) /\ ws = worker /\ vs = worker'
    BY <2>2, <2>3
  <2>5. PICK next \in Nat, con \in Int, cap \in Nat, room \in Nat, cur \in Nat :
          next = d.next /\ con = d.concurrency /\ cap = Cap /\ room = Len(bufs) /\ cur = reader.id
    BY <1>3
  <2>6. /\ cur < next /\ l = cur + 1 /\ next - cur <= cap /\ next - cur <= room
        /\ con > 0 => next - cur <= cap - con
    BY <1>2, <2>4, <2>5 DEF Window
  <2>7. /\ l <= next /\ next - l < cap /\ next - l < room
        /\ con > 0 => next - l < cap - con
    BY <2>6
  <2>8. Window(l)
    <3>1. next - l <= cap /\ next - l <= room /\ (con > 0 => next - l <= cap - con)
      BY <2>7
    <3> QED
      BY <1>2, <2>7, <2>5, <3>1 DEF Window
  <2>9. Content(l)
    <3> SUFFICES ASSUME NEW id \in l..(next - 1) PROVE Filled(bufs[Place(id)], id, l)
      BY <2>5 DEF Content
    <3>1. id \in cur..(next - 1) /\ (id > l => id > cur)
      BY <2>6
    <3>2. Filled(bufs[Place(id)], id, cur)
      BY <1>2, <2>5, <3>1 DEF Content
    <3> QED
      BY <3>1, <3>2 DEF Filled
  <2>10. ASSUME NEW e \in Chunks, NEW n \in Int, Alive(e, n, reader.id) PROVE Alive(e, n, l)
    <3>1. e.id \in reader.id..(d.next - 1) /\ e.buf = Place(e.id) /\ n < e.size
          /\ Len(bufs[e.buf].data) + e.size = bufs[e.buf].size + n
      BY <2>10 DEF Alive
    <3>2. e.id # reader.id
      <4> SUFFICES ASSUME e.id = reader.id PROVE FALSE
        OBVIOUS
      <4>1. PICK b \in Buffers : b = Cur
        BY CurFacts
      <4>2. bufs[e.buf] = b
        BY <3>1, <4>1, CurFacts DEF Cur
      <4>3. PICK z \in Int, s \in Int : z = b.size /\ s = e.size
        BY DEF Buffers, Chunks
      <4>4. z + s = z + n /\ n < s
        BY <1>1, <3>1, <4>1, <4>2, <4>3
      <4> QED
        BY <4>4
    <3>3. e.id \in l..(d.next - 1)
      BY <1>3, <2>4, <3>1, <3>2
    <3> QED
      BY <2>10, <3>3 DEF Alive
  <2>11. Queue(l) /\ Hands(l, ws) /\ Distinct(ws) /\ ws \in [Workers -> Jobs]
    <3>1. ws \in [Workers -> Jobs] /\ Distinct(ws)
      BY <1>2, <2>4 DEF PartTypes
    <3>2. Queue(l)
      <4> SUFFICES ASSUME NEW i \in 1..Len(chan) PROVE Alive(chan[i], 0, l)
        BY DEF Queue
      <4>1. chan[i] \in Chunks
        BY <1>2 DEF PartTypes
      <4>2. Alive(chan[i], 0, reader.id)
        BY <1>2 DEF Queue
      <4> QED
        BY <2>10, <4>1, <4>2
    <3>3. Hands(l, ws)
      <4> SUFFICES ASSUME NEW w \in Workers, Holding(ws[w])
                   PROVE  Alive(ws[w].ch, Ahead(ws[w]), l)
        BY DEF Hands
      <4>1. ws[w].ch \in Chunks /\ Ahead(ws[w]) \in Int
        BY <3>1 DEF Jobs, Ahead
      <4>2. Alive(ws[w].ch, Ahead(ws[w]), reader.id)
        BY <1>2, <2>4 DEF Hands
      <4> QED
        BY <2>10, <4>1, <4>2
    <3> QED
      BY <3>1, <3>2, <3>3
  <2>12. Sends(new, ws)
    BY <1>2, <2>1, <2>4, SendCases
  <2>13. /\ vs \in [Workers -> Jobs] /\ SentTypes' /\ Sound(l, vs)'
         /\ d'.next >= d.next /\ (d.next < MaxPart => d'.next > d.next)
         /\ \A id \in l..(d.next - 1) :
              Place(id)' = Place(id) /\ bufs'[Place(id)] = bufs[Place(id)]
         /\ \A id \in d.next..(d'.next - 1) : bufs'[Place(id)'].offR = 0
    <3>1. Sound(l, ws)
      BY <2>8, <2>9, <2>11 DEF Sound
    <3> QED
      BY <1>2, <2>4, <2>11, <2>7, <2>12, <2>5, <3>1, SendKeepsWindow
  <2>14. /\ {"pc", "id", "buf", "got"} \subseteq DOMAIN reader'
         /\ reader'.id = l /\ reader'.buf = Place(l)' /\ reader'.got = reader.got
         /\ reader'.pc = reader.pc /\ reader.pc = "read"
    BY <1>2, <2>1, <2>4 DEF PartTypes, Place, FinishBuf
  <2>15. PartTypes'
    BY <1>2, <2>4, <2>13, <2>14 DEF PartTypes, SentTypes
  <2>16. Parts' /\ Held'
    BY <2>4, <2>13, <2>14, SoundPrimed
  <2>17. l < d'.next /\ d'.next \in Nat
    <3>1. d'.next \in Nat
      BY <2>13 DEF SentTypes
    <3>2. d.next <= MaxPart
      BY <1>2 DEF Window
    <3> QED
      BY <1>2, <1>3, <1>5, <2>4, <2>13, <3>1, <3>2
  <2>18. bufs'[Place(l)'].offR = 0
    <3>1. CASE l < d.next
      <4>1. l \in l..(d.next - 1) /\ l \in reader.id..(d.next - 1) /\ l > reader.id
        BY <1>3, <2>4, <3>1
      <4>2. bufs[Place(l)].offR = 0
        BY <1>2, <4>1 DEF Content, Filled
      <4> QED
        BY <2>13, <4>1, <4>2
    <3>2. CASE l >= d.next
      <4>1. l \in d.next..(d'.next - 1)
        BY <1>3, <2>17, <3>2
      <4> QED
        BY <2>13, <4>1
    <3> QED
      BY <1>3, <3>1, <3>2
  <2>19. Reading'
    <3>1. Offset(l) \in Int /\ Len(reader.got) = Offset(l)
      BY <1>1, <2>4, OffsetFacts
    <3>2. Len(reader.got) = Offset(l) + 0
      BY <3>1
    <3>3. Cur'.offR = 0 /\ reader'.pc # "eof"
      BY <2>14, <2>18 DEF Cur, Place
    <3> QED
      BY <1>2, <2>14, <2>17, <3>2, <3>3 DEF Reading, Place
  <2> QED
    BY <2>15, <2>16, <2>19 DEF Downloading
<1> QED
  BY <1>3, <1>4, <1>5

(* The reader moves on within its buffer, or waits. *)
LEMMA BufferMoves ==
    ASSUME Downloading, NEW x \in Buffers, bufs' = [bufs EXCEPT ![reader.buf] = x],
           x.data = Cur.data, x.size = Cur.size, 0 <= x.offR, x.offR <= Len(x.data),
           UNCHANGED <<d, chan, worker>>,
           {"pc", "id", "buf", "got"} \subseteq DOMAIN reader',
           reader'.id = reader.id, reader'.got \in Seq(Int)
    PROVE  PartTypes' /\ Parts' /\ Held' /\ bufs'[reader.buf] = x /\ Len(bufs') = Len(bufs)
<1> DEFINE p == reader.buf
           low == reader.id
<1>1. PartTypes /\ Parts /\ Held
  BY DEF Downloading
<1>2. p \in 1..Len(bufs) /\ p = Place(low) /\ low \in Nat /\ Filled(Cur, low, low)
  BY <1>1, CurFacts DEF PartTypes
<1>3. /\ bufs' \in Seq(Buffers) /\ Len(bufs') = Len(bufs) /\ bufs'[p] = x
      /\ \A i \in 1..Len(bufs) : i # p => bufs'[i] = bufs[i]
  BY <1>1, <1>2 DEF PartTypes
<1>4. PartTypes' /\ Window(reader.id)'
  BY <1>1, <1>3 DEF PartTypes, Parts, Window
<1>5. \A id \in low..(d.next - 1) :
        /\ Place(id)' = Place(id) /\ Place(id) \in 1..Len(bufs)
        /\ id # low => Place(id) # p
  <2> SUFFICES ASSUME NEW id \in low..(d.next - 1)
               PROVE  /\ Place(id)' = Place(id) /\ Place(id) \in 1..Len(bufs)
                      /\ id # low => Place(id) # p
    OBVIOUS
  <2>1. id \in Nat /\ Len(bufs) >= 1 /\ bufs \in Seq(Buffers)
    BY <1>1, <1>2 DEF PartTypes, Parts, Window
  <2>2. Place(id)' = Place(id) /\ Place(id) \in 1..Len(bufs)
    BY <1>3, <2>1, PlaceFacts DEF Place
  <2>3. ASSUME id # low PROVE Place(id) # p
    BY <1>1, <1>2, <2>3, CurFacts, ChunksApart DEF Parts
  <2> QED
    BY <2>2, <2>3
<1>6. \A id \in low..(d.next - 1) :
        bufs'[Place(id)].data = bufs[Place(id)].data /\ bufs'[Place(id)].size = bufs[Place(id)].size
  BY <1>2, <1>3, <1>5 DEF Cur
<1>7. Content(reader.id)'
  <2> SUFFICES ASSUME NEW id \in low..(d.next - 1) PROVE Filled(bufs'[Place(id)], id, low)
    BY <1>5 DEF Content, Filled
  <2>1. CASE id = low
    <3>1. Filled(x, low, low)
      BY <1>2 DEF Filled
    <3> QED
      BY <1>2, <1>3, <2>1, <3>1
  <2>2. CASE id # low
    BY <1>1, <1>3, <1>5, <2>2 DEF Parts, Content
  <2> QED
    BY <2>1, <2>2
<1>8. ASSUME NEW e, NEW n, Alive(e, n, low) PROVE Alive(e, n, low)'
  <2>1. e.id \in low..(d.next - 1) /\ e.buf = Place(e.id)
    BY <1>8 DEF Alive
  <2> QED
    BY <1>5, <1>6, <1>8, <2>1 DEF Alive
<1>9. Queue(reader.id)'
  <2>1. \A i \in 1..Len(chan) : Alive(chan[i], 0, low)
    BY <1>1 DEF Held, Queue
  <2>2. PICK ch, lo : ch = chan /\ lo = low
    OBVIOUS
  <2>3. \A i \in 1..Len(ch) : Alive(ch[i], 0, lo)'
    BY <1>8, <2>1, <2>2
  <2> QED
    BY <2>2, <2>3, QueuePrimed
<1>10. Hands(reader.id, worker)'
  <2>1. PICK ws, lo : ws = worker /\ lo = low
    OBVIOUS
  <2>2. \A w \in Workers : Holding(ws[w]) => Alive(ws[w].ch, Ahead(ws[w]), low)
    BY <1>1, <2>1 DEF Held, Hands
  <2>3. \A w \in Workers : Holding(ws[w]) => Alive(ws[w].ch, Ahead(ws[w]), lo)'
    BY <1>8, <2>1, <2>2
  <2> QED
    BY <2>1, <2>3, HandsPrimed
<1>11. Distinct(worker)'
  BY <1>1, DistinctPrimed DEF Held
<1> QED
  BY <1>3, <1>4, <1>7, <1>9, <1>10, <1>11 DEF Parts, Held

(* The end of a sequence. *)
LEMMA SubSeqFacts ==
    ASSUME NEW s \in Seq(Int), NEW o \in Nat, o <= Len(s)
    PROVE  /\ SubSeq(s, o + 1, Len(s)) \in Seq(Int)
           /\ Len(SubSeq(s, o + 1, Len(s))) = Len(s) - o
           /\ \A i \in 1..(Len(s) - o) : SubSeq(s, o + 1, Len(s))[i] = s[o + i]
  OBVIOUS

(* One sequence after another. *)
LEMMA ConcatFacts ==
    ASSUME NEW g \in Seq(Int), NEW t \in Seq(Int)
    PROVE  /\ g \o t \in Seq(Int) /\ Len(g \o t) = Len(g) + Len(t)
           /\ \A i \in 1..Len(g) : (g \o t)[i] = g[i]
           /\ \A i \in (Len(g) + 1)..(Len(g) + Len(t)) : (g \o t)[i] = t[i - Len(g)]
  OBVIOUS

(* Bytes that lie in order after place f, what a reader at o has not had of *)
(* a buffer, and the n bytes after place m.                               *)
InOrder(s, f) == \A i \in 1..Len(s) : s[i] = f + i
Remainder(s, o) == SubSeq(s, o + 1, Len(s))
NextBytes(n, m) == [i \in 1..n |-> m + i]

(* Bytes in order, followed by the rest of the buffer, are in order. *)
LEMMA RestDelivered ==
    ASSUME NEW g \in Seq(Int), NEW s \in Seq(Int), NEW f \in Int, NEW o \in Nat, o <= Len(s),
           Len(g) = f + o, InOrder(g, 0), InOrder(s, f)
    PROVE  /\ g \o Remainder(s, o) \in Seq(Int) /\ Len(g \o Remainder(s, o)) = f + Len(s)
           /\ InOrder(g \o Remainder(s, o), 0)
           /\ Remainder(s, o) = NextBytes(Len(s) - o, Len(g))
<1>1. /\ \A i \in 1..Len(g) : g[i] = i
      /\ \A i \in 1..Len(s) : s[i] = f + i
  BY DEF InOrder
<1>2. PICK l \in Nat, m \in Nat : l = Len(s) /\ m = Len(g)
  OBVIOUS
<1>3. PICK t \in Seq(Int) :
        t = SubSeq(s, o + 1, Len(s)) /\ Len(t) = l - o /\ \A i \in 1..(l - o) : t[i] = s[o + i]
  <2>1. SubSeq(s, o + 1, Len(s)) \in Seq(Int)
    BY SubSeqFacts
  <2> QED
    BY <1>2, <2>1, SubSeqFacts
<1>4. PICK u \in Seq(Int) : u = g \o t
  BY ConcatFacts
<1>5. /\ Len(u) = m + Len(t)
      /\ \A i \in 1..m : u[i] = g[i]
      /\ \A i \in (m + 1)..(m + Len(t)) : u[i] = t[i - m]
  <2>1. /\ Len(g \o t) = Len(g) + Len(t)
        /\ \A i \in 1..Len(g) : (g \o t)[i] = g[i]
        /\ \A i \in (Len(g) + 1)..(Len(g) + Len(t)) : (g \o t)[i] = t[i - Len(g)]
    BY ConcatFacts
  <2> QED
    BY <1>2, <1>4, <2>1
<1>6. Len(t) = l - o /\ m = f + o /\ o <= l
  BY <1>2, <1>3
<1>7. \A i \in 1..(l - o) : t[i] = m + i
  <2> SUFFICES ASSUME NEW i \in 1..(l - o) PROVE t[i] = m + i
    OBVIOUS
  <2>1. t[i] = s[o + i]
    BY <1>3
  <2>2. o + i \in 1..l
    BY <1>6
  <2> QED
    BY <1>1, <1>2, <1>6, <2>1, <2>2
<1>8. Len(u) = f + l
  BY <1>5, <1>6
<1>9. ASSUME NEW i \in 1..(f + l) PROVE u[i] = i
  <2>1. CASE i <= m
    BY <1>1, <1>2, <1>5, <2>1
  <2>2. CASE i > m
    <3>1. i \in (m + 1)..(m + Len(t)) /\ i - m \in 1..(l - o)
      BY <1>6, <2>2
    <3>2. u[i] = t[i - m] /\ t[i - m] = m + (i - m)
      BY <1>5, <1>7, <3>1
    <3> QED
      BY <3>2
  <2> QED
    BY <2>1, <2>2
<1>10. t = NextBytes(l - o, m)
  <2>1. t = [i \in 1..Len(t) |-> t[i]]
    OBVIOUS
  <2> QED
    BY <1>6, <1>7, <2>1 DEF NextBytes
<1>11. t = Remainder(s, o)
  BY <1>3 DEF Remainder
<1>12. InOrder(u, 0)
  BY <1>8, <1>9 DEF InOrder
<1> QED
  BY <1>2, <1>3, <1>4, <1>8, <1>10, <1>11, <1>12
(* Buf.Read delivers what is there, or waits. *)
LEMMA ReadKeeps ==
    ASSUME Downloading, ReadBytes
    PROVE  Downloading'
<1>1. /\ PartTypes /\ Reading /\ UNCHANGED <<d, chan, worker>>
      /\ reader.pc # "eof"
  BY DEF Downloading, ReadBytes
<1>2. PICK b \in Buffers, f \in Int, l \in Nat, p \in 1..Len(bufs), o \in Int :
        /\ b = Cur /\ f = Offset(reader.id) /\ l = Len(b.data) /\ p = reader.buf /\ o = b.offR
  <2>1. Len(Cur.data) \in Nat /\ Cur.offR \in Int
    BY CurFacts DEF Buffers
  <2> QED
    BY <2>1, CurFacts
<1>3. /\ 0 <= o /\ o <= l /\ \A i \in 1..l : b.data[i] = f + i
  BY <1>2, CurFacts DEF Filled
<1>4. /\ Len(reader.got) = f + o /\ \A i \in 1..Len(reader.got) : reader.got[i] = i
      /\ reader.id < d.next /\ p = Place(reader.id) /\ reader.got \in Seq(Int)
  BY <1>1, <1>2 DEF Reading, PartTypes
<1>5. CASE o < l /\ Deliver
  <2>1. PICK x : x = [b EXCEPT !.offR = l, !.signal = IF reader.pc = "wait" THEN FALSE ELSE b.signal]
    OBVIOUS
  <2>2. x \in Buffers /\ x.data = b.data /\ x.size = b.size /\ x.offR = l
    <3>1. PICK n \in Int : n = l
      OBVIOUS
    <3>2. PICK s \in BOOLEAN : s = IF reader.pc = "wait" THEN FALSE ELSE b.signal
      <4>1. b.signal \in BOOLEAN
        BY DEF Buffers
      <4> QED
        BY <4>1
    <3>3. x = [b EXCEPT !.offR = n, !.signal = s]
      BY <2>1, <3>1, <3>2
    <3>4. x \in Buffers
      BY <3>3 DEF Buffers
    <3>5. x.data = b.data /\ x.size = b.size /\ x.offR = n
      BY <3>3 DEF Buffers
    <3> QED
      BY <3>1, <3>4, <3>5
  <2>3. bufs' = [bufs EXCEPT ![p] = x]
    BY <1>1, <1>2, <1>5, <2>1 DEF Deliver, Cur, PartTypes
  <2>4. PICK g \in Seq(Int), y \in Seq(Int), q \in Nat : g = reader.got /\ y = b.data /\ q = o
    BY <1>3, <1>4 DEF Buffers
  <2>5. PICK u \in Seq(Int) : u = g \o Remainder(y, q) /\ Len(u) = f + Len(y) /\ InOrder(u, 0)
    <3>1. q <= Len(y) /\ Len(g) = f + q /\ InOrder(g, 0) /\ InOrder(y, f)
      BY <1>2, <1>3, <1>4, <2>4 DEF InOrder
    <3> QED
      BY <3>1, RestDelivered
  <2>6. /\ {"pc", "id", "buf", "got"} \subseteq DOMAIN reader'
        /\ reader'.id = reader.id /\ reader'.buf = reader.buf /\ reader'.pc = "read"
        /\ reader'.got = u
    BY <1>1, <1>2, <1>5, <2>4, <2>5 DEF Deliver, PartTypes, Remainder
  <2>7. /\ reader'.got \in Seq(Int) /\ Len(reader'.got) = f + l
        /\ \A i \in 1..Len(reader'.got) : reader'.got[i] = i
    <3>1. \A i \in 1..Len(u) : u[i] = i
      BY <2>5 DEF InOrder
    <3>2. Len(y) = l
      BY <1>2, <2>4
    <3> QED
      BY <2>5, <2>6, <3>1, <3>2
  <2>8. PartTypes' /\ Parts' /\ Held' /\ bufs'[p] = x /\ Len(bufs') = Len(bufs)
    <3>1. 0 <= x.offR /\ x.offR <= Len(x.data)
      BY <1>2, <2>2
    <3> QED
      BY <1>1, <1>2, <2>2, <2>3, <2>6, <2>7, <3>1, BufferMoves
  <2>9. Reading'
    BY <1>1, <1>2, <1>4, <2>2, <2>6, <2>7, <2>8 DEF Reading, Cur, Place
  <2> QED
    BY <2>8, <2>9 DEF Downloading
<1>6. CASE Pend
  <2>1. PICK x : x = [b EXCEPT !.pending = TRUE, !.signal = IF reader.pc = "wait" THEN FALSE ELSE b.signal]
    OBVIOUS
  <2>2. x \in Buffers /\ x.data = b.data /\ x.size = b.size /\ x.offR = o
    BY <1>2, <2>1 DEF Buffers
  <2>3. bufs' = [bufs EXCEPT ![p] = x]
    BY <1>1, <1>2, <1>6, <2>1 DEF Pend, Cur, PartTypes
  <2>4. /\ {"pc", "id", "buf", "got"} \subseteq DOMAIN reader'
        /\ reader'.id = reader.id /\ reader'.buf = reader.buf /\ reader'.pc = "wait"
        /\ reader'.got = reader.got
    BY <1>1, <1>6 DEF Pend, PartTypes
  <2>5. PartTypes' /\ Parts' /\ Held' /\ bufs'[p] = x /\ Len(bufs') = Len(bufs)
    BY <1>1, <1>2, <1>3, <1>4, <2>2, <2>3, <2>4, BufferMoves
  <2>6. Reading'
    BY <1>1, <1>2, <1>4, <2>2, <2>4, <2>5 DEF Reading, Cur, Place
  <2> QED
    BY <2>5, <2>6 DEF Downloading
<1>7. Pend \/ (o < l /\ Deliver)
  BY <1>2 DEF ReadBytes
<1> QED
  BY <1>5, <1>6, <1>7

(* A worker gives its chunk up, or tries it again. *)
LEMMA DropKeeps ==
    ASSUME Downloading, NEW w \in Workers, NEW j \in {IdleWorker, Off},
           worker' = [worker EXCEPT ![w] = j], Steady, d'.concurrency = d.concurrency,
           UNCHANGED <<chan, bufs, reader>>
    PROVE  Downloading'
<1>1. j \in Jobs /\ Continues(j, worker[w])
  BY JobFacts DEF Continues
<1> QED
  BY <1>1, WorkerMoves

(* Most steps do not change the places of the downloader. *)
LEMMA FlagsSteady ==
    ASSUME PartTypes, \/ UNCHANGED d
                      \/ \E e, c : d' = [d EXCEPT !.err = e, !.done = c]
                      \/ \E n : d' = [d EXCEPT !.written = n]
                      \/ \E c : d' = [d EXCEPT !.done = c]
    PROVE  Steady /\ d'.concurrency = d.concurrency
  BY DEF PartTypes, Steady

(* A failed attempt, whether it is repeated or not, keeps the invariant.   *)
LEMMA RetryKeepsWindow ==
    ASSUME Downloading, NEW w \in Workers, NEW j \in Jobs, Continues(j, worker[w]), NEW n,
           Retry(w, j, n), UNCHANGED <<chan, bufs, reader>>
    PROVE  Downloading'
<1>1. PartTypes
  BY DEF Downloading
<1>2. Steady /\ d'.concurrency = d.concurrency
  <2>1. \/ UNCHANGED d
        \/ \E e, c : d' = [d EXCEPT !.err = e, !.done = c]
        \/ \E m : d' = [d EXCEPT !.written = m]
    BY DEF Retry, Fatal
  <2> QED
    BY <1>1, <2>1, FlagsSteady
<1>3. \E i \in {IdleWorker, Off, j} : worker' = [worker EXCEPT ![w] = i]
  BY DEF Retry, Fatal, Leave
<1>4. CASE worker' = [worker EXCEPT ![w] = j]
  BY <1>2, <1>4, WorkerMoves
<1>5. CASE \E i \in {IdleWorker, Off} : worker' = [worker EXCEPT ![w] = i]
  BY <1>2, <1>5, DropKeeps
<1> QED
  BY <1>3, <1>4, <1>5

(* The job of a worker at its next stage, with the same chunk. *)
LEMMA StageFacts ==
    ASSUME NEW x \in Jobs, NEW s \in {"try", "refused", "body"}, NEW r \in Int,
           x.pc \in {"try", "refused", "body"},
           NEW j, j = [x EXCEPT !.pc = s] \/ j = [x EXCEPT !.pc = s, !.retry = r]
    PROVE  j \in Jobs /\ Continues(j, x)
<1>1. j \in Jobs /\ j.pc = s /\ j.ch = x.ch
  BY DEF Jobs, Stages
<1> QED
  BY <1>1 DEF Continues, Holding, Ahead

(* The attempt after a broken one asks for the rest. *)
LEMMA AttemptFacts ==
    ASSUME NEW x \in Jobs, x.pc = "broken", x.n >= 0
    PROVE  LET j == [x EXCEPT !.pc = "try", !.retry = @ + 1, !.n = 0,
                        !.ch.start = @ + x.n, !.ch.size = @ - x.n]
           IN  j \in Jobs /\ Continues(j, x)
<1> DEFINE j == [x EXCEPT !.pc = "try", !.retry = @ + 1, !.n = 0,
                    !.ch.start = @ + x.n, !.ch.size = @ - x.n]
<1>1. PICK c : c = [x.ch EXCEPT !.start = x.ch.start + x.n, !.size = x.ch.size - x.n]
  OBVIOUS
<1>2. x.ch \in Chunks /\ x.n \in Int /\ x.retry \in Int
  BY DEF Jobs
<1>3. /\ c \in Chunks /\ c.id = x.ch.id /\ c.buf = x.ch.buf
      /\ c.start = x.ch.start + x.n /\ c.size = x.ch.size - x.n
  <2>1. PICK y \in Chunks : y = x.ch
    BY <1>2
  <2>2. PICK a \in Int, b \in Int : a = y.start + x.n /\ b = y.size - x.n
    BY <1>2 DEF Chunks
  <2>3. c = [y EXCEPT !.start = a, !.size = b]
    BY <1>1, <2>1, <2>2
  <2>4. c \in Chunks /\ c.id = y.id /\ c.buf = y.buf /\ c.start = a /\ c.size = b
    BY <2>3 DEF Chunks
  <2> QED
    BY <2>1, <2>2, <2>4
<1>4. PICK r \in Int, o \in Int : r = x.retry + 1 /\ o = 0
  BY <1>2
<1>5. j = [x EXCEPT !.pc = "try", !.retry = r, !.n = o, !.ch = c]
  BY <1>1, <1>4 DEF Jobs
<1>6. j \in Jobs
  BY <1>3, <1>4, <1>5 DEF Jobs, Stages
<1>7. j.pc = "try" /\ j.ch = c
  BY <1>5 DEF Jobs
<1>8. Continues(j, x)
  BY <1>2, <1>3, <1>7 DEF Continues, Holding, Ahead, Chunks
<1> QED
  BY <1>6, <1>8

(* A worker that copies a body has bytes to copy. *)
LEMMA BodyFacts ==
    ASSUME Downloading, NEW w \in Workers, worker[w].pc = "body"
    PROVE  worker[w].ch.size \in Nat
<1>1. Alive(worker[w].ch, 0, reader.id)
  BY DEF Downloading, Held, Hands, Holding, Ahead
<1>2. worker[w].ch.size \in Int
  BY DEF Downloading, PartTypes, Jobs, Chunks
<1>3. 0 < worker[w].ch.size
  BY <1>1 DEF Alive
<1> QED
  BY <1>2, <1>3

(* Every step of a worker keeps the invariant. *)
LEMMA WorkerKeepsWindow ==
    ASSUME Downloading, NEW w \in Workers, UsualWork(w)
    PROVE  Downloading'
<1>1. PartTypes /\ worker[w] \in Jobs /\ (Holding(worker[w]) => Ahead(worker[w]) >= 0)
  BY DEF Downloading, PartTypes, Held, Hands, Alive
<1>2. CASE Take(w)
  BY <1>2, TakeKeeps
<1>3. CASE Stop(w)
  BY <1>1, <1>3, FlagsSteady, DropKeeps DEF Stop, Leave
<1>4. CASE Respond(w)
  BY <1>4, RespondKeeps
<1>5. CASE FirstRefused(w)
  <2>1. PICK r \in Int : r = worker[w].retry + 1
    BY <1>1 DEF Jobs
  <2>2. PICK j : j = [worker[w] EXCEPT !.pc = "try", !.retry = r]
    OBVIOUS
  <2>3. /\ worker[w].pc = "refused" /\ Retry(w, j, 0) /\ UNCHANGED <<chan, bufs, reader>>
    BY <1>5, <2>1, <2>2 DEF FirstRefused
  <2>4. j \in Jobs /\ Continues(j, worker[w])
    BY <1>1, <2>2, <2>3, StageFacts
  <2> QED
    BY <2>3, <2>4, RetryKeepsWindow
<1>6. CASE LaterRefused(w)
  <2>1. PICK j : j = [worker[w] EXCEPT !.pc = "try"]
    OBVIOUS
  <2>2. worker[w].pc = "refused" /\ Retry(w, j, 0) /\ UNCHANGED <<chan, bufs, reader>>
    BY <1>6, <2>1 DEF LaterRefused
  <2>3. j \in Jobs /\ Continues(j, worker[w])
    <3>1. j.pc = "try" /\ j.ch = worker[w].ch /\ j \in Jobs
      BY <1>1, <2>1 DEF Jobs, Stages
    <3> QED
      BY <2>2, <3>1 DEF Continues, Holding, Ahead
  <2> QED
    BY <2>2, <2>3, RetryKeepsWindow
<1>7. CASE GiveBack(w)
  BY <1>7, GiveBackKeeps
<1>8. CASE Write(w)
  <2>1. PICK k : k = worker[w].ch.size
    OBVIOUS
  <2>2. PICK j : j = [worker[w] EXCEPT !.pc = "copied"]
    OBVIOUS
  <2>3. /\ worker[w].pc = "body" /\ bufs' = Written(worker[w].ch, k)
        /\ worker' = [worker EXCEPT ![w] = j] /\ UNCHANGED <<d, chan, reader>>
    BY <1>8, <2>1, <2>2 DEF Write
  <2>4. j \in Jobs /\ ~Holding(j)
    BY <1>1, <2>2 DEF Jobs, Stages, Holding
  <2>5. k \in Nat /\ k <= worker[w].ch.size
    BY <1>1, <2>1, <2>3, BodyFacts
  <2> QED
    BY <2>3, <2>4, <2>5, WriteKeeps
<1>9. CASE BodyEnds(w)
  <2>1. Steady /\ d'.concurrency = d.concurrency
    BY <1>1, <1>9, FlagsSteady DEF BodyEnds
  <2> QED
    BY <1>9, <2>1, DropKeeps DEF BodyEnds
<1>10. CASE NextAttempt(w)
  <2>1. PICK j : j = [worker[w] EXCEPT !.pc = "try", !.retry = @ + 1, !.n = 0,
                         !.ch.start = @ + worker[w].n, !.ch.size = @ - worker[w].n]
    OBVIOUS
  <2>2. /\ worker[w].pc = "broken" /\ Retry(w, j, worker[w].n)
        /\ UNCHANGED <<chan, bufs, reader>>
    BY <1>10, <2>1 DEF NextAttempt
  <2>3. worker[w].n >= 0
    BY <1>1, <2>2 DEF Holding, Ahead
  <2>4. j \in Jobs /\ Continues(j, worker[w])
    BY <1>1, <2>1, <2>2, <2>3, AttemptFacts
  <2> QED
    BY <2>2, <2>4, RetryKeepsWindow
<1>11. CASE WriteFails(w) \/ RequestEnds(w)
  <2>1. Retry(w, worker[w], 0) /\ UNCHANGED <<chan, bufs, reader>>
    BY <1>11 DEF WriteFails, RequestEnds
  <2>2. Continues(worker[w], worker[w])
    BY <1>1 DEF Continues
  <2> QED
    BY <1>1, <2>1, <2>2, RetryKeepsWindow
<1> QED
  BY <1>2, <1>3, <1>4, <1>5, <1>6, <1>7, <1>8, <1>9, <1>10, <1>11 DEF UsualWork

(* What goes wrong keeps it, too. *)
LEMMA TroubleKeeps ==
    ASSUME Downloading, NEW w \in Workers, UsualTrouble(w)
    PROVE  Downloading'
<1>1. PartTypes /\ worker[w] \in Jobs
  BY DEF Downloading, PartTypes
<1>2. CASE WrongSize(w) \/ RequestFails(w)
  <2>1. /\ \E e, c : d' = [d EXCEPT !.err = e, !.done = c]
        /\ UNCHANGED <<chan, bufs, reader>>
        /\ \E i \in {IdleWorker, Off} : worker' = [worker EXCEPT ![w] = i]
    BY <1>2 DEF WrongSize, RequestFails, Fatal, Leave
  <2>2. Steady /\ d'.concurrency = d.concurrency
    BY <1>1, <2>1, FlagsSteady
  <2> QED
    BY <2>1, <2>2, DropKeeps
<1>3. CASE StatusError(w)
  <2>1. PICK j : j = [worker[w] EXCEPT !.pc = "refused"]
    OBVIOUS
  <2>2. /\ worker[w].pc = "try" /\ worker' = [worker EXCEPT ![w] = j]
        /\ UNCHANGED <<d, chan, bufs, reader>>
    BY <1>3, <2>1 DEF StatusError
  <2>3. j \in Jobs /\ Continues(j, worker[w])
    <3>1. j.pc = "refused" /\ j.ch = worker[w].ch /\ j \in Jobs
      BY <1>1, <2>1 DEF Jobs, Stages
    <3> QED
      BY <2>2, <3>1 DEF Continues, Holding, Ahead
  <2>4. Steady /\ d'.concurrency = d.concurrency
    BY <1>1, <2>2, FlagsSteady
  <2> QED
    BY <2>2, <2>3, <2>4, WorkerMoves
<1>4. CASE BodyBreaks(w)
  <2>1. PICK k \in 0..(worker[w].ch.size - 1) :
          /\ worker[w].pc = "body" /\ bufs' = Written(worker[w].ch, k)
          /\ worker' = [worker EXCEPT ![w] = [@ EXCEPT !.pc = "broken", !.n = k]]
          /\ UNCHANGED <<d, chan, reader>>
    BY <1>4 DEF BodyBreaks
  <2>2. PICK j : j = [worker[w] EXCEPT !.pc = "broken", !.n = k]
    OBVIOUS
  <2>3. worker' = [worker EXCEPT ![w] = j]
    BY <2>1, <2>2
  <2>4. j \in Jobs /\ j.ch = worker[w].ch /\ Ahead(j) = k
    <3>1. k \in Int
      OBVIOUS
    <3> QED
      BY <1>1, <2>2, <3>1 DEF Jobs, Stages, Ahead
  <2>5. k \in Nat /\ k < worker[w].ch.size /\ k <= worker[w].ch.size
    <3>1. worker[w].ch.size \in Nat
      BY <2>1, BodyFacts
    <3> QED
      BY <3>1
  <2> QED
    BY <2>1, <2>3, <2>4, <2>5, WriteKeeps
<1> QED
  BY <1>2, <1>3, <1>4 DEF UsualTrouble

(* The steps of the reader and of the caller keep it. *)
LEMMA ReaderKeepsWindow ==
    ASSUME Downloading, UsualRead \/ Close \/ ParentCancel
    PROVE  Downloading'
<1>1. PartTypes
  BY DEF Downloading
<1>2. CASE ReadBytes \/ FinishBuf
  BY <1>2, ReadKeeps, FinishKeeps
<1>3. CASE ReadFails
  <2>1. UNCHANGED <<d, chan, bufs, worker>> /\ reader' = [reader EXCEPT !.pc = "failed"]
    BY <1>3 DEF ReadFails
  <2>2. /\ {"pc", "id", "buf", "got"} \subseteq DOMAIN reader'
        /\ reader'.id = reader.id /\ reader'.buf = reader.buf /\ reader'.got = reader.got
        /\ reader'.pc = "failed"
    BY <1>1, <2>1 DEF PartTypes
  <2>3. Steady /\ d'.concurrency = d.concurrency
    BY <1>1, <2>1, FlagsSteady
  <2> QED
    BY <2>1, <2>2, <2>3, FlagsMove
<1>4. CASE ParentCancel
  <2>1. Steady /\ d'.concurrency = d.concurrency /\ UNCHANGED <<chan, bufs, worker, reader>>
    BY <1>1, <1>4, FlagsSteady DEF ParentCancel
  <2> QED
    BY <1>1, <2>1, FlagsMove DEF PartTypes
<1>5. CASE Close
  <2>1. /\ Steady /\ UNCHANGED <<chan, bufs, worker>>
        /\ d'.concurrency = IF d.concurrency > 0 THEN -d.concurrency ELSE d.concurrency
        /\ reader' = [reader EXCEPT !.pc = "closed"]
    BY <1>1, <1>5 DEF Close, Steady, PartTypes
  <2>2. /\ {"pc", "id", "buf", "got"} \subseteq DOMAIN reader'
        /\ reader'.id = reader.id /\ reader'.buf = reader.buf /\ reader'.got = reader.got
        /\ reader'.pc = "closed"
    BY <1>1, <2>1 DEF PartTypes
  <2>3. PartTypes'
    BY <1>1, <2>1, <2>2 DEF PartTypes, Steady
  <2>4. Window(reader.id)'
    <3>1. /\ d.concurrency \in Int /\ d'.concurrency \in Int
          /\ d'.concurrency <= 0
      BY <1>1, <2>1 DEF PartTypes
    <3>2. d'.concurrency < Cap /\ ~(d'.concurrency > 0)
      BY <3>1, CapFacts
    <3> QED
      BY <2>1, <2>2, <3>2 DEF Downloading, Parts, Window, Steady
  <2>5. Content(reader.id)' /\ Held' /\ Reading'
    BY <2>1, <2>2 DEF Steady, Downloading, Parts, Held, Content, Filled, Queue, Hands,
                      Distinct, Alive, Place, Reading, Cur
  <2> QED
    BY <2>3, <2>4, <2>5 DEF Downloading, Parts
<1> QED
  BY <1>2, <1>3, <1>4, <1>5 DEF UsualRead

(* The download begins with the first chunk, which is in the channel. *)
LEMMA DownloadBegins ==
    ASSUME DownloadInit
    PROVE  Downloading
<1>1. PICK size \in Nat : size = ChunkSize(0) /\ size > 0
  <2>1. ChunkSize(0) \in 1..PartSize /\ PartSize \in Nat
    BY SizeFacts, DownloadAssumption
  <2> QED
    BY <2>1
<1>2. PICK c : c = Chunk(0, 0, size, 1, TRUE)
  OBVIOUS
<1>3. c \in Chunks /\ c.id = 0 /\ c.start = 0 /\ c.size = size /\ c.buf = 1
  BY <1>2 DEF Chunk, Chunks
<1>4. PICK b : b = Reset(NewBuf, size)
  OBVIOUS
<1>5. b \in Buffers /\ b.size = size /\ b.offR = 0 /\ b.data = <<>>
  <2>1. NewBuf \in Buffers /\ size \in Int
    BY ResetFacts
  <2> QED
    BY <1>4, <2>1, ResetFacts
<1>6. chan = <<c>> /\ bufs = <<b>>
  BY <1>1, <1>2, <1>4 DEF DownloadInit
<1>7. /\ chan \in Seq(Chunks) /\ Len(chan) = 1 /\ chan[1] = c
      /\ bufs \in Seq(Buffers) /\ Len(bufs) = 1 /\ bufs[1] = b
  BY <1>3, <1>5, <1>6
<1>8. /\ {"next", "pos", "concurrency"} \subseteq DOMAIN d
      /\ d.next = 1 /\ d.pos = size /\ d.concurrency = Cap - 1
  BY <1>1 DEF DownloadInit
<1>9. /\ {"pc", "id", "buf", "got"} \subseteq DOMAIN reader
      /\ reader.pc = "read" /\ reader.id = 0 /\ reader.buf = 1 /\ reader.got = <<>>
  BY DEF DownloadInit
<1>10. worker \in [Workers -> Jobs] /\ \A w \in Workers : ~Holding(worker[w])
  <2>1. worker = [w \in Workers |-> IF w = 1 THEN IdleWorker ELSE Unborn]
    BY DEF DownloadInit
  <2>2. \A w \in Workers : worker[w] \in {IdleWorker, Unborn}
    BY <2>1
  <2> QED
    BY <2>1, <2>2, JobFacts
<1>11. PartTypes
  <2>1. d.next \in Nat /\ d.pos \in Int /\ d.concurrency \in Int
    BY <1>8, CapFacts
  <2>2. reader.id \in Nat /\ reader.got \in Seq(Int)
    BY <1>9
  <2> QED
    BY <1>7, <1>8, <1>9, <1>10, <2>1, <2>2 DEF PartTypes
<1>12. Place(0) = 1 /\ Offset(0) = 0 /\ Offset(1) = size
  BY <1>1, <1>7, OffsetFacts, SizeFacts DEF Place, Offset
<1>13. Window(0)
  BY <1>7, <1>8, <1>12, CapFacts, SizeFacts DEF Window
<1>14. \A id \in 0..(d.next - 1) : id = 0
  BY <1>8
<1>15. Content(0)
  BY <1>1, <1>5, <1>7, <1>12, <1>14 DEF Content, Filled
<1>16. Alive(c, 0, 0)
  BY <1>3, <1>5, <1>7, <1>8, <1>12, <1>1 DEF Alive
<1>17. Queue(0) /\ Hands(0, worker) /\ Distinct(worker)
  BY <1>7, <1>10, <1>16 DEF Queue, Hands, Distinct
<1>18. Reading
  BY <1>5, <1>7, <1>8, <1>9, <1>12 DEF Reading, Cur
<1> QED
  BY <1>9, <1>11, <1>13, <1>15, <1>17, <1>18 DEF Downloading, Parts, Held

(* The usual steps keep what the buffers hold.                             *)
LEMMA UsualKeeps == Downloading /\ [UsualNext]_downloadVars => Downloading'
<1> SUFFICES ASSUME Downloading, [UsualNext]_downloadVars PROVE Downloading'
  OBVIOUS
<1>1. CASE UsualNext
  BY <1>1, WorkerKeepsWindow, TroubleKeeps, ReaderKeepsWindow DEF UsualNext
<1>2. CASE UNCHANGED downloadVars
  <2>1. UNCHANGED <<d, chan, bufs, worker, reader>>
    BY <1>2 DEF downloadVars
  <2>2. PartTypes /\ Steady /\ d'.concurrency = d.concurrency
    BY <2>1, FlagsSteady DEF Downloading
  <2> QED
    BY <2>1, <2>2, FlagsMove DEF PartTypes
<1> QED
  BY <1>1, <1>2

(* What a step is as long as no body has broken off after its last byte:   *)
(* each worker with a chunk has bytes of it to come, and its buffer room   *)
(* for them.                                                               *)
LEMMA UsualSteps ==
    ASSUME Downloading, [DownloadNext]_downloadVars,
           troubles \in [status : Nat, breaks : Nat, late : Nat, fatal : Nat],
           troubles'.late = troubles.late
    PROVE  [UsualNext]_downloadVars
<1>1. \A w \in Workers : Holding(worker[w]) /\ Ahead(worker[w]) = 0 =>
        /\ worker[w].ch.size > 0
        /\ worker[w].ch.size = Room(w)
  <2> SUFFICES ASSUME NEW w \in Workers, Holding(worker[w]), Ahead(worker[w]) = 0
               PROVE  worker[w].ch.size > 0 /\ worker[w].ch.size = Room(w)
    OBVIOUS
  <2>1. PICK c \in Chunks : c = worker[w].ch
    BY DEF Downloading, PartTypes, Jobs
  <2>2. PICK low \in Nat : low = reader.id
    BY DEF Downloading, PartTypes
  <2>3. Alive(c, 0, low) /\ Window(low) /\ PartTypes
    BY <2>1, <2>2 DEF Downloading, Held, Hands, Parts
  <2>4. bufs[c.buf] \in Buffers /\ Len(bufs[c.buf].data) \in Nat
    BY <2>3, AliveFacts
  <2>5. PICK l \in Nat, z \in Int, m \in Int :
          l = Len(bufs[c.buf].data) /\ z = bufs[c.buf].size /\ m = c.size
    BY <2>4 DEF Buffers, Chunks
  <2>6. 0 < m /\ l + m = z
    BY <2>3, <2>5 DEF Alive
  <2> QED
    BY <2>1, <2>5, <2>6 DEF Room
<1>2. \A w \in Workers : ~Unsatisfiable(w)
  <2> SUFFICES ASSUME NEW w \in Workers, Unsatisfiable(w) PROVE FALSE
    OBVIOUS
  <2>1. worker[w].pc = "try" /\ worker[w].ch.size <= 0
    BY DEF Unsatisfiable
  <2>2. worker[w].ch.size > 0 /\ worker[w].ch.size \in Int
    BY <1>1, <2>1 DEF Holding, Ahead, Downloading, PartTypes, Jobs, Chunks
  <2> QED
    BY <2>1, <2>2
<1>3. \A w \in Workers : ~WriteStray(w)
  <2> SUFFICES ASSUME NEW w \in Workers, WriteStray(w) PROVE FALSE
    OBVIOUS
  <2>1. /\ worker[w].pc = "body"
        /\ worker[w].ch.size <= 0 \/ worker[w].ch.size > Room(w)
    BY DEF WriteStray
  <2>2. /\ worker[w].ch.size > 0 /\ worker[w].ch.size \in Int
        /\ worker[w].ch.size = Room(w)
    BY <1>1, <2>1 DEF Holding, Ahead, Downloading, PartTypes, Jobs, Chunks
  <2> QED
    BY <2>1, <2>2
<1>4. \A w \in Workers : ~BodyBreaksLate(w)
  BY DEF BodyBreaksLate, Goes
<1> QED
  BY <1>2, <1>3, <1>4
     DEF DownloadNext, Download, GoesWrong, Read, UsualNext, UsualWork, UsualTrouble, UsualRead

(* No step of the usual ones but those of the reader moves the reader.     *)
LEMMA OnlyReaders ==
    ASSUME DownloadNext
    PROVE  ReadFails \/ ReadBytes \/ FinishBuf \/ Close \/ UNCHANGED reader
  BY DEF DownloadNext, Download, GoesWrong, Read, ParentCancel,
         Take, Stop, Respond, FirstRefused, LaterRefused, GiveBack, Write, WriteStray, BodyEnds,
         NextAttempt, WriteFails, RequestEnds, Unsatisfiable, WrongSize, RequestFails, StatusError,
         BodyBreaks, BodyBreaksLate

(* What goes wrong is counted by one of four counters.                     *)
LEMMA TroublesGrow ==
    ASSUME DownloadNext
    PROVE  UNCHANGED troubles \/ \E kind \in {"status", "breaks", "late", "fatal"} : Goes(kind)
  BY DEF DownloadNext, Download, GoesWrong, Read, ParentCancel, ReadFails, ReadBytes, FinishBuf, Close,
         Take, Stop, Respond, FirstRefused, LaterRefused, GiveBack, Write, WriteStray, BodyEnds,
         NextAttempt, WriteFails, RequestEnds, Unsatisfiable, WrongSize, RequestFails, StatusError,
         BodyBreaks, BodyBreaksLate

(* The invariant of all steps: as long as no body has broken off after its *)
(* last byte the two above hold.                                           *)
ReaderFields == {"pc", "id", "buf", "got"} \subseteq DOMAIN reader
Counted ==
    /\ troubles \in [status : Nat, breaks : Nat, late : Nat, fatal : Nat]
    /\ ReaderFields
WhileUsual == troubles.late = 0 => Downloading /\ LoadInv
Upheld == Counted /\ WhileUsual

(* It holds at first.                                                      *)
LEMMA UpheldInit == DownloadInit => Upheld
<1> SUFFICES ASSUME DownloadInit PROVE Upheld
  OBVIOUS
<1>1. Counted
  BY DEF DownloadInit, Counted, ReaderFields
<1> QED
  BY <1>1, DownloadBegins, LoadInit DEF Upheld, WhileUsual

(* The fields of the reader stay what they are.                            *)
LEMMA FieldsStay ==
    ASSUME ReaderFields, DownloadNext
    PROVE  ReaderFields'
<1>1. CASE UNCHANGED reader
  BY <1>1 DEF ReaderFields
<1>2. CASE ReadFails \/ Close
  <2>1. \E x : reader' = [reader EXCEPT !.pc = x]
    BY <1>2 DEF ReadFails, Close
  <2> QED
    BY <2>1 DEF ReaderFields
<1>3. CASE ReadBytes
  <2>1. Deliver \/ Pend
    BY <1>3 DEF ReadBytes
  <2>2. \E x, y : \/ reader' = [reader EXCEPT !.pc = x, !.got = y]
                  \/ reader' = [reader EXCEPT !.pc = x]
    BY <2>1 DEF Deliver, Pend
  <2> QED
    BY <2>2 DEF ReaderFields
<1>4. CASE FinishBuf
  <2>1. \E i, b : \/ reader' = [reader EXCEPT !.pc = "eof"]
                  \/ reader' = [reader EXCEPT !.id = i, !.buf = b]
    BY <1>4 DEF FinishBuf
  <2> QED
    BY <2>1 DEF ReaderFields
<1> QED
  BY <1>1, <1>2, <1>3, <1>4, OnlyReaders

(* Every step of a download keeps it.                                      *)
LEMMA UpheldStep == Upheld /\ [DownloadNext]_downloadVars => Upheld'
<1> SUFFICES ASSUME Upheld, [DownloadNext]_downloadVars PROVE Upheld'
  OBVIOUS
<1>1. CASE UNCHANGED downloadVars
  <2>1. Counted'
    BY <1>1 DEF downloadVars, Upheld, Counted, ReaderFields
  <2>2. troubles'.late = 0 => Downloading' /\ LoadInv'
    <3> SUFFICES ASSUME troubles'.late = 0 PROVE Downloading' /\ LoadInv'
      OBVIOUS
    <3>1. Downloading /\ LoadInv
      BY <1>1 DEF downloadVars, Upheld, WhileUsual
    <3> QED
      BY <1>1, <3>1, UsualKeeps, LoadStep
  <2> QED
    BY <2>1, <2>2 DEF Upheld, WhileUsual
<1>2. CASE DownloadNext
  <2>1. Counted'
    <3>1. troubles' \in [status : Nat, breaks : Nat, late : Nat, fatal : Nat]
      BY <1>2, TroublesGrow DEF Goes, Upheld, Counted
    <3> QED
      BY <1>2, <3>1, FieldsStay DEF Upheld, Counted
  <2>2. troubles'.late = 0 => troubles.late = 0
    BY <1>2, TroublesGrow DEF Goes, Upheld, Counted
  <2>3. troubles'.late = 0 => Downloading' /\ LoadInv'
    <3> SUFFICES ASSUME troubles'.late = 0 PROVE Downloading' /\ LoadInv'
      OBVIOUS
    <3>1. Downloading /\ LoadInv /\ troubles'.late = troubles.late
      BY <2>2 DEF Upheld, WhileUsual
    <3>2. [UsualNext]_downloadVars
      BY <3>1, UsualSteps DEF Upheld, Counted
    <3> QED
      BY <3>1, <3>2, UsualKeeps, LoadStep
  <2> QED
    BY <2>1, <2>3 DEF Upheld, WhileUsual
<1> QED
  BY <1>1, <1>2

(* As long as no body has broken off after its last byte the buffers of    *)
(* the window hold the bytes of their chunks, and each chunk that is not   *)
(* there yet is in the channel or in the hands of one worker.              *)
THEOREM DownloadInvariance == DownloadSpec => []WhileUsual
<1>1. Upheld => WhileUsual
  BY DEF Upheld
<1> QED
  BY <1>1, UpheldInit, UpheldStep, PTL DEF DownloadSpec

(* The consumer of a download gets an error only for a cause outside: the  *)
(* workers, who share the context and the error of the downloader, never   *)
(* end it over bodies that break off or requests that are refused within   *)
(* the retries (downloadPart, downloadChunk, interrupt), unless a body     *)
(* breaks off after its last byte.                                         *)
THEOREM DownloadFailsForCause == DownloadSpec => []FailsForCause
<1>1. Upheld => FailsForCause
  BY DEF Upheld, Counted, WhileUsual, LoadInv, FailedForCause, Cause, FailsForCause
<1> QED
  BY <1>1, UpheldInit, UpheldStep, PTL DEF DownloadSpec

(* A send on the channel of chunks never blocks under the lock d.m: the    *)
(* chunks in it are of the window between the reader and d.next, each at   *)
(* most once, and the window is never longer than the channel has room.    *)
THEOREM ChannelHasRoom == DownloadSpec => []SendNeverBlocks
<1>1. Downloading => Len(chan) <= ChanCap
  <2> SUFFICES ASSUME Downloading, Len(chan) > Cap PROVE FALSE
    <3>1. chan \in Seq(Chunks) => Len(chan) \in Nat
      OBVIOUS
    <3> QED
      BY <3>1, CapFacts DEF ChanCap, Downloading, PartTypes
  <2>1. PICK low \in Nat, next \in Nat, l \in Nat, cap \in Nat :
          low = reader.id /\ next = d.next /\ l = Len(chan) /\ cap = Cap
    <3>1. chan \in Seq(Chunks) => Len(chan) \in Nat
      OBVIOUS
    <3> QED
      BY <3>1, CapFacts DEF Downloading, PartTypes
  <2>2. /\ next - low <= cap /\ low <= next /\ l > cap
        /\ \A i \in 1..l : chan[i].id \in low..(next - 1)
        /\ \A i, k \in 1..l : chan[i].id = chan[k].id => i = k
    BY <2>1 DEF Downloading, Parts, Held, Window, Queue, Distinct, Alive
  <2>3. PICK f : f = [i \in 1..l |-> chan[i].id]
    OBVIOUS
  <2>4. f \in [1..l -> low..(next - 1)] /\ \A i, k \in 1..l : f[i] = f[k] => i = k
    BY <2>2, <2>3
  <2>5. /\ IsFiniteSet(1..l) /\ Cardinality(1..l) = IF 1 > l THEN 0 ELSE l - 1 + 1
        /\ IsFiniteSet(low..(next - 1))
        /\ Cardinality(low..(next - 1)) = IF low > next - 1 THEN 0 ELSE (next - 1) - low + 1
    BY FS_Interval
  <2>6. Cardinality(low..(next - 1)) < Cardinality(1..l)
    BY <2>2, <2>5
  <2>7. \E i, k \in 1..l : i # k /\ f[i] = f[k]
    BY <2>4, <2>5, <2>6, FS_PigeonHole
  <2> QED
    BY <2>4, <2>7
<1>2. WhileUsual => SendNeverBlocks
  BY <1>1 DEF WhileUsual, SendNeverBlocks
<1> QED
  BY <1>2, DownloadInvariance, PTL

(* What the reader has when it delivers the rest of its buffer.            *)
LEMMA DeliveredFacts ==
    ASSUME Downloading, Cur.offR < Len(Cur.data), Deliver
    PROVE  \E n \in 1..(Length - Len(reader.got)) :
             reader'.got = reader.got \o [i \in 1..n |-> Len(reader.got) + i]
<1>1. PICK b \in Buffers : b = Cur
  BY CurFacts
<1>2. PICK g \in Seq(Int), y \in Seq(Int), q \in Int, f \in Int, id \in Nat :
        g = reader.got /\ y = b.data /\ q = b.offR /\ f = Offset(reader.id) /\ id = reader.id
  <2>1. b.data \in Seq(Int) /\ b.offR \in Int
    BY DEF Buffers
  <2>2. Offset(reader.id) \in Int
    BY CurFacts
  <2> QED
    BY <2>1, <2>2 DEF Downloading, PartTypes
<1>3. 0 <= q /\ q < Len(y) /\ Len(y) <= b.size /\ b.size = ChunkSize(id) /\ InOrder(y, f)
  BY <1>1, <1>2, CurFacts DEF Filled, InOrder
<1>4. Len(g) = f + q /\ InOrder(g, 0)
  <2>1. /\ Len(reader.got) = Offset(reader.id) + Cur.offR
        /\ \A i \in 1..Len(reader.got) : reader.got[i] = i
    BY DEF Downloading, Reading
  <2>2. \A i \in 1..Len(g) : g[i] = 0 + i
    BY <1>2, <2>1
  <2> QED
    BY <1>1, <1>2, <2>1, <2>2 DEF InOrder
<1>5. PICK k \in Nat, l \in Nat, n \in Nat :
        k = q /\ l = Len(y) /\ k < l /\ n = l - k /\ n >= 1
  <2>1. PICK l \in Nat : l = Len(y)
    OBVIOUS
  <2>2. 0 <= q /\ q < l
    BY <1>3, <2>1
  <2>3. PICK k \in Nat : k = q
    BY <2>2
  <2>4. PICK n \in Nat : n = l - k /\ n >= 1
    BY <2>2, <2>3
  <2> QED
    BY <2>1, <2>2, <2>3, <2>4
<1>6. Remainder(y, k) = NextBytes(n, Len(g))
  <2>1. k <= Len(y) /\ Len(g) = f + k
    BY <1>4, <1>5
  <2>2. Remainder(y, k) = NextBytes(Len(y) - k, Len(g))
    BY <1>3, <1>4, <2>1, RestDelivered
  <2> QED
    BY <1>5, <2>2
<1>7. reader'.got = g \o Remainder(y, k)
  BY <1>1, <1>2, <1>5 DEF Deliver, Remainder, Downloading, PartTypes
<1>8. PICK top \in Nat, z \in Int, e \in Int :
        top = MaxPart /\ z = ChunkSize(id) /\ e = Offset(id + 1)
  <2>1. ChunkSize(id) \in 1..PartSize /\ PartSize \in Nat
    BY SizeFacts, DownloadAssumption
  <2>2. ChunkSize(id) \in Int
    BY <2>1
  <2>3. id + 1 \in Nat
    OBVIOUS
  <2>4. Offset(id + 1) \in Int
    BY <2>3, OffsetFacts
  <2> QED
    BY <2>2, <2>4, SizeFacts
<1>9. n <= Length - Len(g)
  <2>1. id + 1 <= top /\ id + 1 \in Nat
    <3>1. id < d.next /\ d.next <= top /\ d.next \in Nat
      BY <1>2, <1>8 DEF Downloading, PartTypes, Parts, Window, Reading
    <3> QED
      BY <3>1
  <2>2. e <= Length
    BY <1>8, <2>1, OffsetFacts
  <2>3. e = f + z
    BY <1>2, <1>8, OffsetFacts
  <2>4. l <= z /\ Len(g) = f + k
    <3>1. PICK s \in Int : s = b.size
      BY DEF Buffers
    <3> QED
      BY <1>3, <1>4, <1>5, <1>8, <3>1
  <2> QED
    BY <1>5, <2>2, <2>3, <2>4, DownloadAssumption
<1>10. n \in 1..(Length - Len(g)) /\ reader'.got = g \o NextBytes(n, Len(g))
  BY <1>5, <1>6, <1>7, <1>9, DownloadAssumption
<1> QED
  BY <1>2, <1>10 DEF NextBytes

(* Only a body that breaks off after its last byte counts as such.         *)
LEMMA LateStep ==
    ASSUME DownloadNext, troubles \in [status : Nat, breaks : Nat, late : Nat, fatal : Nat],
           troubles'.late # troubles.late
    PROVE  UNCHANGED reader
  BY DEF DownloadNext, Download, GoesWrong, Read, ParentCancel, ReadFails, ReadBytes, FinishBuf, Close,
         Take, Stop, Respond, FirstRefused, LaterRefused, GiveBack, Write, WriteStray, BodyEnds,
         NextAttempt, WriteFails, RequestEnds, Unsatisfiable, WrongSize, RequestFails, StatusError,
         BodyBreaks, BodyBreaksLate

(* The reader as RangeRead sees it.                                        *)
Status == IF reader.pc \in {"read", "wait"} THEN "open" ELSE reader.pc
Spoiled == troubles.late > 0

(* A usual step is one of the promise: the next bytes, the end after all   *)
(* of them, a failure or the closing.                                      *)
LEMMA UsualPromise ==
    ASSUME Downloading, [DownloadNext]_downloadVars, Spoiled' <=> Spoiled
    PROVE  \/ Promise!Deliver \/ Promise!End \/ Promise!Fail \/ Promise!Close
           \/ (reader'.got = reader.got /\ Status' = Status)
<1> USE DEF Status, Spoiled
<1>1. {"pc", "id", "buf", "got"} \subseteq DOMAIN reader
  BY DEF Downloading, PartTypes
<1>2. CASE UNCHANGED reader
  BY <1>2
<1>3. CASE ReadFails
  <2>1. reader.pc \in {"read", "wait"} /\ reader'.pc = "failed" /\ reader'.got = reader.got
    BY <1>1, <1>3 DEF ReadFails
  <2> QED
    BY <2>1 DEF Promise!Fail
<1>4. CASE ReadBytes
  <2>1. CASE Cur.offR < Len(Cur.data) /\ Deliver
    <3>1. reader.pc \in {"read", "wait"} /\ reader'.pc = "read"
      BY <1>1, <1>4, <2>1 DEF ReadBytes, Deliver
    <3>2. \E n \in 1..(Length - Len(reader.got)) :
            reader'.got = reader.got \o [i \in 1..n |-> Len(reader.got) + i]
      BY <2>1, DeliveredFacts
    <3>3. Status = "open" /\ Status' = Status
      BY <3>1
    <3>4. Spoiled' = Spoiled
      OBVIOUS
    <3> QED
      BY <3>2, <3>3, <3>4, Zenon DEF Promise!Deliver
  <2>2. CASE Pend
    <3>1. reader.pc \in {"read", "wait"} /\ reader'.pc = "wait" /\ reader'.got = reader.got
      BY <1>1, <1>4, <2>2 DEF ReadBytes, Pend
    <3> QED
      BY <3>1
  <2> QED
    BY <1>4, <2>1, <2>2 DEF ReadBytes
<1>5. CASE FinishBuf
  <2>1. CASE reader' = [reader EXCEPT !.pc = "eof"] /\ reader.id + 1 >= MaxPart
    <3>1. reader.pc = "read" /\ reader'.pc = "eof" /\ reader'.got = reader.got
      BY <1>1, <1>5, <2>1 DEF FinishBuf
    <3>2. Len(reader.got) = Length
      <4>1. Cur.offR >= Cur.size
        BY <1>5 DEF FinishBuf
      <4>2. Len(reader.got) = Offset(reader.id + 1)
        BY <4>1, BufferEnds
      <4>3. reader.id < d.next /\ d.next <= MaxPart /\ d.next \in Nat /\ reader.id \in Nat
        BY DEF Downloading, PartTypes, Parts, Window, Reading
      <4>4. MaxPart \in Nat
        BY SizeFacts
      <4>5. reader.id + 1 = MaxPart
        BY <2>1, <4>3, <4>4
      <4> QED
        BY <4>2, <4>5, OffsetFacts
    <3> QED
      BY <3>1, <3>2 DEF Promise!End
  <2>2. CASE reader' = [reader EXCEPT !.id = @ + 1, !.buf = ((reader.id + 1) % Len(bufs')) + 1]
    <3>1. reader'.pc = reader.pc /\ reader'.got = reader.got
      BY <1>1, <2>2
    <3> QED
      BY <3>1
  <2> QED
    BY <1>5, <2>1, <2>2 DEF FinishBuf
<1>6. CASE Close
  <2>1. reader.pc \in {"read", "eof", "failed"} /\ reader'.pc = "closed" /\ reader'.got = reader.got
    BY <1>1, <1>6 DEF Close
  <2> QED
    BY <2>1 DEF Promise!Close
<1>7. CASE DownloadNext
  <2>1. ReadFails \/ ReadBytes \/ FinishBuf \/ Close \/ UNCHANGED reader
    BY <1>7, OnlyReaders
  <2> QED
    BY <2>1, <1>2, <1>3, <1>4, <1>5, <1>6
<1>8. CASE UNCHANGED downloadVars
  <2>1. UNCHANGED reader
    BY <1>8 DEF downloadVars
  <2> QED
    BY <2>1, <1>2
<1> QED
  BY <1>7, <1>8

(* After a body has broken off after its last byte the reader still fails  *)
(* and closes as promised.                                                 *)
LEMMA SpoiledPromise ==
    ASSUME Counted, Counted', Spoiled, Spoiled', DownloadNext
    PROVE  \/ Promise!Fail \/ Promise!Close \/ Promise!Astray
           \/ (reader'.got = reader.got /\ Status' = Status)
<1> USE DEF Status, Spoiled
<1>1. CASE UNCHANGED reader
  BY <1>1
<1>2. CASE ReadFails
  <2>1. reader.pc \in {"read", "wait"} /\ reader'.pc = "failed" /\ reader'.got = reader.got
    BY <1>2 DEF ReadFails, Counted, ReaderFields
  <2> QED
    BY <2>1 DEF Promise!Fail
<1>3. CASE ReadBytes
  <2>1. reader.pc \in {"read", "wait"} /\ reader'.pc \in {"read", "wait"}
    BY <1>3 DEF ReadBytes, Deliver, Pend, Counted, ReaderFields
  <2> QED
    BY <2>1 DEF Promise!Astray
<1>4. CASE FinishBuf
  <2>1. reader.pc = "read" /\ reader'.pc \in {"read", "eof"}
    BY <1>4 DEF FinishBuf, Counted, ReaderFields
  <2> QED
    BY <2>1 DEF Promise!Astray
<1>5. CASE Close
  <2>1. reader.pc \in {"read", "eof", "failed"} /\ reader'.pc = "closed" /\ reader'.got = reader.got
    BY <1>5 DEF Close, Counted, ReaderFields
  <2> QED
    BY <2>1 DEF Promise!Close
<1> QED
  BY <1>1, <1>2, <1>3, <1>4, <1>5, OnlyReaders

(* The bytes come to the consumer of the reader in order and none is left  *)
(* out before the end, whatever the workers, the server and the caller do, *)
(* as long as no body breaks off after its last byte.                      *)
THEOREM BytesInOrder == DownloadSpec => ReaderPromise
<1> DEFINE Step == \/ Promise!Deliver \/ Promise!End \/ Promise!Fail \/ Promise!Close
                   \/ Promise!Spoil \/ Promise!Astray
<1>1. DownloadInit => Promise!RangeInit
  BY DEF DownloadInit, Promise!RangeInit
<1>2. Upheld /\ Upheld' /\ [DownloadNext]_downloadVars => [Step]_(Promise!readVars)
  <2> SUFFICES ASSUME Upheld, Upheld', [DownloadNext]_downloadVars
               PROVE  Step \/ (reader'.got = reader.got /\ Status' = Status /\ (Spoiled' <=> Spoiled))
    BY DEF Promise!readVars, Status, Spoiled
  <2>1. CASE UNCHANGED downloadVars
    BY <2>1 DEF downloadVars, Status, Spoiled
  <2>2. CASE DownloadNext /\ Spoiled /\ Spoiled'
    BY <2>2, SpoiledPromise DEF Upheld
  <2>3. CASE DownloadNext /\ ~Spoiled /\ ~Spoiled'
    <3>1. Downloading
      BY <2>3 DEF Upheld, Counted, WhileUsual, Spoiled
    <3> QED
      BY <2>3, <3>1, UsualPromise
  <2>4. CASE DownloadNext /\ (Spoiled' <=> ~Spoiled)
    <3>1. ~Spoiled /\ Spoiled' /\ Goes("late")
      BY <2>4, TroublesGrow DEF Goes, Upheld, Counted, Spoiled
    <3>2. UNCHANGED reader
      <4>1. troubles \in [status : Nat, breaks : Nat, late : Nat, fatal : Nat]
        BY DEF Upheld, Counted
      <4>2. troubles'.late # troubles.late
        BY <3>1, <4>1 DEF Goes
      <4> QED
        BY <2>4, <4>1, <4>2, LateStep
    <3> QED
      BY <3>1, <3>2 DEF Promise!Spoil, Spoiled
  <2> QED
    BY <2>1, <2>2, <2>3, <2>4
<1> QED
  BY <1>1, <1>2, UpheldInit, UpheldStep, PTL DEF DownloadSpec, ReaderPromise, Promise!RangeSpec
=============================================================================
