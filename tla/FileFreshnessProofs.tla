------------------------- MODULE FileFreshnessProofs -------------------------
(***************************************************************************)
(* An mtime identifies a content: proof, for every set of contents and any *)
(* number of edits, that a row whose mtime is the file's holds the file's  *)
(* hash unless the file was edited during the parse, and that a sync       *)
(* nobody disturbs leaves the row describing the file.                     *)
(***************************************************************************)
EXTENDS FileFreshness, TLAPS

\* Every mtime on record was carried by a write, or is the fallback.
StampsAreUsed ==
  /\ mtime \in used /\ SecondsFallback \notin used
  /\ row # NoRow => row.mtime \in used \cup {SecondsFallback}
  /\ stat.mtime \in used \cup {SecondsFallback}
  /\ got.mtime \in used \cup {SecondsFallback}

\* What the operation in progress has in hand is as good as a row.
TouchIsSound ==
  step = "touch" => row # NoRow /\ (Exists /\ stat.mtime = mtime => row.hash = content)

ReadIsSound == step = "restat" /\ "read" \in calm /\ Exists => got.hash = content

RecordIsSound ==
  step = "store" /\ ~got.raced /\ Exists /\ got.mtime = mtime => got.hash = content

IInv ==
  /\ TypeOK /\ StampsAreUsed
  /\ TouchIsSound /\ ReadIsSound /\ RecordIsSound /\ StampTellsContent

LEMMA RowsAreNotNoRow == \A r \in Row : r # NoRow
  BY FreshnessAssumption DEF FreshnessAssumption, Row, Time, Size

LEMMA InitEstablishes == Init => IInv
  <1> SUFFICES ASSUME Init PROVE IInv OBVIOUS
  <1>1. 1 \in Time /\ 0 \in Time BY FreshnessAssumption DEF FreshnessAssumption, Time
  <1>2. TypeOK
    <2>1. got \in [hash : Content, mtime : Time, raced : BOOLEAN]
      <3>1. PICK c \in Content : got = [hash |-> c, mtime |-> 0, raced |-> FALSE] BY DEF Init
      <3> QED BY <3>1, <1>1
    <2>2. stat \in [mtime : Time, size : Size] BY <1>1 DEF Init, Size
    <2> QED BY <2>1, <2>2, <1>1 DEF Init, TypeOK, Steps
  <1>3. StampsAreUsed BY DEF Init, StampsAreUsed, SecondsFallback
  <1>4. TouchIsSound /\ ReadIsSound /\ RecordIsSound /\ StampTellsContent
    BY DEF Init, TouchIsSound, ReadIsSound, RecordIsSound, StampTellsContent
  <1> QED BY <1>2, <1>3, <1>4 DEF IInv

\* A new mtime matches nothing on record.
LEMMA EditPreserves == ASSUME IInv, Edit PROVE IInv'
  <1> USE DEF IInv
  <1>1. PICK c \in (Content \cup {Absent}) \ {content}, t \in Time \ (used \cup {SecondsFallback}) :
          content' = c /\ mtime' = t /\ used' = used \cup {t}
    BY DEF Edit
  <1>2. UNCHANGED <<row, raced, op, step, stat, got, lazy>> /\ calm' = {} BY DEF Edit
  <1>3. TypeOK' BY <1>1, <1>2 DEF TypeOK, Time
  <1>4. StampsAreUsed' BY <1>1, <1>2 DEF StampsAreUsed
  <1>5. /\ row # NoRow => row.mtime # t
        /\ stat.mtime # t /\ got.mtime # t
    BY <1>1 DEF StampsAreUsed
  <1>6. TouchIsSound' BY <1>1, <1>2, <1>5 DEF TouchIsSound
  <1>7. ReadIsSound' BY <1>2 DEF ReadIsSound
  <1>8. RecordIsSound' BY <1>1, <1>2, <1>5 DEF RecordIsSound
  <1>9. StampTellsContent' BY <1>1, <1>2, <1>5 DEF StampTellsContent
  <1> QED BY <1>3, <1>4, <1>6, <1>7, <1>8, <1>9

LEMMA TouchPreserves == ASSUME IInv, Touch PROVE IInv'
  <1> USE DEF IInv
  <1>1. PICK t \in Time \ used : (\A u \in used : t > u) /\ mtime' = t /\ used' = used \cup {t}
    BY DEF Touch
  <1>2. UNCHANGED <<content, row, raced, op, step, stat, got, calm, lazy>> BY DEF Touch
  <1>3. t # SecondsFallback
    <2>1. mtime \in used /\ mtime \in Nat BY DEF TypeOK, StampsAreUsed, Time
    <2> QED BY <1>1, <2>1 DEF SecondsFallback, Time
  <1>4. TypeOK' BY <1>1, <1>2 DEF TypeOK, Time
  <1>5. StampsAreUsed' BY <1>1, <1>2, <1>3 DEF StampsAreUsed
  <1>6. /\ row # NoRow => row.mtime # t
        /\ stat.mtime # t /\ got.mtime # t
    BY <1>1, <1>3 DEF StampsAreUsed
  <1>7. TouchIsSound' /\ ReadIsSound' /\ RecordIsSound' /\ StampTellsContent'
    BY <1>1, <1>2, <1>6 DEF TouchIsSound, ReadIsSound, RecordIsSound, StampTellsContent, Exists
  <1> QED BY <1>4, <1>5, <1>7

\* The extraction: what was read is paired with the stat taken after it.
LEMMA ExtractionPreserves ==
  ASSUME IInv, ReadSource \/ StatSource \/ StoreRow PROVE IInv'
  <1> USE DEF IInv
  <1>1. CASE ReadSource
    <2>1. UNCHANGED <<file, row, raced, op, stat, lazy>> BY <1>1 DEF ReadSource
    <2>2. /\ got' = IF Exists THEN [got EXCEPT !.hash = content] ELSE got
          /\ calm' = calm \cup {"read"}
          /\ step' = IF Exists THEN "restat" ELSE "end"
      BY <1>1 DEF ReadSource
    <2>3. TypeOK' BY <2>1, <2>2 DEF TypeOK, file, Steps, Exists
    <2>4. StampsAreUsed' BY <2>1, <2>2 DEF StampsAreUsed, file, TypeOK
    <2>5. TouchIsSound' /\ RecordIsSound' BY <2>2 DEF TouchIsSound, RecordIsSound
    <2>6. ReadIsSound' BY <2>1, <2>2 DEF ReadIsSound, Exists, file, TypeOK
    <2>7. StampTellsContent' BY <2>1 DEF StampTellsContent, Exists, file
    <2> QED BY <2>3, <2>4, <2>5, <2>6, <2>7
  <1>2. CASE StatSource
    <2>1. UNCHANGED <<file, row, raced, op, stat, calm, lazy>> BY <1>2 DEF StatSource
    <2>2. /\ got' = [got EXCEPT !.mtime = IF Exists THEN mtime ELSE SecondsFallback,
                               !.raced = "read" \notin calm]
          /\ step = "restat" /\ step' = "store"
      BY <1>2 DEF StatSource
    <2>3. 0 \in Time BY FreshnessAssumption DEF FreshnessAssumption, Time
    <2>4. TypeOK' BY <2>1, <2>2, <2>3 DEF TypeOK, file, Steps, SecondsFallback
    <2>5. StampsAreUsed' BY <2>1, <2>2 DEF StampsAreUsed, file, TypeOK
    <2>6. TouchIsSound' /\ ReadIsSound' BY <2>2 DEF TouchIsSound, ReadIsSound
    <2>7. RecordIsSound' BY <2>1, <2>2 DEF RecordIsSound, ReadIsSound, Exists, file, TypeOK
    <2>8. StampTellsContent' BY <2>1 DEF StampTellsContent, Exists, file
    <2> QED BY <2>4, <2>5, <2>6, <2>7, <2>8
  <1>3. CASE StoreRow
    <2>1. UNCHANGED <<file, op, stat, got, calm, lazy>> BY <1>3 DEF StoreRow
    <2>2. /\ row' = [hash |-> got.hash, mtime |-> got.mtime, size |-> SizeOf[got.hash]]
          /\ raced' = got.raced /\ step = "store" /\ step' = "end"
      BY <1>3 DEF StoreRow
    <2>3. TypeOK' BY <2>1, <2>2 DEF TypeOK, file, Steps, Row, Size
    <2>4. StampsAreUsed' BY <2>1, <2>2 DEF StampsAreUsed, file
    <2>5. TouchIsSound' /\ ReadIsSound' /\ RecordIsSound'
      BY <2>2 DEF TouchIsSound, ReadIsSound, RecordIsSound
    <2>6. StampTellsContent' BY <2>1, <2>2 DEF StampTellsContent, RecordIsSound, Exists, file
    <2> QED BY <2>3, <2>4, <2>5, <2>6
  <1> QED BY <1>1, <1>2, <1>3

\* The steps that drop the row.
LEMMA RemovalPreserves ==
  ASSUME IInv, ClearRows \/ RemoveDeleted \/ LazyRemove PROVE IInv'
  <1> USE DEF IInv
  <1>1. /\ row' = NoRow /\ step' \in {"read", "end"}
        /\ UNCHANGED <<file, raced, op, stat, got, calm, lazy>>
    BY DEF ClearRows, RemoveDeleted, LazyRemove
  <1>2. TypeOK' BY <1>1 DEF TypeOK, file, Steps
  <1>3. StampsAreUsed' BY <1>1 DEF StampsAreUsed, file
  <1>4. TouchIsSound' /\ ReadIsSound' /\ RecordIsSound' /\ StampTellsContent'
    BY <1>1 DEF TouchIsSound, ReadIsSound, RecordIsSound, StampTellsContent
  <1> QED BY <1>2, <1>3, <1>4

\* The scan: the stat is older than the hash it is recorded with.
LEMMA ScanPreserves ==
  ASSUME IInv, StartSync \/ Prefilter \/ HashSource \/ RecordTouch PROVE IInv'
  <1> USE DEF IInv
  <1>1. CASE StartSync
    <2>1. UNCHANGED <<file, row, raced, got, lazy>> BY <1>1 DEF StartSync
    <2>2. /\ op' = "sync" /\ calm' = {"start"}
          /\ step' \in {"scanned", "clear"}
          /\ stat' = stat \/ (Exists /\ stat' = [mtime |-> mtime, size |-> SizeOf[content]])
      BY <1>1 DEF StartSync
    <2>3. TypeOK' BY <2>1, <2>2 DEF TypeOK, file, Steps, Exists, Size
    <2>4. StampsAreUsed' BY <2>1, <2>2 DEF StampsAreUsed, file
    <2>5. TouchIsSound' /\ ReadIsSound' /\ RecordIsSound'
      BY <2>2 DEF TouchIsSound, ReadIsSound, RecordIsSound
    <2>6. StampTellsContent' BY <2>1 DEF StampTellsContent, Exists, file
    <2> QED BY <2>3, <2>4, <2>5, <2>6
  <1>2. CASE Prefilter
    <2>1. /\ step' \in {"end", "hash"}
          /\ UNCHANGED <<file, row, raced, op, stat, got, calm, lazy>>
      BY <1>2 DEF Prefilter
    <2>2. TypeOK' /\ StampsAreUsed' BY <2>1 DEF TypeOK, StampsAreUsed, file, Steps
    <2>3. TouchIsSound' /\ ReadIsSound' /\ RecordIsSound' /\ StampTellsContent'
      BY <2>1 DEF TouchIsSound, ReadIsSound, RecordIsSound, StampTellsContent, Exists, file
    <2> QED BY <2>2, <2>3
  <1>3. CASE HashSource
    <2>1. /\ step' \in {"end", "touch", "read"}
          /\ step' = "touch" => row # NoRow /\ row.hash = content
          /\ UNCHANGED <<file, row, raced, op, stat, got, calm, lazy>>
      BY <1>3 DEF HashSource
    <2>2. TypeOK' /\ StampsAreUsed' BY <2>1 DEF TypeOK, StampsAreUsed, file, Steps
    <2>3. TouchIsSound' /\ ReadIsSound' /\ RecordIsSound' /\ StampTellsContent'
      BY <2>1 DEF TouchIsSound, ReadIsSound, RecordIsSound, StampTellsContent, Exists, file
    <2> QED BY <2>2, <2>3
  <1>4. CASE RecordTouch
    <2>1. /\ row' = [row EXCEPT !.mtime = stat.mtime, !.size = stat.size]
          /\ raced' = FALSE /\ step = "touch" /\ step' = "end"
          /\ UNCHANGED <<file, op, stat, got, calm, lazy>>
      BY <1>4 DEF RecordTouch
    <2>2. row \in Row BY <2>1 DEF TypeOK, TouchIsSound
    <2>3. row' \in Row BY <2>1, <2>2 DEF Row, TypeOK
    <2>4. row'.hash = row.hash /\ row'.mtime = stat.mtime BY <2>1, <2>2 DEF Row
    <2>5. TypeOK' BY <2>1, <2>3 DEF TypeOK, file, Steps
    <2>6. StampsAreUsed' BY <2>1, <2>4 DEF StampsAreUsed, file
    <2>7. TouchIsSound' /\ ReadIsSound' /\ RecordIsSound'
      BY <2>1 DEF TouchIsSound, ReadIsSound, RecordIsSound
    <2>8. StampTellsContent' BY <2>1, <2>4 DEF StampTellsContent, TouchIsSound, Exists, file
    <2> QED BY <2>5, <2>6, <2>7, <2>8
  <1> QED BY <1>1, <1>2, <1>3, <1>4

\* Locking, unlocking and the lazy caller's decisions touch no record.
LEMMA ControlPreserves ==
  ASSUME IInv, StartIndex \/ Unlock \/ Lazy \/ LazyGiveUp PROVE IInv'
  <1> USE DEF IInv
  <1>1. /\ UNCHANGED <<file, row, raced, stat, got>>
        /\ \/ step' = step /\ calm' = calm
           \/ step' \in {"idle", "clear", "read"}
    BY DEF StartIndex, Unlock, Lazy, LazyCheck, LazyWait, LazyStart, LazyGiveUp
  <1>2. TypeOK'
    BY DEF TypeOK, Steps, file, StartIndex, Unlock, Lazy, LazyCheck, LazyWait, LazyStart, LazyGiveUp
  <1>3. StampsAreUsed' BY <1>1 DEF StampsAreUsed, file
  <1>4. TouchIsSound' /\ ReadIsSound' /\ RecordIsSound' /\ StampTellsContent'
    BY <1>1 DEF TouchIsSound, ReadIsSound, RecordIsSound, StampTellsContent, Exists, file
  <1> QED BY <1>2, <1>3, <1>4

LEMMA StepPreserves == IInv /\ [Next]_vars => IInv'
  <1> SUFFICES ASSUME IInv, [Next]_vars PROVE IInv' OBVIOUS
  <1>1. CASE UNCHANGED vars
    BY <1>1 DEF vars, IInv, TypeOK, StampsAreUsed, TouchIsSound, ReadIsSound, RecordIsSound,
                StampTellsContent, Exists
  <1>2. CASE Edit BY <1>2, EditPreserves
  <1>3. CASE Touch BY <1>3, TouchPreserves
  <1>4. CASE ReadSource \/ StatSource \/ StoreRow BY <1>4, ExtractionPreserves
  <1>5. CASE ClearRows \/ RemoveDeleted \/ LazyRemove BY <1>5, RemovalPreserves
  <1>6. CASE StartSync \/ Prefilter \/ HashSource \/ RecordTouch BY <1>6, ScanPreserves
  <1>7. CASE StartIndex \/ Unlock \/ Lazy \/ LazyGiveUp BY <1>7, ControlPreserves
  <1> QED BY <1>1, <1>2, <1>3, <1>4, <1>5, <1>6, <1>7 DEF Next, Running

\* The records of every run are well-formed and consistent with the writes.
THEOREM Invariance == Spec => []IInv
  <1> QED BY InitEstablishes, StepPreserves, PTL DEF Spec

\* Type correctness of the freshness protocol.
THEOREM TypeCorrect == Spec => []TypeOK
  <1>1. IInv => TypeOK BY DEF IInv
  <1> QED BY <1>1, Invariance, PTL

\* A row that was not raced and carries the file's mtime carries its hash, so
\* both syncs may skip the file.
THEOREM SkippingIsSound == Spec => []StampTellsContent
  <1>1. IInv => StampTellsContent BY DEF IInv
  <1> QED BY <1>1, Invariance, PTL

-----------------------------------------------------------------------------
(* A sync nobody disturbs leaves the row describing the file.              *)

\* The sync has come to its end: the row is right, or it was skipped for the
\* stat of a raced row.
SyncedUp == UpToDate \/ (raced /\ row # NoRow /\ row.mtime = stat.mtime /\ row.size = stat.size)

\* As long as nobody has edited the file since the scan, the content is the one
\* the scan saw, and what is in hand belongs to it.
UndisturbedSync ==
  op = "sync" /\ "start" \in calm =>
    /\ step \in {"scanned", "hash", "touch", "read", "restat", "store"} => Exists
    /\ step = "clear" => ~Exists
    /\ step = "scanned" /\ row # NoRow /\ row.mtime = stat.mtime => raced \/ row.hash = content
    /\ step = "touch" => row # NoRow /\ row.hash = content
    /\ step \in {"restat", "store"} => got.hash = content
    /\ step = "end" => SyncedUp

\* Every step keeps what an undisturbed sync knows.
LEMMA SyncKnowledgePreserved ==
  ASSUME IInv, UndisturbedSync, [Next]_vars PROVE UndisturbedSync'
  <1> USE DEF UndisturbedSync
  <1>1. CASE UNCHANGED vars BY <1>1 DEF vars, Exists, SyncedUp, UpToDate
  <1>2. CASE Edit BY <1>2 DEF Edit
  <1>3. CASE Touch BY <1>3 DEF Touch, Exists, SyncedUp, UpToDate
  <1>4. CASE ReadSource
    <2>1. Exists /\ op = "sync" => got'.hash = content
      BY <1>4 DEF ReadSource, IInv, TypeOK
    <2> QED BY <1>4, <2>1 DEF ReadSource, Exists, file
  <1>5. CASE StatSource
    <2>1. got'.hash = got.hash BY <1>5 DEF StatSource, IInv, TypeOK
    <2> QED BY <1>5, <2>1 DEF StatSource, Exists, file
  <1>6. CASE StoreRow
    <2>1. row' \in Row BY <1>6 DEF StoreRow, IInv, TypeOK, Row, Size
    <2>2. row' # NoRow /\ row'.hash = got.hash BY <1>6, <2>1, RowsAreNotNoRow DEF StoreRow
    <2> QED BY <1>6, <2>2 DEF StoreRow, Exists, file, SyncedUp, UpToDate
  <1>7. CASE ClearRows \/ RemoveDeleted \/ LazyRemove
    BY <1>7 DEF ClearRows, RemoveDeleted, LazyRemove, Exists, file, SyncedUp, UpToDate
  <1>8. CASE StartSync
    <2>1. CASE Exists
      <3>1. stat' = [mtime |-> mtime, size |-> SizeOf[content]] /\ step' = "scanned"
        BY <1>8, <2>1 DEF StartSync
      <3>2. UNCHANGED <<file, row, raced>> BY <1>8 DEF StartSync
      <3>3. row # NoRow /\ row.mtime = stat'.mtime => raced \/ row.hash = content
        BY <2>1, <3>1 DEF IInv, StampTellsContent
      <3> QED BY <2>1, <3>1, <3>2, <3>3 DEF Exists, file
    <2>2. CASE ~Exists BY <1>8, <2>2 DEF StartSync, Exists, file
    <2> QED BY <2>1, <2>2
  <1>9. CASE Prefilter BY <1>9 DEF Prefilter, Exists, file, SyncedUp, UpToDate
  <1>10. CASE HashSource
    <2>1. /\ step = "hash" /\ UNCHANGED <<file, row, raced, op, stat, got, calm, lazy>>
          /\ step' \in {"end", "touch", "read"}
          /\ step' = "end" => ~Exists
          /\ step' = "touch" => row # NoRow /\ row.hash = content
      BY <1>10 DEF HashSource
    <2> QED BY <2>1 DEF Exists, file
  <1>11. CASE RecordTouch
    <2>1. /\ row' = [row EXCEPT !.mtime = stat.mtime, !.size = stat.size]
          /\ step = "touch" /\ step' = "end"
          /\ UNCHANGED <<file, op, stat, got, calm, lazy>>
      BY <1>11 DEF RecordTouch
    <2>2. row \in Row BY <2>1 DEF IInv, TypeOK, TouchIsSound
    <2>3. row' # NoRow /\ row'.hash = row.hash
      BY <2>1, <2>2, RowsAreNotNoRow DEF Row, IInv, TypeOK
    <2> QED BY <2>1, <2>3 DEF Exists, file, SyncedUp, UpToDate
  <1>12. CASE StartIndex \/ Unlock BY <1>12 DEF StartIndex, Unlock
  <1>13. CASE Lazy \/ LazyGiveUp
    <2>1. op' = "lazy" \/ UNCHANGED <<file, row, raced, op, step, stat, got, calm>>
      BY <1>13 DEF Lazy, LazyCheck, LazyWait, LazyStart, LazyGiveUp
    <2> QED BY <2>1 DEF Exists, file, SyncedUp, UpToDate
  <1> QED
    BY <1>1, <1>2, <1>3, <1>4, <1>5, <1>6, <1>7, <1>8, <1>9, <1>10, <1>11, <1>12, <1>13
    DEF Next, Running

\* A full sync during which nobody edits the file leaves the row describing
\* it, unless its scan met a raced row with the very stat the file has.
THEOREM UndisturbedSyncIsFresh == Spec => SyncEndsFresh
  <1>1. Init => UndisturbedSync BY DEF Init, UndisturbedSync
  <1>2. IInv /\ UndisturbedSync /\ [Next]_vars => UndisturbedSync'
    BY SyncKnowledgePreserved
  <1>3. UndisturbedSync =>
          [step = "end" /\ op = "sync" /\ step' = "idle" /\ "start" \in calm
             => \/ UpToDate
                \/ raced /\ row # NoRow /\ row.mtime = stat.mtime /\ row.size = stat.size]_vars
    BY DEF UndisturbedSync, SyncedUp
  <1> QED BY <1>1, <1>2, <1>3, Invariance, PTL DEF Spec, SyncEndsFresh
=============================================================================
