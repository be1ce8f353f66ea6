--------------------------- MODULE AccountsProofs ---------------------------
(***************************************************************************)
(* Theorems about Accounts for every value of its constants.               *)
(***************************************************************************)
EXTENDS Accounts, OtpProofs, FiniteSetTheorems, WellFoundedInduction

GuardProofs == INSTANCE ReadCacheProofs WITH
    Ttl <- GuardTtl, MaxAge <- 0, Invalidates <- FALSE, MaxCall <- MaxRead,
    truth <- phone, since <- outdated, cache <- known, pc <- guard, got <- checked,
    age <- spent, copy <- reuse, shown <- seen, excused <- slipped

ListProofs == INSTANCE ReadCacheProofs WITH
    Ttl <- ListTtl, MaxAge <- ListAge, Invalidates <- TRUE, MaxCall <- MaxRead,
    pc <- reader, got <- read, age <- taken

TabProofs == INSTANCE SignInProofs

-----------------------------------------------------------------------------
(* The avatar *)

AvatarUploading(h) == task[h] \in {"main", "thumb", "read", "update"}

AvatarOwn ==
    \A h \in Handlers : AvatarUploading(h) =>
        /\ new[h] \in 1 .. drawn
        /\ new[h] # storageKey
        /\ \A g \in Handlers : previous[g] # new[h]
        /\ \A g \in Handlers \ {h} : AvatarUploading(g) => new[g] # new[h]

AvatarSaved ==
    \A h \in Handlers :
        /\ task[h] \in {"thumb", "read", "update"} => <<new[h], "main">> \in files
        /\ task[h] \in {"read", "update"} => <<new[h], "thumb">> \in files

AvatarCleaning ==
    \A h \in Handlers :
        /\ task[h] \in {"oldMain", "oldThumb"} => previous[h] \notin {0, storageKey}
        /\ task[h] \in {"dropMain", "dropThumb"} => previous[h] \in doomed

AvatarIInv == Avatar!TypeOK /\ AvatarOwn /\ AvatarSaved /\ AvatarCleaning /\ Avatar!NamedFilesExist

-----------------------------------------------------------------------------
\* The two files of a key.
LEMMA AvatarFilesOfKey ==
  /\ Avatar!Files(0) = {}
  /\ \A k : k # 0 => Avatar!Files(k) = {<<k, "main">>, <<k, "thumb">>}
  BY DEF Avatar!Files

\* No file, no key and no call at first.
LEMMA AvatarInitIInv == MaxKeys \in Nat /\ Avatar!Init => AvatarIInv
<1> SUFFICES ASSUME MaxKeys \in Nat, Avatar!Init PROVE AvatarIInv
  OBVIOUS
<1>1. Avatar!TypeOK
  <2>1. files \subseteq (1 .. drawn) \X {"main", "thumb"} /\ doomed \subseteq 0 .. drawn
    BY DEF Avatar!Init
  <2>2. storageKey \in 0 .. drawn /\ drawn \in 0 .. MaxKeys
    BY DEF Avatar!Init
  <2>3. /\ task \in [Handlers -> {"idle", "main", "thumb", "read", "update", "oldMain",
                                 "oldThumb", "dropMain", "dropThumb", "clear"}]
        /\ new \in [Handlers -> 0 .. drawn] /\ previous \in [Handlers -> 0 .. drawn]
    BY DEF Avatar!Init
  <2>4. disturbed \in BOOLEAN
    BY DEF Avatar!Init
  <2> QED
    BY <2>1, <2>2, <2>3, <2>4 DEF Avatar!TypeOK
<1>2. AvatarOwn /\ AvatarSaved /\ AvatarCleaning
  BY DEF Avatar!Init, AvatarOwn, AvatarUploading, AvatarSaved, AvatarCleaning
<1>3. Avatar!NamedFilesExist
  BY AvatarFilesOfKey DEF Avatar!Init, Avatar!NamedFilesExist
<1> QED
  BY <1>1, <1>2, <1>3 DEF AvatarIInv

\* What moving on does to the program counters.
LEMMA AvatarGoEffect ==
  ASSUME Avatar!TypeOK, NEW h \in Handlers, NEW from, NEW to, Avatar!Go(h, from, to)
  PROVE  /\ task[h] = from /\ task'[h] = to
         /\ \A g \in Handlers \ {h} : task'[g] = task[g]
         /\ task' = [task EXCEPT ![h] = to]
  BY DEF Avatar!Go, Avatar!TypeOK

\* A call that has just been given a key of its own.
LEMMA AvatarUploadStep ==
  ASSUME MaxKeys \in Nat, AvatarIInv, NEW h \in Handlers, Avatar!Upload(h)
  PROVE  AvatarIInv'
<1> USE DEF AvatarIInv
<1>0. /\ drawn < MaxKeys /\ drawn' = drawn + 1 /\ Avatar!Go(h, "idle", "main")
      /\ new' = [new EXCEPT ![h] = drawn + 1]
      /\ disturbed' \in BOOLEAN
      /\ UNCHANGED <<files, storageKey, previous, doomed>>
  BY DEF Avatar!Upload, Avatar!Start
<1>1. /\ task'[h] = "main" /\ task' = [task EXCEPT ![h] = "main"]
      /\ \A g \in Handlers \ {h} : task'[g] = task[g]
  BY <1>0, AvatarGoEffect
<1>2. drawn \in Nat /\ new'[h] = drawn + 1 /\ \A g \in Handlers \ {h} : new'[g] = new[g]
  BY <1>0 DEF Avatar!TypeOK
<1>3. Avatar!TypeOK'
  BY <1>0, <1>1, <1>2 DEF Avatar!TypeOK
<1>4. AvatarOwn'
  BY <1>0, <1>1, <1>2 DEF Avatar!TypeOK, AvatarOwn, AvatarUploading
<1>5. AvatarSaved'
  BY <1>0, <1>1, <1>2 DEF AvatarSaved
<1>6. AvatarCleaning' /\ Avatar!NamedFilesExist'
  BY <1>0, <1>1 DEF AvatarCleaning, Avatar!NamedFilesExist
<1> QED
  BY <1>3, <1>4, <1>5, <1>6

\* A file is added.
LEMMA AvatarSaveStep ==
  ASSUME AvatarIInv, NEW h \in Handlers, Avatar!SaveMain(h) \/ Avatar!SaveThumbnail(h)
  PROVE  AvatarIInv'
<1> USE DEF AvatarIInv
<1>0. PICK size \in {"main", "thumb"} :
        /\ Avatar!Go(h, size, IF size = "main" THEN "thumb" ELSE "read")
        /\ files' = files \cup {<<new[h], size>>}
        /\ UNCHANGED <<storageKey, drawn, new, previous, doomed, disturbed>>
  BY DEF Avatar!SaveMain, Avatar!SaveThumbnail
<1>1. /\ task[h] = size /\ task'[h] = IF size = "main" THEN "thumb" ELSE "read"
      /\ task' = [task EXCEPT ![h] = IF size = "main" THEN "thumb" ELSE "read"]
      /\ \A g \in Handlers \ {h} : task'[g] = task[g]
  BY <1>0, AvatarGoEffect
<1>2. AvatarUploading(h) /\ \A g \in Handlers : AvatarUploading(g)' => AvatarUploading(g)
  BY <1>1 DEF AvatarUploading
<1>3. Avatar!TypeOK'
  BY <1>0, <1>1, <1>2 DEF Avatar!TypeOK, AvatarOwn
<1>4. AvatarOwn'
  BY <1>0, <1>2 DEF AvatarOwn
<1>5. AvatarSaved'
  BY <1>0, <1>1 DEF AvatarSaved
<1>6. AvatarCleaning' /\ Avatar!NamedFilesExist'
  BY <1>0, <1>1 DEF AvatarCleaning, Avatar!NamedFilesExist
<1> QED
  BY <1>3, <1>4, <1>5, <1>6

\* The key to clean up is read: nobody's who is still uploading.
LEMMA AvatarReadStep ==
  ASSUME AvatarIInv, NEW h \in Handlers, Avatar!ReadPrevious(h)
  PROVE  AvatarIInv'
<1> USE DEF AvatarIInv
<1>0. /\ Avatar!Go(h, "read", "update") /\ previous' = [previous EXCEPT ![h] = storageKey]
      /\ UNCHANGED <<files, storageKey, drawn, new, doomed, disturbed>>
  BY DEF Avatar!ReadPrevious
<1>1. /\ task[h] = "read" /\ task'[h] = "update" /\ task' = [task EXCEPT ![h] = "update"]
      /\ \A g \in Handlers \ {h} : task'[g] = task[g]
  BY <1>0, AvatarGoEffect
<1>2. /\ previous'[h] = storageKey
      /\ \A g \in Handlers \ {h} : previous'[g] = previous[g]
      /\ \A g \in Handlers : AvatarUploading(g)' => AvatarUploading(g)
  BY <1>0, <1>1 DEF Avatar!TypeOK, AvatarUploading
<1>3. Avatar!TypeOK'
  BY <1>0, <1>1 DEF Avatar!TypeOK
<1>4. AvatarOwn'
  BY <1>0, <1>2 DEF AvatarOwn
<1>5. AvatarSaved'
  BY <1>0, <1>1 DEF AvatarSaved
<1>6. AvatarCleaning' /\ Avatar!NamedFilesExist'
  BY <1>0, <1>1, <1>2 DEF AvatarCleaning, Avatar!NamedFilesExist
<1> QED
  BY <1>3, <1>4, <1>5, <1>6

\* The row names a key whose two files are there, and which nobody has read.
LEMMA AvatarUpdateStep ==
  ASSUME AvatarIInv, NEW h \in Handlers, Avatar!UpdateRow(h)
  PROVE  AvatarIInv'
<1> USE DEF AvatarIInv
<1>0. /\ Avatar!Go(h, "update", IF previous[h] = 0 THEN "idle" ELSE "oldMain")
      /\ storageKey' = new[h]
      /\ UNCHANGED <<files, drawn, new, previous, doomed, disturbed>>
  BY DEF Avatar!UpdateRow
<1>1. /\ task[h] = "update" /\ task'[h] \in {"idle", "oldMain"} /\ task' = [task EXCEPT ![h] = task'[h]]
      /\ task'[h] = "oldMain" => previous[h] # 0
      /\ \A g \in Handlers \ {h} : task'[g] = task[g]
  BY <1>0, AvatarGoEffect
<1>2. AvatarUploading(h) /\ ~AvatarUploading(h)' /\ \A g \in Handlers : AvatarUploading(g)' => AvatarUploading(g)
  BY <1>1 DEF AvatarUploading
<1>3. Avatar!TypeOK'
  BY <1>0, <1>1 DEF Avatar!TypeOK
<1>4. AvatarOwn'
  BY <1>0, <1>2 DEF AvatarOwn
<1>5. AvatarSaved'
  BY <1>0, <1>1 DEF AvatarSaved
<1>6. AvatarCleaning'
  BY <1>0, <1>1, <1>2 DEF AvatarCleaning, AvatarOwn
<1>7. Avatar!NamedFilesExist'
  BY <1>0, <1>1, AvatarFilesOfKey DEF Avatar!NamedFilesExist, AvatarSaved
<1> QED
  BY <1>3, <1>4, <1>5, <1>6, <1>7

\* A file is removed that no upload has saved for the row to name, and that the
\* row does not name or has lost already.
LEMMA AvatarRemoveStep ==
  ASSUME AvatarIInv, NEW h \in Handlers, NEW size \in {"main", "thumb"},
         NEW from \in {"oldMain", "oldThumb", "dropMain", "dropThumb"},
         NEW to \in {"oldThumb", "dropThumb", "idle", "clear"},
         to = "oldThumb" => from = "oldMain", to = "dropThumb" => from = "dropMain",
         Avatar!Go(h, from, to), Avatar!Remove(previous[h], size),
         UNCHANGED <<storageKey, drawn, new, previous, doomed>>
  PROVE  AvatarIInv'
<1> USE DEF AvatarIInv
<1>1. /\ task[h] = from /\ task'[h] = to /\ task' = [task EXCEPT ![h] = to]
      /\ \A g \in Handlers \ {h} : task'[g] = task[g]
  BY AvatarGoEffect
<1>2. ~AvatarUploading(h)' /\ \A g \in Handlers : AvatarUploading(g)' => AvatarUploading(g)
  BY <1>1 DEF AvatarUploading
<1>3. /\ files' \subseteq files /\ files \ files' \subseteq {<<previous[h], size>>}
      /\ disturbed' \in BOOLEAN
  BY DEF Avatar!Remove, Avatar!TypeOK
<1>4. Avatar!TypeOK'
  BY <1>1, <1>3 DEF Avatar!TypeOK
<1>5. AvatarOwn'
  BY <1>2 DEF AvatarOwn
<1>6. AvatarSaved'
  <2>1. \A g \in Handlers : AvatarUploading(g) => <<new[g], "main">> # <<previous[h], size>>
                                            /\ <<new[g], "thumb">> # <<previous[h], size>>
    BY DEF AvatarOwn
  <2> QED
    BY <1>1, <1>3, <2>1 DEF AvatarSaved, AvatarUploading
<1>7. AvatarCleaning'
  BY <1>1 DEF AvatarCleaning
<1>8. Avatar!NamedFilesExist'
  <2>1. previous[h] # storageKey \/ storageKey \in doomed
    BY <1>1 DEF AvatarCleaning
  <2> QED
    BY <1>3, <2>1, AvatarFilesOfKey DEF Avatar!NamedFilesExist
<1> QED
  BY <1>4, <1>5, <1>6, <1>7, <1>8

\* A deletion dooms what the row names.
LEMMA AvatarDeleteStep ==
  ASSUME AvatarIInv, NEW h \in Handlers, Avatar!Delete(h)
  PROVE  AvatarIInv'
<1> USE DEF AvatarIInv
<1>0. /\ Avatar!Go(h, "idle", IF storageKey = 0 THEN "clear" ELSE "dropMain")
      /\ previous' = [previous EXCEPT ![h] = storageKey]
      /\ doomed' = doomed \cup {storageKey}
      /\ disturbed' \in BOOLEAN
      /\ UNCHANGED <<files, storageKey, drawn, new>>
  BY DEF Avatar!Delete, Avatar!Start
<1>1. /\ task'[h] \in {"clear", "dropMain"} /\ task' = [task EXCEPT ![h] = task'[h]]
      /\ \A g \in Handlers \ {h} : task'[g] = task[g]
  BY <1>0, AvatarGoEffect
<1>2. /\ previous'[h] = storageKey
      /\ \A g \in Handlers \ {h} : previous'[g] = previous[g]
      /\ \A g \in Handlers : AvatarUploading(g)' => AvatarUploading(g)
  BY <1>0, <1>1 DEF Avatar!TypeOK, AvatarUploading
<1>3. Avatar!TypeOK'
  BY <1>0, <1>1 DEF Avatar!TypeOK
<1>4. AvatarOwn'
  BY <1>0, <1>2 DEF AvatarOwn
<1>5. AvatarSaved' /\ Avatar!NamedFilesExist'
  BY <1>0, <1>1 DEF AvatarSaved, Avatar!NamedFilesExist
<1>6. AvatarCleaning'
  BY <1>0, <1>1, <1>2 DEF AvatarCleaning
<1> QED
  BY <1>3, <1>4, <1>5, <1>6

\* The row is cleared, or a call ends where it is.
LEMMA AvatarEndStep ==
  ASSUME AvatarIInv, NEW h \in Handlers, Avatar!ClearRow(h) \/ Avatar!Fail(h)
  PROVE  AvatarIInv'
<1> USE DEF AvatarIInv
<1>0. /\ task' = [task EXCEPT ![h] = "idle"]
      /\ storageKey' \in {0, storageKey} /\ disturbed' \in BOOLEAN
      /\ UNCHANGED <<files, drawn, new, previous, doomed>>
  BY DEF Avatar!ClearRow, Avatar!Fail, Avatar!Go, Avatar!TypeOK
<1>1. task'[h] = "idle" /\ \A g \in Handlers \ {h} : task'[g] = task[g]
  BY <1>0 DEF Avatar!TypeOK
<1>2. ~AvatarUploading(h)' /\ \A g \in Handlers : AvatarUploading(g)' => AvatarUploading(g)
  BY <1>1 DEF AvatarUploading
<1>3. Avatar!TypeOK'
  BY <1>0 DEF Avatar!TypeOK
<1>4. AvatarOwn'
  BY <1>0, <1>2 DEF Avatar!TypeOK, AvatarOwn
<1>5. AvatarSaved' /\ Avatar!NamedFilesExist'
  BY <1>0, <1>1, AvatarFilesOfKey DEF AvatarSaved, Avatar!NamedFilesExist
<1>6. AvatarCleaning'
  <2>1. CASE storageKey' = storageKey
    BY <1>0, <1>1, <2>1 DEF AvatarCleaning
  <2>2. CASE storageKey' = 0
    BY <1>0, <1>1, <2>2 DEF AvatarCleaning
  <2> QED
    BY <1>0, <2>1, <2>2
<1> QED
  BY <1>3, <1>4, <1>5, <1>6

\* Every step keeps the inductive invariant.
LEMMA AvatarStepIInv == MaxKeys \in Nat /\ AvatarIInv /\ [Avatar!Next]_(Avatar!vars) => AvatarIInv'
<1> SUFFICES ASSUME MaxKeys \in Nat, AvatarIInv, [Avatar!Next]_(Avatar!vars) PROVE AvatarIInv'
  OBVIOUS
<1>1. CASE Avatar!Next
  <2>1. PICK h \in Handlers : Avatar!Upload(h) \/ Avatar!Delete(h) \/ Avatar!Step(h) \/ Avatar!Fail(h)
    BY <1>1 DEF Avatar!Next
  <2>2. CASE Avatar!DeleteOldMain(h) \/ Avatar!DeleteOldThumbnail(h) \/ Avatar!DropMain(h) \/ Avatar!DropThumbnail(h)
    BY <2>2, AvatarRemoveStep DEF Avatar!DeleteOldMain, Avatar!DeleteOldThumbnail, Avatar!DropMain, Avatar!DropThumbnail
  <2> QED
    BY <2>1, <2>2, AvatarUploadStep, AvatarSaveStep, AvatarReadStep, AvatarUpdateStep, AvatarDeleteStep, AvatarEndStep DEF Avatar!Step
<1>2. CASE UNCHANGED Avatar!vars
  BY <1>2 DEF Avatar!vars, AvatarIInv, Avatar!TypeOK, AvatarOwn, AvatarUploading, AvatarSaved, AvatarCleaning, Avatar!NamedFilesExist
<1> QED
  BY <1>1, <1>2

-----------------------------------------------------------------------------
\* Of the calls of an undisturbed history one is under way, which left the others'
\* files alone: what is stored is what the row names, and what the call has added or
\* not yet removed.
AvatarAlone ==
    ~disturbed => \A g, h \in Handlers : g # h => task[g] = "idle" \/ task[h] = "idle"

AvatarUpheld(h) ==
    LET named == Avatar!Files(storageKey)
        readRow == previous[h] = storageKey
    IN  /\ task[h] \in {"idle", "main"} => files = named
        /\ task[h] = "thumb" => files = named \cup {<<new[h], "main">>}
        /\ task[h] \in {"read", "update"} => files = named \cup Avatar!Files(new[h])
        /\ task[h] = "update" => readRow
        /\ task[h] = "oldMain" => files = named \cup Avatar!Files(previous[h])
        /\ task[h] = "oldThumb" => files = named \cup {<<previous[h], "thumb">>}
        /\ task[h] = "dropMain" => readRow /\ storageKey # 0 /\ files = named
        /\ task[h] = "dropThumb" =>
            readRow /\ storageKey # 0 /\ files = {<<storageKey, "thumb">>}
        /\ task[h] = "clear" => files = {}

AvatarLeft ==
    /\ Avatar!NothingLeftBehind
    /\ ~disturbed => \A h \in Handlers :
            (\A g \in Handlers \ {h} : task[g] = "idle") => AvatarUpheld(h)

LEMMA AvatarTidyInit == Avatar!Init => AvatarAlone /\ AvatarLeft
  BY AvatarFilesOfKey
     DEF Avatar!Init, AvatarAlone, AvatarLeft, AvatarUpheld, Avatar!NothingLeftBehind

\* It is enough to look at the call that takes the step, in a history that stays
\* undisturbed.
LEMMA AvatarTidyByOne ==
  ASSUME AvatarIInv, AvatarAlone, AvatarLeft, NEW h \in Handlers,
         \A g \in Handlers \ {h} : task'[g] = task[g],
         ~disturbed' => ~disturbed,
         ~disturbed' /\ task[h] = "idle" => \A g \in Handlers : task[g] = "idle",
         ~disturbed' /\ AvatarUpheld(h) => AvatarUpheld(h)'
  PROVE  AvatarAlone' /\ AvatarLeft'
<1> SUFFICES ASSUME ~disturbed' PROVE AvatarAlone' /\ AvatarLeft'
  BY DEF AvatarAlone, AvatarLeft, Avatar!NothingLeftBehind
<1>1. \A g \in Handlers \ {h} : task[g] = "idle" /\ task'[g] = "idle"
  BY DEF AvatarAlone
<1>2. AvatarUpheld(h)'
  BY <1>1 DEF AvatarLeft
<1>3. ASSUME NEW g \in Handlers \ {h}, \A f \in Handlers \ {g} : task'[f] = "idle"
      PROVE  AvatarUpheld(g)'
  BY <1>1, <1>2, <1>3 DEF AvatarUpheld
<1>4. (\A g \in Handlers : task'[g] = "idle") => files' = Avatar!Files(storageKey')
  BY <1>2 DEF AvatarUpheld
<1> QED
  BY <1>1, <1>2, <1>3, <1>4 DEF AvatarAlone, AvatarLeft, Avatar!NothingLeftBehind

LEMMA AvatarTidyStep ==
  ASSUME AvatarIInv, AvatarAlone, AvatarLeft, [Avatar!Next]_(Avatar!vars)
  PROVE  AvatarAlone' /\ AvatarLeft'
<1> USE DEF AvatarIInv
<1>1. CASE UNCHANGED Avatar!vars
  BY <1>1 DEF Avatar!vars, AvatarAlone, AvatarLeft, AvatarUpheld, Avatar!NothingLeftBehind
<1>2. ASSUME NEW h \in Handlers, Avatar!Upload(h) \/ Avatar!Delete(h) \/ Avatar!Step(h) \/ Avatar!Fail(h)
      PROVE  AvatarAlone' /\ AvatarLeft'
  <2> USE AvatarFilesOfKey
  <2>0. DOMAIN task = Handlers
    BY DEF Avatar!TypeOK
  <2>1. CASE Avatar!Fail(h)
    BY <2>1 DEF Avatar!Fail, AvatarAlone, AvatarLeft, Avatar!NothingLeftBehind
  <2>2. CASE Avatar!Upload(h) \/ Avatar!Delete(h)
    <3>1. /\ \A g \in Handlers \ {h} : task'[g] = task[g]
          /\ task[h] = "idle"
          /\ ~disturbed' => ~disturbed /\ \A g \in Handlers : task[g] = "idle"
      BY <2>0, <2>2 DEF Avatar!Upload, Avatar!Delete, Avatar!Start, Avatar!Go
    <3>2. CASE Avatar!Upload(h)
      <4>1. task'[h] = "main" /\ UNCHANGED <<files, storageKey>>
        BY <2>0, <3>2 DEF Avatar!Upload, Avatar!Start, Avatar!Go
      <4>2. AvatarUpheld(h) => AvatarUpheld(h)'
        BY <3>1, <4>1 DEF AvatarUpheld
      <4> QED
        BY <3>1, <4>2, AvatarTidyByOne
    <3>3. CASE Avatar!Delete(h)
      <4>1. /\ task'[h] = IF storageKey = 0 THEN "clear" ELSE "dropMain"
            /\ previous'[h] = storageKey
            /\ UNCHANGED <<files, storageKey>>
        BY <2>0, <3>3 DEF Avatar!Delete, Avatar!Start, Avatar!Go, Avatar!TypeOK
      <4>2. AvatarUpheld(h) => AvatarUpheld(h)'
        BY <3>1, <4>1 DEF AvatarUpheld
      <4> QED
        BY <3>1, <4>2, AvatarTidyByOne
    <3> QED
      BY <2>2, <3>2, <3>3
  <2>3. ASSUME Avatar!Step(h) PROVE AvatarAlone' /\ AvatarLeft'
    <3>1. /\ \A g \in Handlers \ {h} : task'[g] = task[g]
          /\ task[h] # "idle"
          /\ ~disturbed' => ~disturbed
      BY <2>0, <2>3 DEF Avatar!Step, Avatar!SaveMain, Avatar!SaveThumbnail, Avatar!ReadPrevious,
         Avatar!UpdateRow, Avatar!DeleteOldMain, Avatar!DeleteOldThumbnail, Avatar!DropMain,
         Avatar!DropThumbnail, Avatar!ClearRow, Avatar!Remove, Avatar!Go
    <3> SUFFICES ASSUME ~disturbed', AvatarUpheld(h) PROVE AvatarUpheld(h)'
      BY <3>1, AvatarTidyByOne
    <3>2. CASE Avatar!SaveMain(h) \/ Avatar!SaveThumbnail(h)
      BY <2>0, <3>2 DEF Avatar!SaveMain, Avatar!SaveThumbnail, Avatar!Go, AvatarUpheld, AvatarOwn,
         AvatarUploading
    <3>3. CASE Avatar!ReadPrevious(h)
      BY <2>0, <3>3 DEF Avatar!ReadPrevious, Avatar!Go, Avatar!TypeOK, AvatarUpheld
    <3>4. CASE Avatar!UpdateRow(h)
      BY <2>0, <3>4 DEF Avatar!UpdateRow, Avatar!Go, AvatarUpheld
    <3>5. CASE Avatar!DeleteOldMain(h) \/ Avatar!DropMain(h)
      <4>1. /\ task[h] \in {"oldMain", "dropMain"}
            /\ task'[h] = IF task[h] = "oldMain" THEN "oldThumb" ELSE "dropThumb"
            /\ files' = files \ {<<previous[h], "main">>}
            /\ UNCHANGED <<storageKey, previous>>
        BY <2>0, <3>5 DEF Avatar!DeleteOldMain, Avatar!DropMain, Avatar!Go, Avatar!Remove
      <4> QED
        BY <4>1 DEF AvatarUpheld, AvatarCleaning
    <3>6. CASE Avatar!DeleteOldThumbnail(h) \/ Avatar!DropThumbnail(h)
      <4>1. /\ task[h] \in {"oldThumb", "dropThumb"}
            /\ task'[h] = IF task[h] = "oldThumb" THEN "idle" ELSE "clear"
            /\ files' = files \ {<<previous[h], "thumb">>}
            /\ UNCHANGED <<storageKey, previous>>
        BY <2>0, <3>6 DEF Avatar!DeleteOldThumbnail, Avatar!DropThumbnail, Avatar!Go, Avatar!Remove
      <4> QED
        BY <4>1 DEF AvatarUpheld, AvatarCleaning
    <3>7. CASE Avatar!ClearRow(h)
      BY <2>0, <3>7 DEF Avatar!ClearRow, Avatar!Go, AvatarUpheld
    <3> QED
      BY <2>3, <3>2, <3>3, <3>4, <3>5, <3>6, <3>7 DEF Avatar!Step
  <2> QED
    BY <1>2, <2>1, <2>2, <2>3
<1> QED
  BY <1>1, <1>2 DEF Avatar!Next

-----------------------------------------------------------------------------
(* The windows of the rate limits *)

\* What a set of numbers that is not empty has.
LEMMA Smallest ==
  ASSUME NEW S, S \subseteq Nat, S # {}
  PROVE  \E n \in S : \A m \in S : n <= m
<1> DEFINE R == OpToRel(<, Nat)
<1>1. IsWellFoundedOn(R, Nat)
  BY NatLessThanWellFounded
<1>2. \A x, y \in Nat : x < y => <<x, y>> \in R
  BY DEF OpToRel
<1> HIDE DEF R
<1>3. PICK n \in S : \A m \in S : ~ (<<m, n>> \in R)
  BY <1>1, WFMin
<1>4. ASSUME NEW m \in S PROVE n <= m
  <2>1. ~ (m < n)
    BY <1>2, <1>3
  <2> QED
    BY <2>1
<1> QED
  BY <1>4

\* The operator is the library's.
LEMMA SameCardinality == \A S : Rate!Cardinality(S) = Cardinality(S)
  BY DEF Rate!Cardinality, Cardinality

Entries == Nat \X Nat
Window(w) == w \subseteq Entries /\ IsFiniteSet(w)

RateTyped ==
    /\ clock \in Nat /\ requests \in Nat /\ until \in Nat
    /\ Window(hour) /\ Window(day) /\ Window(accepted)
    /\ Rate!TypeOK

\* A call let through is still counted where it can count.
RateKept ==
    \A e \in accepted :
        /\ Rate!Score(e) > clock - HourWindow => e \in hour
        /\ Rate!Score(e) > clock - DayWindow => e \in day

\* Calls enough to refuse another one, none of which leaves its window before the
\* last second until until.
Full(w, window, limit) == Cardinality({e \in w : Rate!Score(e) + window + Second > until}) > limit

RateTold == clock + Second <= until => Full(hour, HourWindow, HourLimit) \/ Full(day, DayWindow, DayLimit)

RateIInv == RateTyped /\ RateKept /\ Rate!LimitHolds /\ RateTold

LEMMA LimitTypes ==
  /\ Second \in Nat /\ Second > 0
  /\ HourWindow \in Nat /\ HourWindow > 0 /\ HourLimit \in Nat /\ HourLimit > 0
  /\ DayWindow \in Nat /\ DayWindow > 0 /\ DayLimit \in Nat /\ DayLimit > 0
  /\ MaxClock \in Nat /\ MaxRequests \in Nat
  BY AccountsAssumption DEF Rate!RateLimitAssumption

LEMMA RateInit == Rate!Init => RateIInv
<1> SUFFICES ASSUME Rate!Init PROVE RateIInv
  OBVIOUS
<1> USE LimitTypes, FS_EmptySet, SameCardinality DEF Rate!Init
<1>1. RateTyped
  BY DEF RateTyped, Window, Entries, Rate!TypeOK
<1>2. RateKept /\ RateTold
  BY DEF RateKept, RateTold
<1>3. Rate!LimitHolds
  <2>1. \A end : /\ {e \in accepted : Rate!Score(e) \in end - HourWindow + 1 .. end} = {}
                 /\ {e \in accepted : Rate!Score(e) \in end - DayWindow + 1 .. end} = {}
    OBVIOUS
  <2> QED
    BY <2>1 DEF Rate!LimitHolds
<1> QED
  BY <1>1, <1>2, <1>3 DEF RateIInv

\* Rounding up to seconds adds less than one.
LEMMA RoundedUp ==
  ASSUME NEW ms \in Nat, ms > 0
  PROVE  /\ Rate!InSeconds(ms) \in Nat /\ Rate!InSeconds(ms) * Second \in Nat
         /\ ms <= Rate!InSeconds(ms) * Second
         /\ Rate!InSeconds(ms) * Second < ms + Second
<1> DEFINE ceil == (ms + Second - 1) \div Second
<1> USE LimitTypes
<1>1. ceil \in Int /\ ceil * Second <= ms + Second - 1 /\ ms + Second - 1 < ceil * Second + Second
  OBVIOUS
<1> HIDE DEF ceil
<1>2. ceil >= 1
  <2>1. ceil * Second > 0
    BY <1>1
  <2> QED
    BY <1>1, <2>1
<1>3. ceil \in Nat /\ ceil * Second \in Nat
  BY <1>1, <1>2
<1>4. Rate!InSeconds(ms) = ceil
  BY <1>1, <1>2 DEF Rate!InSeconds, ceil
<1> QED
  BY <1>1, <1>3, <1>4

\* What is counted of a window at a call, and what is told when the window is full.
LEMMA CountedWindow ==
  ASSUME RateTyped, NEW w, Window(w), NEW window \in Nat, window > 0
  PROVE  LET counted == Rate!Counted(w, window) IN
         /\ Window(counted) /\ Rate!Entry \in counted
         /\ w \subseteq (0 .. clock) \X (1 .. requests) =>
              counted \subseteq (0 .. clock) \X (1 .. requests + 1)
         /\ \A e \in counted : Rate!Score(e) > clock - window
         /\ \A e \in w : Rate!Score(e) > clock - window => e \in counted
         /\ w \subseteq (0 .. clock) \X (1 .. requests) =>
              Rate!RetryAfter(counted, window) * Second \in Nat
         /\ \A e \in counted :
              clock + Rate!RetryAfter(counted, window) * Second < Rate!Score(e) + window + Second
<1> DEFINE kept == {e \in w : Rate!Score(e) > clock - window}
           counted == Rate!Counted(w, window)
<1>1. counted = kept \cup {Rate!Entry}
  BY DEF Rate!Counted
<1>2. Rate!Entry \in Entries /\ Rate!Score(Rate!Entry) = clock
      /\ Rate!Entry \in (0 .. clock) \X (1 .. requests + 1)
  BY DEF Rate!Entry, Rate!Score, Entries, RateTyped
<1>3. Window(counted)
  <2>1. IsFiniteSet(kept)
    BY FS_Subset DEF Window
  <2> QED
    BY <1>1, <1>2, <2>1, FS_AddElement DEF Window
<1>4. \A e \in Entries : Rate!Score(e) \in Nat
  BY DEF Entries, Rate!Score
<1>5. \A e \in counted : Rate!Score(e) > clock - window
  BY <1>1, <1>2 DEF RateTyped
<1>6. PICK oldest \in counted : \A other \in counted : Rate!Score(oldest) <= Rate!Score(other)
  <2> DEFINE S == {Rate!Score(e) : e \in counted}
  <2>1. S \subseteq Nat /\ S # {}
    BY <1>1, <1>3, <1>4 DEF Window
  <2>2. PICK n \in S : \A m \in S : n <= m
    BY <2>1, Smallest
  <2> QED
    BY <2>2
<1>7. PICK e \in counted : /\ \A other \in counted : Rate!Score(e) <= Rate!Score(other)
                           /\ Rate!RetryAfter(counted, window) = Rate!InSeconds(Rate!Score(e) + window - clock)
  BY <1>6 DEF Rate!RetryAfter
<1> DEFINE left == Rate!Score(e) + window - clock
<1>8. left \in Nat /\ left > 0
  BY <1>3, <1>4, <1>5, <1>7 DEF Window, RateTyped
<1> HIDE DEF left
<1>9. /\ Rate!RetryAfter(counted, window) * Second \in Nat
      /\ \A o \in counted :
           clock + Rate!RetryAfter(counted, window) * Second < Rate!Score(o) + window + Second
  <2>1. Rate!RetryAfter(counted, window) = Rate!InSeconds(left)
    BY <1>7 DEF left
  <2> DEFINE told == Rate!RetryAfter(counted, window) * Second
  <2>2. told \in Nat /\ told < left + Second
    BY <1>8, <2>1, RoundedUp
  <2> HIDE DEF told
  <2>3. ASSUME NEW o \in counted PROVE clock + told < Rate!Score(o) + window + Second
    <3>1. /\ Rate!Score(o) \in Nat /\ Rate!Score(e) \in Nat /\ clock \in Nat
          /\ Rate!Score(e) <= Rate!Score(o)
      BY <1>3, <1>4, <1>7 DEF Window, RateTyped
    <3> QED
      BY <3>1, <2>2, LimitTypes DEF left
  <2> QED
    BY <2>2, <2>3 DEF told
<1>10. w \subseteq (0 .. clock) \X (1 .. requests) =>
         counted \subseteq (0 .. clock) \X (1 .. requests + 1)
  BY <1>1, <1>2 DEF RateTyped
<1> HIDE DEF kept
<1> QED
  BY <1>1, <1>3, <1>5, <1>9, <1>10 DEF kept

LEMMA Larger ==
  ASSUME NEW S, NEW T, IsFiniteSet(T), S \subseteq T
  PROVE  IsFiniteSet(S) /\ Cardinality(S) \in Nat /\ Cardinality(T) \in Nat
         /\ Cardinality(S) <= Cardinality(T)
  BY FS_Subset, FS_CardinalityType

LEMMA RateTickStep == ASSUME RateIInv, Rate!Tick PROVE RateIInv'
<1> USE LimitTypes DEF RateIInv, Rate!Tick
<1>1. clock \in Nat /\ clock' = clock + 1 /\ UNCHANGED <<requests, hour, day, accepted, until>>
      /\ clock < MaxClock
  BY DEF RateTyped
<1>2. /\ Window(accepted) /\ accepted \subseteq (0 .. clock) \X (1 .. requests)
      /\ \A e \in accepted : Rate!Score(e) \in 0 .. clock
  BY DEF RateTyped, Rate!TypeOK, Rate!Score
<1>3. RateTyped'
  <2>1. Window(hour)' /\ Window(day)' /\ Window(accepted)'
    BY <1>1 DEF RateTyped, Window
  <2> QED
    BY <1>1, <2>1 DEF RateTyped, Rate!TypeOK
<1>4. RateKept'
  BY <1>1, <1>2 DEF RateKept
<1>5. RateTold'
  <2>1. until \in Nat
    BY DEF RateTyped
  <2> QED
    BY <1>1, <2>1 DEF RateTold, Full, Rate!Score
<1>6. Rate!LimitHolds'
  <2>1. ASSUME NEW window \in Nat, window > 0, NEW limit \in Nat,
               \A end \in 0 .. clock :
                 Cardinality({e \in accepted : Rate!Score(e) \in end - window + 1 .. end}) <= limit,
               NEW end \in 0 .. clock + 1
        PROVE  Cardinality({e \in accepted : Rate!Score(e) \in end - window + 1 .. end}) <= limit
    <3>1. CASE end \in 0 .. clock
      BY <2>1, <3>1
    <3>2. CASE end = clock + 1
      <4> DEFINE now == {e \in accepted : Rate!Score(e) \in clock - window + 1 .. clock}
                 later == {e \in accepted : Rate!Score(e) \in end - window + 1 .. end}
      <4>1. later \subseteq now /\ now \subseteq accepted
        BY <1>1, <1>2, <2>1, <3>2
      <4>2. Cardinality(now) <= limit
        BY <1>1, <2>1
      <4> HIDE DEF now, later
      <4>3. IsFiniteSet(now)
        BY <1>2, <4>1, Larger DEF Window
      <4>4. Cardinality(later) <= limit
        BY <2>1, <4>1, <4>2, <4>3, Larger
      <4> QED
        BY <4>4 DEF later
    <3> QED
      BY <1>1, <2>1, <3>1, <3>2
  <2>2. /\ \A end \in 0 .. clock + 1 :
            Cardinality({e \in accepted : Rate!Score(e) \in end - HourWindow + 1 .. end}) <= HourLimit
        /\ \A end \in 0 .. clock + 1 :
            Cardinality({e \in accepted : Rate!Score(e) \in end - DayWindow + 1 .. end}) <= DayLimit
    BY <2>1, SameCardinality DEF Rate!LimitHolds
  <2> QED
    BY <1>1, <2>2, SameCardinality DEF Rate!LimitHolds, Rate!Score
<1> QED
  BY <1>3, <1>4, <1>5, <1>6

\* A window that refuses stays full for as long as it said.
LEMMA FullStays ==
  ASSUME RateTyped, NEW w, Window(w), NEW window \in Nat, window > 0, NEW limit \in Nat,
         clock + Second <= until, Full(w, window, limit)
  PROVE  /\ Full(Rate!Counted(w, window), window, limit)
         /\ ~ Rate!Allowed(Rate!Counted(w, window), limit)
<1> DEFINE counted == Rate!Counted(w, window)
           before == {e \in w : Rate!Score(e) + window + Second > until}
           after == {e \in counted : Rate!Score(e) + window + Second > until}
<1>1. Window(counted) /\ \A e \in w : Rate!Score(e) > clock - window => e \in counted
  BY CountedWindow
<1>2. \A e \in w : Rate!Score(e) \in Nat
  BY DEF Window, Entries, Rate!Score
<1>3. before \subseteq after /\ after \subseteq counted
  BY <1>1, <1>2, LimitTypes DEF RateTyped
<1>4. Cardinality(before) > limit
  BY DEF Full
<1> HIDE DEF counted, before, after
<1>5. Cardinality(after) > limit /\ Cardinality(counted) > limit
  BY <1>1, <1>3, <1>4, Larger DEF Window
<1> QED
  BY <1>1, <1>5, SameCardinality, FS_CardinalityType DEF Full, Rate!Allowed, counted, after, Window

LEMMA RateCallStep == ASSUME RateIInv, Rate!Call PROVE RateIInv'
<1> USE LimitTypes DEF RateIInv
<1> DEFINE inHour == Rate!Counted(hour, HourWindow)
           inDay == Rate!Counted(day, DayWindow)
<1>1. /\ clock \in Nat /\ requests \in Nat /\ until \in Nat
      /\ Window(hour) /\ Window(day) /\ Window(accepted)
      /\ {hour, day, accepted} \subseteq SUBSET ((0 .. clock) \X (1 .. requests))
      /\ clock <= MaxClock
  BY DEF RateTyped, Rate!TypeOK
<1>2. /\ Window(inHour) /\ Rate!Entry \in inHour
      /\ inHour \subseteq (0 .. clock) \X (1 .. requests + 1)
      /\ \A e \in hour : Rate!Score(e) > clock - HourWindow => e \in inHour
      /\ Rate!RetryAfter(inHour, HourWindow) * Second \in Nat
      /\ \A e \in inHour :
            clock + Rate!RetryAfter(inHour, HourWindow) * Second < Rate!Score(e) + HourWindow + Second
  BY <1>1, CountedWindow
<1>3. /\ Window(inDay) /\ Rate!Entry \in inDay
      /\ inDay \subseteq (0 .. clock) \X (1 .. requests + 1)
      /\ \A e \in day : Rate!Score(e) > clock - DayWindow => e \in inDay
      /\ Rate!RetryAfter(inDay, DayWindow) * Second \in Nat
      /\ \A e \in inDay :
            clock + Rate!RetryAfter(inDay, DayWindow) * Second < Rate!Score(e) + DayWindow + Second
  BY <1>1, CountedWindow
<1>4. /\ Rate!Entry \in Entries /\ Rate!Score(Rate!Entry) = clock
      /\ Rate!Entry \in (0 .. clock) \X (1 .. requests + 1)
  BY <1>1 DEF Rate!Entry, Rate!Score, Entries
<1>5. /\ requests < MaxRequests /\ requests' = requests + 1 /\ clock' = clock /\ hour' = inHour
      /\ \/ /\ ~ Rate!Allowed(inHour, HourLimit)
            /\ until' = IF clock + Rate!RetryAfter(inHour, HourWindow) * Second > until
                        THEN clock + Rate!RetryAfter(inHour, HourWindow) * Second ELSE until
            /\ day' = day /\ accepted' = accepted
         \/ /\ ~ Rate!Allowed(inDay, DayLimit)
            /\ until' = IF clock + Rate!RetryAfter(inDay, DayWindow) * Second > until
                        THEN clock + Rate!RetryAfter(inDay, DayWindow) * Second ELSE until
            /\ day' = inDay /\ accepted' = accepted
         \/ /\ Rate!Allowed(inHour, HourLimit) /\ Rate!Allowed(inDay, DayLimit)
            /\ until' = until
            /\ day' = inDay /\ accepted' = accepted \cup {Rate!Entry}
  BY DEF Rate!Call, Rate!Refuse
<1> DEFINE entry == Rate!Entry
           hourly == Rate!RetryAfter(inHour, HourWindow) * Second
           daily == Rate!RetryAfter(inDay, DayWindow) * Second
<1> HIDE DEF inHour, inDay, entry, hourly, daily
<1>6. /\ day' \in {day, inDay} /\ accepted' \in {accepted, accepted \cup {Rate!Entry}}
      /\ accepted' # accepted => day' = inDay
  BY <1>5
<1>7. RateTyped'
  <2>1. Window(accepted \cup {Rate!Entry})
    BY <1>1, <1>4, FS_AddElement DEF Window
  <2>2. Window(hour') /\ Window(day') /\ Window(accepted')
    BY <1>1, <1>2, <1>3, <1>5, <1>6, <2>1
  <2>3. until' \in Nat
    BY <1>1, <1>2, <1>3, <1>5
  <2>4. {hour', day', accepted'} \subseteq SUBSET ((0 .. clock) \X (1 .. requests + 1))
    <3>1. (0 .. clock) \X (1 .. requests) \subseteq (0 .. clock) \X (1 .. requests + 1)
      BY <1>1
    <3> QED
      BY <1>1, <1>2, <1>3, <1>4, <1>5, <1>6, <3>1
  <2>5. clock' \in 0 .. MaxClock /\ requests' \in 0 .. MaxRequests /\ requests' = requests + 1
        /\ clock' = clock /\ clock' \in Nat /\ requests' \in Nat
    BY <1>1, <1>5
  <2>6. Rate!TypeOK'
    BY <2>3, <2>4, <2>5 DEF Rate!TypeOK
  <2> QED
    BY <2>2, <2>3, <2>5, <2>6 DEF RateTyped, Window
<1>8. RateKept'
  <2>1. ASSUME NEW e \in accepted
        PROVE  /\ Rate!Score(e) > clock - HourWindow => e \in inHour
               /\ Rate!Score(e) > clock - DayWindow => e \in day /\ e \in inDay
    BY <1>2, <1>3 DEF RateKept
  <2> QED
    BY <1>2, <1>3, <1>5, <1>6, <2>1 DEF RateKept, Rate!Score
<1>9. Rate!LimitHolds'
  <2>1. CASE accepted' = accepted
    BY <1>5, <2>1 DEF Rate!LimitHolds, Rate!Score
  <2>2. CASE accepted' # accepted
    <3>1. /\ accepted' = accepted \cup {Rate!Entry} /\ clock' = clock
          /\ Rate!Allowed(inHour, HourLimit) /\ Rate!Allowed(inDay, DayLimit)
      BY <1>5, <2>2
    <3>2. ASSUME NEW window \in Nat, window > 0, NEW limit \in Nat, NEW counted,
                 Window(counted), Rate!Allowed(counted, limit), Rate!Entry \in counted,
                 \A e \in accepted : Rate!Score(e) > clock - window => e \in counted,
                 \A end \in 0 .. clock :
                   Cardinality({e \in accepted : Rate!Score(e) \in end - window + 1 .. end}) <= limit,
                 NEW end \in 0 .. clock
          PROVE  Cardinality({e \in accepted' : Rate!Score(e) \in end - window + 1 .. end}) <= limit
      <4> DEFINE old == {e \in accepted : Rate!Score(e) \in end - window + 1 .. end}
                 with == {e \in accepted' : Rate!Score(e) \in end - window + 1 .. end}
      <4>1. CASE end # clock
        <5>1. with = old
          BY <1>1, <1>4, <3>1, <4>1
        <5> QED
          BY <3>2, <5>1
      <4>2. CASE end = clock
        <5>1. \A e \in accepted : Rate!Score(e) \in Nat
          BY <1>1 DEF Window, Entries, Rate!Score
        <5>2. with \subseteq counted
          BY <1>1, <3>1, <3>2, <4>2, <5>1
        <5>3. Cardinality(counted) <= limit
          BY <3>2, SameCardinality DEF Rate!Allowed
        <5> HIDE DEF with
        <5>4. Cardinality(with) <= limit
          BY <3>2, <5>2, <5>3, Larger DEF Window
        <5> QED
          BY <5>4 DEF with
      <4> QED
        BY <4>1, <4>2
    <3>3. /\ \A end \in 0 .. clock :
              Cardinality({e \in accepted : Rate!Score(e) \in end - HourWindow + 1 .. end}) <= HourLimit
          /\ \A end \in 0 .. clock :
              Cardinality({e \in accepted : Rate!Score(e) \in end - DayWindow + 1 .. end}) <= DayLimit
      BY SameCardinality DEF Rate!LimitHolds
    <3>4. /\ \A e \in accepted : Rate!Score(e) > clock - HourWindow => e \in inHour
          /\ \A e \in accepted : Rate!Score(e) > clock - DayWindow => e \in inDay
      BY <1>2, <1>3 DEF RateKept
    <3>5. \A end \in 0 .. clock :
            Cardinality({e \in accepted' : Rate!Score(e) \in end - HourWindow + 1 .. end}) <= HourLimit
      BY <1>2, <3>1, <3>2, <3>3, <3>4
    <3>6. \A end \in 0 .. clock :
            Cardinality({e \in accepted' : Rate!Score(e) \in end - DayWindow + 1 .. end}) <= DayLimit
      BY <1>3, <3>1, <3>2, <3>3, <3>4
    <3> QED
      BY <3>1, <3>5, <3>6, SameCardinality DEF Rate!LimitHolds, Rate!Score
  <2> QED
    BY <2>1, <2>2
<1>10. RateTold'
  <2> SUFFICES ASSUME clock + Second <= until'
               PROVE  Full(hour, HourWindow, HourLimit)' \/ Full(day, DayWindow, DayLimit)'
    BY <1>5 DEF RateTold
  <2>1. CASE until' = until
    <3>1. CASE Full(hour, HourWindow, HourLimit)
      BY <1>1, <1>5, <2>1, <3>1, FullStays DEF Full, Rate!Score, inHour
    <3>2. CASE Full(day, DayWindow, DayLimit)
      <4>1. Full(inDay, DayWindow, DayLimit)
        BY <1>1, <2>1, <3>2, FullStays DEF inDay
      <4> QED
        BY <1>6, <2>1, <3>2, <4>1 DEF Full, Rate!Score
    <3> QED
      BY <2>1, <3>1, <3>2 DEF RateTold
  <2>2. ASSUME NEW w, NEW window \in Nat, NEW limit \in Nat, Window(w), ~ Rate!Allowed(w, limit),
               \A e \in w : until' < Rate!Score(e) + window + Second
        PROVE  Cardinality({e \in w : Rate!Score(e) + window + Second > until'}) > limit
    <3>1. {e \in w : Rate!Score(e) + window + Second > until'} = w
      <4>1. \A e \in w : Rate!Score(e) \in Nat
        BY <2>2 DEF Window, Entries, Rate!Score
      <4>2. until' \in Nat
        BY <1>7 DEF RateTyped
      <4> QED
        BY <2>2, <4>1, <4>2
    <3>2. Cardinality(w) \in Nat
      BY <2>2, FS_CardinalityType DEF Window
    <3> QED
      BY <2>2, <3>1, <3>2, SameCardinality DEF Rate!Allowed
  <2>3. CASE ~ Rate!Allowed(inHour, HourLimit) /\ until' = clock + Rate!RetryAfter(inHour, HourWindow) * Second
    BY <1>2, <1>5, <2>2, <2>3 DEF Full, Rate!Score
  <2>4. CASE /\ ~ Rate!Allowed(inDay, DayLimit) /\ day' = inDay
             /\ until' = clock + Rate!RetryAfter(inDay, DayWindow) * Second
    BY <1>3, <1>5, <2>2, <2>4 DEF Full, Rate!Score
  <2> QED
    BY <1>5, <2>1, <2>3, <2>4
<1> QED
  BY <1>7, <1>8, <1>9, <1>10

LEMMA RateKeeps == ASSUME RateIInv, [Rate!Next]_(Rate!vars) PROVE RateIInv'
<1>1. CASE UNCHANGED Rate!vars
  BY <1>1 DEF Rate!vars, RateIInv, RateTyped, Window, Rate!TypeOK, RateKept, Rate!LimitHolds,
     Rate!Score, RateTold, Full
<1> QED
  BY <1>1, RateTickStep, RateCallStep DEF Rate!Next

-----------------------------------------------------------------------------
(* The page of a request *)

PageKinds == {"submit", "withdraw", "select"}

PageCallOf == [n : Nat, kind : PageKinds, of : Providers, step : {"sent", "ok", "refused"},
           awaited : BOOLEAN, mounted : BOOLEAN]

PageTyped ==
    /\ status \in {"PUBLISHED", "OFFER_SELECTED"}
    /\ offer \in [Providers -> Page!Statuses]
    /\ elsewhere \in 0 .. MaxElsewhere
    /\ view \in [Pages -> {"loading", "error", "detail"}]
    /\ load \in [Pages -> {"none", "status", "mine", "answered"}]
    /\ detail \in [Pages -> [status : {"none", "PUBLISHED", "OFFER_SELECTED"}, mine : Page!Statuses]]
    /\ list \in [Pages -> {"none", "loading", "answered", "shown", "failed"}]
    /\ offers \in [Pages -> [Providers -> Page!Statuses]]
    /\ acts \in [Pages -> SUBSET PageCallOf]
    /\ made \in [Pages -> 0 .. MaxActs]
    /\ busy \in [Pages -> Providers \cup {Owner}]
    /\ stale \in [Pages -> BOOLEAN]

\* The calls of a page are its user's, and numbered.
PageOwnCalls(a) ==
    \A c \in acts[a] :
        /\ c.n \in 1 .. made[a]
        /\ IF a = Owner THEN c.kind = "select" ELSE c.kind # "select" /\ c.of = a

\* A provider's page awaits one answer at a time, with the panel that called.
PageSolo(a) ==
    a # Owner => \A c \in acts[a] : c.awaited =>
        /\ busy[a] = a /\ view[a] = "detail"
        /\ \A d \in acts[a] : d.awaited => d = c

\* One call of the owner's is the selection, and those that its reload leaves
\* behind come too late.
PageWon(a) ==
    a = Owner => \A c \in acts[a] :
        /\ c.step = "ok" => /\ status = "OFFER_SELECTED"
                            /\ \A d \in acts[a] : d.step = "ok" => d = c
        /\ c.awaited /\ view[a] # "detail" => status = "OFFER_SELECTED" /\ c.step # "ok"

\* What the page has read still is, unless it is excused or a call of its own was
\* done whose answer will load everything anew.
PageFresh(a) ==
    ~stale[a] /\ (\A c \in acts[a] : c.awaited => c.step # "ok") =>
        /\ load[a] \in {"mine", "answered"} \/ view[a] = "detail" => detail[a].status = status
        /\ a # Owner /\ (load[a] = "answered" \/ view[a] = "detail") => detail[a].mine = offer[a]
        /\ list[a] \in {"answered", "shown"} => offers[a] = offer

PageIsRight(a) ==
    /\ load[a] # "none" <=> view[a] = "loading"
    /\ PageOwnCalls(a)
    /\ PageSolo(a)
    /\ PageWon(a)
    /\ PageFresh(a)

PageIInv == PageTyped /\ \A a \in Pages : PageIsRight(a)

LEMMA PageInitIInv == ASSUME Page!RequestPageAssumption, Page!Init PROVE PageIInv
<1>1. PageTyped
  BY DEF Page!Init, PageTyped, Page!RequestPageAssumption, Page!NoOffers, Page!NoDetail,
     Page!Statuses
<1>2. \A a \in Pages : PageIsRight(a)
  BY DEF Page!Init, PageIsRight, PageOwnCalls, PageSolo, PageWon, PageFresh
<1> QED
  BY <1>1, <1>2 DEF PageIInv

\* The invariant says what the type invariant and the property say.
LEMMA PageIInvShows ==
  ASSUME Page!RequestPageAssumption, PageIInv
  PROVE  Page!TypeOK /\ Page!StaleOnlyByOthers
<1>1. Page!TypeOK
  <2>1. \A a \in Pages : load[a] # "none" => \A c \in acts[a] : c.awaited => c.step # "ok"
    BY DEF PageIInv, PageIsRight, PageSolo, PageWon
  <2>2. \A a \in Pages : \A c \in acts[a] : c.n \in 1 .. made[a] /\ c.step \in {"sent", "ok", "refused"}
    BY DEF PageIInv, PageIsRight, PageOwnCalls, PageTyped, PageCallOf
  <2>3. \A a \in Pages : detail[a].status \in {"none", "PUBLISHED", "OFFER_SELECTED"} /\ detail[a].mine \in Page!Statuses
    BY DEF PageIInv, PageTyped
  <2> QED
    BY <2>1, <2>2, <2>3 DEF PageIInv, PageTyped, Page!TypeOK, Page!Awaited
<1>2. Page!StaleOnlyByOthers
  <2> SUFFICES ASSUME NEW a \in Pages, Page!Settled(a), ~stale[a] PROVE Page!Current(a)
    BY DEF Page!StaleOnlyByOthers
  <2>1. \A c \in acts[a] : ~c.awaited
    BY DEF Page!Settled, Page!Awaited
  <2> QED
    BY <2>1 DEF PageIInv, PageIsRight, PageFresh, Page!Settled, Page!Current
<1> QED
  BY <1>1, <1>2

\* A page whose own state a step leaves alone.
LEMMA PageOtherPage ==
  ASSUME NEW b \in Pages, PageIsRight(b),
         view'[b] = view[b], load'[b] = load[b], detail'[b] = detail[b], list'[b] = list[b],
         offers'[b] = offers[b], acts'[b] = acts[b], made'[b] = made[b], busy'[b] = busy[b],
         \/ UNCHANGED <<status, offer>> /\ stale'[b] = stale[b]
         \/ stale'[b] = TRUE /\ (status = "OFFER_SELECTED" => status' = "OFFER_SELECTED")
  PROVE  PageIsRight(b)'
  BY DEF PageIsRight, PageOwnCalls, PageSolo, PageWon, PageFresh

\* What a call that the server accepts does.
LEMMA PageEffects ==
  ASSUME Page!RequestPageAssumption, PageTyped, NEW kind \in PageKinds, NEW p \in Providers,
         Page!Accepted(kind, p), Page!Effect(kind, p)
  PROVE  /\ offer' \in [Providers -> Page!Statuses]
         /\ status' \in {"PUBLISHED", "OFFER_SELECTED"}
         /\ status = "OFFER_SELECTED" => status' = "OFFER_SELECTED"
         /\ kind = "select" => status = "PUBLISHED" /\ status' = "OFFER_SELECTED"
<1>1. CASE kind = "submit"
  BY <1>1 DEF Page!Effect, PageTyped, Page!Statuses
<1>2. CASE kind = "withdraw"
  BY <1>2 DEF Page!Effect, PageTyped, Page!Statuses
<1>3. CASE kind = "select"
  BY <1>3 DEF Page!Effect, PageTyped, Page!Statuses, Page!Accepted, Page!CanSelect
<1> QED
  BY <1>1, <1>2, <1>3 DEF PageKinds

LEMMA PageElsewhereStep ==
  ASSUME Page!RequestPageAssumption, PageIInv, Page!Elsewhere
  PROVE  PageIInv'
<1> USE DEF PageIInv
<1>1. PICK p \in Providers \ Pages, kind \in {"submit", "withdraw"} :
        Page!Accepted(kind, p) /\ Page!Effect(kind, p)
  BY DEF Page!Elsewhere
<1>2. /\ elsewhere' \in 0 .. MaxElsewhere
      /\ stale' = [a \in Pages |-> TRUE]
      /\ UNCHANGED <<view, load, detail, list, offers, busy, acts, made>>
  BY DEF Page!Elsewhere, Page!page, PageTyped, Page!RequestPageAssumption
<1>3. /\ offer' \in [Providers -> Page!Statuses]
      /\ status' \in {"PUBLISHED", "OFFER_SELECTED"}
      /\ status = "OFFER_SELECTED" => status' = "OFFER_SELECTED"
  BY <1>1, PageEffects DEF PageKinds
<1>4. PageTyped'
  BY <1>2, <1>3 DEF PageTyped
<1>5. \A b \in Pages : PageIsRight(b)'
  BY <1>2, <1>3, PageOtherPage
<1> QED
  BY <1>4, <1>5

\* The server does a call of a page, or refuses it.
LEMMA PageApplyStep ==
  ASSUME Page!RequestPageAssumption, PageIInv, NEW a \in Pages, Page!Apply(a)
  PROVE  PageIInv'
<1> USE DEF PageIInv
<1>1. PICK c \in acts[a] :
        /\ c.step = "sent"
        /\ \/ /\ Page!Accepted(c.kind, c.of)
              /\ Page!Effect(c.kind, c.of)
              /\ acts' = [acts EXCEPT ![a] = (@ \ {c}) \cup {[c EXCEPT !.step = "ok"]}]
              /\ stale' = [b \in Pages |-> stale[b] \/ b # a \/ ~c.awaited]
           \/ /\ ~Page!Accepted(c.kind, c.of)
              /\ acts' = [acts EXCEPT ![a] = (@ \ {c}) \cup {[c EXCEPT !.step = "refused"]}]
              /\ UNCHANGED <<status, offer, stale>>
  BY DEF Page!Apply
<1>2. UNCHANGED <<elsewhere, view, load, detail, list, offers, busy, made>>
  BY DEF Page!Apply, Page!page
<1>3. c \in PageCallOf /\ c.kind \in PageKinds /\ c.of \in Providers
  BY DEF PageTyped, PageCallOf
<1>4. CASE Page!Accepted(c.kind, c.of)
  <2> DEFINE e == [c EXCEPT !.step = "ok"]
  <2>1. /\ Page!Effect(c.kind, c.of)
        /\ acts' = [acts EXCEPT ![a] = (acts[a] \ {c}) \cup {e}]
        /\ stale' = [b \in Pages |-> stale[b] \/ b # a \/ ~c.awaited]
    BY <1>1, <1>4
  <2>2. /\ e \in PageCallOf /\ e.n = c.n /\ e.kind = c.kind /\ e.of = c.of /\ e.step = "ok"
        /\ e.awaited = c.awaited
    BY <1>3 DEF PageCallOf
  <2> HIDE DEF e
  <2>3. /\ offer' \in [Providers -> Page!Statuses]
        /\ status' \in {"PUBLISHED", "OFFER_SELECTED"}
        /\ status = "OFFER_SELECTED" => status' = "OFFER_SELECTED"
        /\ c.kind = "select" => status = "PUBLISHED" /\ status' = "OFFER_SELECTED"
    BY <1>3, <1>4, <2>1, PageEffects
  <2>4. /\ acts' \in [Pages -> SUBSET PageCallOf] /\ acts'[a] = (acts[a] \ {c}) \cup {e}
        /\ \A b \in Pages \ {a} : acts'[b] = acts[b]
    BY <2>1, <2>2 DEF PageTyped
  <2>5. PageTyped'
    BY <1>2, <2>1, <2>3, <2>4 DEF PageTyped
  <2>6. \A b \in Pages \ {a} : PageIsRight(b)'
    <3>1. \A b \in Pages \ {a} : stale'[b] = TRUE
      BY <2>1
    <3> QED
      BY <1>2, <2>3, <2>4, <3>1, PageOtherPage
  <2>7. PageIsRight(a)'
    <3>1. PageOwnCalls(a)'
      BY <1>2, <2>2, <2>4 DEF PageIsRight, PageOwnCalls
    <3>2. PageSolo(a)'
      BY <1>2, <2>2, <2>4 DEF PageIsRight, PageSolo
    <3>3. PageWon(a)'
      BY <1>1, <1>2, <2>2, <2>3, <2>4, <2>5 DEF PageIsRight, PageWon, PageOwnCalls,
         PageTyped
    <3>4. PageFresh(a)'
      BY <2>1, <2>2, <2>4 DEF PageFresh
    <3> QED
      BY <1>2, <3>1, <3>2, <3>3, <3>4 DEF PageIsRight
  <2> QED
    BY <2>5, <2>6, <2>7
<1>5. CASE ~Page!Accepted(c.kind, c.of)
  <2> DEFINE e == [c EXCEPT !.step = "refused"]
  <2>1. /\ acts' = [acts EXCEPT ![a] = (acts[a] \ {c}) \cup {e}]
        /\ UNCHANGED <<status, offer, stale>>
    BY <1>1, <1>5
  <2>2. /\ e \in PageCallOf /\ e.n = c.n /\ e.kind = c.kind /\ e.of = c.of /\ e.step = "refused"
        /\ e.awaited = c.awaited
    BY <1>3 DEF PageCallOf
  <2> HIDE DEF e
  <2>3. /\ acts' \in [Pages -> SUBSET PageCallOf] /\ acts'[a] = (acts[a] \ {c}) \cup {e}
        /\ \A b \in Pages \ {a} : acts'[b] = acts[b]
    BY <2>1, <2>2 DEF PageTyped
  <2>4. PageTyped'
    BY <1>2, <2>1, <2>3 DEF PageTyped
  <2>5. \A b \in Pages \ {a} : PageIsRight(b)'
    BY <1>2, <2>1, <2>3, PageOtherPage
  <2>6. PageIsRight(a)'
    <3>1. PageOwnCalls(a)'
      BY <1>2, <2>2, <2>3 DEF PageIsRight, PageOwnCalls
    <3>2. PageSolo(a)'
      BY <1>2, <2>2, <2>3 DEF PageIsRight, PageSolo
    <3>3. PageWon(a)'
      BY <1>2, <2>1, <2>2, <2>3 DEF PageIsRight, PageWon
    <3>4. PageFresh(a)'
      BY <1>1, <1>2, <2>1, <2>3 DEF PageIsRight, PageFresh
    <3> QED
      BY <1>2, <3>1, <3>2, <3>3, <3>4 DEF PageIsRight
  <2> QED
    BY <2>4, <2>5, <2>6
<1> QED
  BY <1>4, <1>5

\* A page reads.
LEMMA PageReadStep ==
  ASSUME Page!RequestPageAssumption, PageIInv, NEW a \in Pages,
         \/ Page!ReadStatus(a) \/ Page!ReadMine(a) \/ Page!Loaded(a) \/ Page!LoadFails(a)
         \/ Page!ListForRequest(a) \/ Page!ListArrives(a) \/ Page!ListFails(a)
  PROVE  PageIInv'
<1> USE DEF PageIInv
<1>1. UNCHANGED <<status, offer, elsewhere, acts, made, busy, stale>>
  BY DEF Page!ReadStatus, Page!ReadMine, Page!Loaded, Page!LoadFails, Page!ListForRequest,
     Page!ListArrives, Page!ListFails, Page!market
<1>2. /\ PageTyped'
      /\ \A b \in Pages \ {a} : /\ view'[b] = view[b] /\ load'[b] = load[b] /\ detail'[b] = detail[b]
                                /\ list'[b] = list[b] /\ offers'[b] = offers[b]
  <2>1. CASE Page!ReadStatus(a)
    BY <1>1, <2>1 DEF Page!ReadStatus, PageTyped
  <2>2. CASE Page!ReadMine(a)
    <3> DEFINE mine == IF a = Owner THEN "none" ELSE offer[a]
    <3>1. mine \in Page!Statuses
      BY DEF PageTyped, Page!Statuses, Page!RequestPageAssumption
    <3>2. /\ load' = [load EXCEPT ![a] = "answered"]
          /\ detail' = [detail EXCEPT ![a].mine = mine]
          /\ UNCHANGED <<view, list, offers>>
      BY <2>2 DEF Page!ReadMine
    <3> HIDE DEF mine
    <3> QED
      BY <1>1, <3>1, <3>2 DEF PageTyped
  <2>3. CASE Page!Loaded(a) \/ Page!LoadFails(a)
    BY <1>1, <2>3 DEF Page!Loaded, Page!LoadFails, PageTyped
  <2>4. CASE Page!ListForRequest(a)
    BY <1>1, <2>4 DEF Page!ListForRequest, PageTyped
  <2>5. CASE Page!ListArrives(a)
    BY <1>1, <2>5 DEF Page!ListArrives, PageTyped
  <2>6. CASE Page!ListFails(a)
    BY <1>1, <2>6 DEF Page!ListFails, PageTyped
  <2> QED
    BY <2>1, <2>2, <2>3, <2>4, <2>5, <2>6
<1>3. \A b \in Pages \ {a} : PageIsRight(b)'
  BY <1>1, <1>2, PageOtherPage
<1>4. PageIsRight(a)'
  <2>1. /\ load'[a] # "none" <=> view'[a] = "loading"
        /\ view'[a] # "detail" => view[a] # "detail"
        /\ view[a] = "detail" => view'[a] = "detail"
    BY DEF Page!ReadStatus, Page!ReadMine, Page!Loaded, Page!LoadFails,
       Page!ListForRequest, Page!ListArrives, Page!ListFails,
           PageIsRight, PageTyped
  <2>2. PageOwnCalls(a)' /\ PageSolo(a)' /\ PageWon(a)'
    BY <1>1, <2>1 DEF PageIsRight, PageOwnCalls, PageSolo, PageWon
  <2>3. PageFresh(a)'
    <3>1. CASE Page!ReadStatus(a)
      BY <1>1, <3>1 DEF Page!ReadStatus, PageIsRight, PageFresh, PageTyped
    <3>2. CASE Page!ReadMine(a)
      BY <1>1, <3>2 DEF Page!ReadMine, PageIsRight, PageFresh, PageTyped
    <3>3. CASE Page!Loaded(a) \/ Page!LoadFails(a)
      BY <1>1, <3>3 DEF Page!Loaded, Page!LoadFails, PageIsRight, PageFresh, PageTyped
    <3>4. CASE Page!ListForRequest(a) \/ Page!ListArrives(a) \/ Page!ListFails(a)
      BY <1>1, <3>4 DEF Page!ListForRequest, Page!ListArrives, Page!ListFails,
         PageIsRight, PageFresh, PageTyped
    <3> QED
      BY <3>1, <3>2, <3>3, <3>4
  <2> QED
    BY <2>1, <2>2, <2>3 DEF PageIsRight
<1> QED
  BY <1>2, <1>3, <1>4

\* A call that is given up, and one that a new panel has inherited.
LEMMA PageChanged ==
  \A e \in PageCallOf :
    /\ LET d == [e EXCEPT !.awaited = FALSE, !.mounted = FALSE] IN
       /\ d \in PageCallOf /\ d.n = e.n /\ d.kind = e.kind /\ d.of = e.of /\ d.step = e.step
       /\ d.awaited = FALSE
    /\ LET d == [e EXCEPT !.mounted = FALSE] IN
       /\ d \in PageCallOf /\ d.n = e.n /\ d.kind = e.kind /\ d.of = e.of /\ d.step = e.step
       /\ d.awaited = e.awaited
<1> SUFFICES ASSUME NEW e \in PageCallOf
             PROVE  /\ LET d == [e EXCEPT !.awaited = FALSE, !.mounted = FALSE] IN
                       /\ d \in PageCallOf /\ d.n = e.n /\ d.kind = e.kind /\ d.of = e.of
                       /\ d.step = e.step /\ d.awaited = FALSE
                    /\ LET d == [e EXCEPT !.mounted = FALSE] IN
                       /\ d \in PageCallOf /\ d.n = e.n /\ d.kind = e.kind /\ d.of = e.of
                       /\ d.step = e.step /\ d.awaited = e.awaited
  OBVIOUS
<1> QED
  BY DEF PageCallOf

\* A page is loaded, or loads its detail anew after a call.
LEMMA PageLoadStep ==
  ASSUME Page!RequestPageAssumption, PageIInv, NEW a \in Pages, Page!Open(a) \/ Page!Answered(a)
  PROVE  PageIInv'
<1> USE DEF PageIInv
<1>1. /\ view' = [view EXCEPT ![a] = "loading"]
      /\ load' = [load EXCEPT ![a] = "status"]
      /\ list' = [list EXCEPT ![a] = "none"]
      /\ busy' = [busy EXCEPT ![a] = Owner]
      /\ stale' = [stale EXCEPT ![a] = FALSE]
      /\ UNCHANGED <<status, offer, elsewhere, detail, offers, made>>
  BY DEF Page!Open, Page!Answered, Page!Succeeded, Page!Load, Page!market
<1>2. PICK calls \in SUBSET PageCallOf :
        /\ acts' = [acts EXCEPT ![a] = calls]
        /\ \A d \in calls : \E e \in acts[a] :
             /\ d.n = e.n /\ d.kind = e.kind /\ d.of = e.of /\ d.step = e.step
             /\ d.awaited => e.awaited
        /\ \/ \A d \in calls : ~d.awaited /\ d.step = "sent"
           \/ \E c \in acts[a] : /\ c.awaited /\ c.step = "ok"
                                 /\ \A d \in calls : \E e \in acts[a] \ {c} :
                                      d.step = e.step /\ (d.awaited => e.awaited)
  <2>1. CASE Page!Open(a)
    <3> DEFINE calls == {[c EXCEPT !.awaited = FALSE, !.mounted = FALSE] :
                            c \in {d \in acts[a] : d.step = "sent"}}
    <3>1. acts' = [acts EXCEPT ![a] = calls]
      BY <2>1 DEF Page!Open
    <3>2. \A d \in calls : /\ d \in PageCallOf /\ ~d.awaited /\ d.step = "sent"
                           /\ \E e \in acts[a] : /\ d.n = e.n /\ d.kind = e.kind /\ d.of = e.of
                                                /\ d.step = e.step
      <4> SUFFICES ASSUME NEW e \in acts[a], e.step = "sent"
                   PROVE  LET d == [e EXCEPT !.awaited = FALSE, !.mounted = FALSE] IN
                          /\ d \in PageCallOf /\ ~d.awaited /\ d.step = "sent"
                          /\ d.n = e.n /\ d.kind = e.kind /\ d.of = e.of /\ d.step = e.step
        <5> TAKE d \in calls
        <5>1. PICK e \in acts[a] : e.step = "sent" /\ d = [e EXCEPT !.awaited = FALSE, !.mounted = FALSE]
          OBVIOUS
        <5> QED
          BY <5>1
      <4> QED
        BY PageChanged DEF PageTyped
    <3> HIDE DEF calls
    <3> QED
      BY <3>1, <3>2
  <2>2. CASE Page!Answered(a)
    <3>1. PICK c \in acts[a] :
            /\ c.awaited /\ c.step = "ok"
            /\ acts' = [acts EXCEPT ![a] = {[d EXCEPT !.mounted = FALSE] : d \in acts[a] \ {c}}]
      BY <2>2 DEF Page!Answered
    <3> DEFINE calls == {[d EXCEPT !.mounted = FALSE] : d \in acts[a] \ {c}}
    <3>2. \A d \in calls : /\ d \in PageCallOf
                           /\ \E e \in acts[a] \ {c} :
                                /\ d.n = e.n /\ d.kind = e.kind /\ d.of = e.of
                                /\ d.step = e.step /\ d.awaited = e.awaited
      <4> SUFFICES ASSUME NEW e \in acts[a] \ {c}
                   PROVE  LET d == [e EXCEPT !.mounted = FALSE] IN
                          /\ d \in PageCallOf /\ d.n = e.n /\ d.kind = e.kind /\ d.of = e.of
                          /\ d.step = e.step /\ d.awaited = e.awaited
        OBVIOUS
      <4> QED
        BY PageChanged DEF PageTyped
    <3>3. acts' = [acts EXCEPT ![a] = calls]
      BY <3>1
    <3> HIDE DEF calls
    <3>4. calls \in SUBSET PageCallOf
      BY <3>2
    <3>5. \A d \in calls : \E e \in acts[a] \ {c} : d.step = e.step /\ (d.awaited => e.awaited)
      BY <3>2
    <3>6. \A d \in calls : \E e \in acts[a] :
            /\ d.n = e.n /\ d.kind = e.kind /\ d.of = e.of /\ d.step = e.step
            /\ d.awaited => e.awaited
      BY <3>2
    <3> WITNESS calls \in SUBSET PageCallOf
    <3> QED
      BY <3>1, <3>3, <3>5, <3>6
  <2> QED
    BY <2>1, <2>2
<1>3. acts' \in [Pages -> SUBSET PageCallOf] /\ acts'[a] = calls
      /\ \A b \in Pages \ {a} : acts'[b] = acts[b]
  BY <1>2 DEF PageTyped
<1>4. PageTyped'
  BY <1>1, <1>3 DEF PageTyped
<1>5. \A b \in Pages \ {a} : PageIsRight(b)'
  <2>1. \A b \in Pages \ {a} : /\ view'[b] = view[b] /\ load'[b] = load[b] /\ list'[b] = list[b]
                               /\ busy'[b] = busy[b] /\ stale'[b] = stale[b]
    BY <1>1 DEF PageTyped
  <2> QED
    BY <1>1, <1>3, <2>1, PageOtherPage
<1>6. PageIsRight(a)'
  <2>1. view'[a] = "loading" /\ load'[a] = "status" /\ list'[a] = "none"
    BY <1>1 DEF PageTyped
  <2>2. PageOwnCalls(a)'
    BY <1>1, <1>2, <1>3 DEF PageIsRight, PageOwnCalls
  <2>3. PageSolo(a)'
    BY <1>2, <1>3 DEF PageIsRight, PageSolo
  <2>4. PageWon(a)'
    <3> SUFFICES ASSUME a = Owner, NEW d \in calls
                 PROVE  /\ d.step # "ok"
                        /\ d.awaited => status = "OFFER_SELECTED"
      BY <1>1, <1>3 DEF PageWon
    <3> QED
      BY <1>2 DEF PageIsRight, PageWon
  <2>5. PageFresh(a)'
    BY <2>1 DEF PageFresh
  <2> QED
    BY <2>1, <2>2, <2>3, <2>4, <2>5 DEF PageIsRight
<1> QED
  BY <1>4, <1>5, <1>6

\* A button is pressed.
LEMMA PageActStep ==
  ASSUME Page!RequestPageAssumption, PageIInv, NEW a \in Pages,
         Page!HandleSelect(a) \/ Page!HandleWithdraw(a) \/ Page!HandleSubmit(a)
  PROVE  PageIInv'
<1> USE DEF PageIInv
<1>1. PICK kind \in PageKinds, of \in Providers :
        /\ Page!Act(a, kind, of)
        /\ IF a = Owner THEN kind = "select" ELSE kind # "select" /\ of = a
  BY DEF Page!HandleSelect, Page!HandleWithdraw, Page!HandleSubmit, PageKinds,
     Page!RequestPageAssumption
<1> DEFINE c == [n |-> made[a] + 1, kind |-> kind, of |-> of, step |-> "sent",
                 awaited |-> TRUE, mounted |-> TRUE]
<1>2. /\ view[a] = "detail" /\ busy[a] # of /\ made[a] < MaxActs
      /\ acts' = [acts EXCEPT ![a] = acts[a] \cup {c}]
      /\ made' = [made EXCEPT ![a] = made[a] + 1]
      /\ busy' = [busy EXCEPT ![a] = of]
      /\ UNCHANGED <<status, offer, elsewhere, view, load, detail, list, offers, stale>>
  BY <1>1 DEF Page!Act, Page!market
<1>3. made[a] \in Nat /\ made[a] + 1 \in 0 .. MaxActs
  BY <1>2 DEF PageTyped, Page!RequestPageAssumption
<1>4. /\ c \in PageCallOf /\ c.n = made[a] + 1 /\ c.kind = kind /\ c.of = of /\ c.step = "sent"
      /\ c.awaited = TRUE
  BY <1>3 DEF PageCallOf
<1> HIDE DEF c
<1>5. /\ acts' \in [Pages -> SUBSET PageCallOf] /\ acts'[a] = acts[a] \cup {c}
      /\ \A b \in Pages \ {a} : acts'[b] = acts[b]
      /\ made' \in [Pages -> 0 .. MaxActs] /\ made'[a] = made[a] + 1
      /\ busy' \in [Pages -> Providers \cup {Owner}] /\ busy'[a] = of
      /\ \A b \in Pages \ {a} : made'[b] = made[b] /\ busy'[b] = busy[b]
  BY <1>2, <1>3, <1>4 DEF PageTyped
<1>6. PageTyped'
  BY <1>2, <1>5 DEF PageTyped
<1>7. \A b \in Pages \ {a} : PageIsRight(b)'
  BY <1>2, <1>5, PageOtherPage
<1>8. PageIsRight(a)'
  <2>1. PageOwnCalls(a)'
    BY <1>1, <1>3, <1>4, <1>5 DEF PageIsRight, PageOwnCalls
  <2>2. PageSolo(a)'
    BY <1>1, <1>2, <1>4, <1>5 DEF PageIsRight, PageSolo
  <2>3. PageWon(a)'
    BY <1>2, <1>4, <1>5 DEF PageIsRight, PageWon
  <2>4. PageFresh(a)'
    BY <1>2, <1>4, <1>5 DEF PageIsRight, PageFresh
  <2> QED
    BY <1>2, <2>1, <2>2, <2>3, <2>4 DEF PageIsRight
<1> QED
  BY <1>6, <1>7, <1>8

\* A call is refused, or waited for no longer.
LEMMA PageNotDoneStep ==
  ASSUME Page!RequestPageAssumption, PageIInv, NEW a \in Pages, Page!RefusedAnswer(a) \/ Page!GiveUp(a)
  PROVE  PageIInv'
<1> USE DEF PageIInv
<1>1. PICK c \in acts[a], late \in SUBSET PageCallOf :
        /\ c.awaited /\ Page!NotDone(a, c)
        /\ acts' = [acts EXCEPT ![a] = (acts[a] \ {c}) \cup late]
        /\ stale' = [stale EXCEPT ![a] = stale[a] \/ c.step = "ok"]
        /\ \A d \in late : ~d.awaited /\ d.step = "sent" /\ d.n = c.n /\ d.kind = c.kind /\ d.of = c.of
  <2>1. CASE Page!RefusedAnswer(a)
    <3>1. PICK c \in acts[a] : c.awaited /\ c.step = "refused" /\ Page!NotDone(a, c)
                               /\ acts' = [acts EXCEPT ![a] = acts[a] \ {c}] /\ stale' = stale
      BY <2>1 DEF Page!RefusedAnswer
    <3>2. stale' = [stale EXCEPT ![a] = stale[a] \/ c.step = "ok"]
      BY <3>1 DEF PageTyped
    <3>3. acts' = [acts EXCEPT ![a] = (acts[a] \ {c}) \cup {}]
      BY <3>1
    <3> DEFINE late == {}
    <3>4. /\ late \in SUBSET PageCallOf
          /\ \A d \in late : ~d.awaited /\ d.step = "sent" /\ d.n = c.n /\ d.kind = c.kind /\ d.of = c.of
      OBVIOUS
    <3>5. acts' = [acts EXCEPT ![a] = (acts[a] \ {c}) \cup late]
      BY <3>3
    <3> HIDE DEF late
    <3> QED
      BY <3>1, <3>2, <3>4, <3>5
  <2>2. CASE Page!GiveUp(a)
    <3>1. PICK c \in acts[a] :
            /\ c.awaited /\ Page!NotDone(a, c)
            /\ acts' = [acts EXCEPT ![a] = (acts[a] \ {c}) \cup
                  (IF c.step = "sent" THEN {[c EXCEPT !.awaited = FALSE, !.mounted = FALSE]} ELSE {})]
            /\ stale' = [stale EXCEPT ![a] = stale[a] \/ c.step = "ok"]
      BY <2>2 DEF Page!GiveUp
    <3> DEFINE e == [c EXCEPT !.awaited = FALSE, !.mounted = FALSE]
               late == IF c.step = "sent" THEN {e} ELSE {}
    <3>2. /\ e \in PageCallOf /\ e.awaited = FALSE /\ e.step = c.step /\ e.n = c.n /\ e.kind = c.kind
          /\ e.of = c.of
      BY PageChanged DEF PageTyped
    <3>3. acts' = [acts EXCEPT ![a] = (acts[a] \ {c}) \cup late]
      BY <3>1
    <3> HIDE DEF e
    <3>4. /\ late \in SUBSET PageCallOf
          /\ \A d \in late : ~d.awaited /\ d.step = "sent" /\ d.n = c.n /\ d.kind = c.kind /\ d.of = c.of
      BY <3>2
    <3> HIDE DEF late
    <3> QED
      BY <3>1, <3>3, <3>4
  <2> QED
    BY <2>1, <2>2
<1>2. /\ busy' = [busy EXCEPT ![a] = IF c.mounted THEN Owner ELSE busy[a]]
      /\ UNCHANGED <<status, offer, elsewhere, view, load, detail, list, offers, made>>
  BY <1>1 DEF Page!NotDone, Page!market
<1>3. /\ acts' \in [Pages -> SUBSET PageCallOf] /\ acts'[a] = (acts[a] \ {c}) \cup late
      /\ \A b \in Pages \ {a} : acts'[b] = acts[b]
      /\ busy' \in [Pages -> Providers \cup {Owner}]
      /\ \A b \in Pages \ {a} : busy'[b] = busy[b] /\ stale'[b] = stale[b]
      /\ stale' \in [Pages -> BOOLEAN] /\ stale'[a] = (stale[a] \/ c.step = "ok")
  BY <1>1, <1>2 DEF PageTyped
<1>4. PageTyped'
  BY <1>2, <1>3 DEF PageTyped
<1>5. \A b \in Pages \ {a} : PageIsRight(b)'
  BY <1>2, <1>3, PageOtherPage
<1>6. PageIsRight(a)'
  <2>1. PageOwnCalls(a)'
    BY <1>1, <1>2, <1>3 DEF PageIsRight, PageOwnCalls
  <2>2. PageSolo(a)'
    BY <1>1, <1>2, <1>3 DEF PageIsRight, PageSolo
  <2>3. PageWon(a)'
    BY <1>1, <1>2, <1>3 DEF PageIsRight, PageWon
  <2>4. PageFresh(a)'
    <3>1. SUFFICES ASSUME ~stale'[a], \A d \in acts'[a] : d.awaited => d.step # "ok"
                   PROVE  ~stale[a] /\ \A d \in acts[a] : d.awaited => d.step # "ok"
      BY <1>2 DEF PageIsRight, PageFresh
    <3>2. ~stale[a] /\ c.step # "ok"
      BY <1>3, <3>1
    <3> QED
      BY <1>3, <3>1, <3>2
  <2> QED
    BY <1>2, <2>1, <2>2, <2>3, <2>4 DEF PageIsRight
<1> QED
  BY <1>4, <1>5, <1>6

LEMMA PageNextKeepsIInv ==
  ASSUME Page!RequestPageAssumption, PageIInv, [Page!Next]_(Page!vars)
  PROVE  PageIInv'
<1>1. CASE UNCHANGED Page!vars
  BY <1>1 DEF Page!vars, Page!market, Page!page, PageIInv, PageTyped, PageIsRight,
     PageOwnCalls, PageSolo, PageWon, PageFresh
<1>2. CASE Page!Elsewhere
  BY <1>2, PageElsewhereStep
<1>3. CASE \E a \in Pages : Page!Browser(a)
  BY <1>3, PageReadStep, PageLoadStep, PageActStep, PageApplyStep, PageNotDoneStep DEF
     Page!Browser
<1> QED
  BY <1>1, <1>2, <1>3 DEF Page!Next

-----------------------------------------------------------------------------
(* The whole *)

\* The components share no variable, so a step of the whole is a step of one of them
\* in which the others stand still.
LEMMA StepOfEach ==
  ASSUME [AccountsNext]_accountsVars
  PROVE  /\ [Next]_vars
         /\ [Rate!Next]_(Rate!vars)
         /\ [Guard!Next]_(Guard!vars)
         /\ [List!Next]_(List!vars)
         /\ [Avatar!Next]_(Avatar!vars)
         /\ [Page!Next]_(Page!vars)
         /\ [Tab!Next]_(Tab!vars)
<1>1. /\ UNCHANGED rateVars => UNCHANGED Rate!vars
      /\ UNCHANGED guardVars => UNCHANGED Guard!vars
      /\ UNCHANGED listVars => UNCHANGED List!vars
      /\ UNCHANGED avatarVars => UNCHANGED Avatar!vars
      /\ UNCHANGED pageVars => UNCHANGED Page!vars
      /\ UNCHANGED tabVars => UNCHANGED Tab!vars
  BY DEF rateVars, Rate!vars, guardVars, Guard!vars, listVars, List!vars, avatarVars, Avatar!vars,
         pageVars, Page!vars, Page!market, Page!page, tabVars, Tab!vars, Tab!server, Tab!tab
<1> QED
  BY <1>1 DEF AccountsNext, OtpStep, RateStep, GuardStep, ListStep, AvatarStep, PageStep, TabStep,
     accountsVars

\* A behaviour of the whole is a behaviour of each component.
LEMMA PartsOfAccounts ==
  AccountsSpec => Spec /\ Rate!Spec /\ Guard!Spec /\ List!Spec /\ Avatar!Spec /\ Page!Spec /\ Tab!Spec
<1>1. AccountsInit =>
        Init /\ Rate!Init /\ Guard!Init /\ List!Init /\ Avatar!Init /\ Page!Init /\ Tab!Init
  BY DEF AccountsInit
<1> QED
  BY <1>1, StepOfEach, PTL
     DEF AccountsSpec, Spec, Rate!Spec, Guard!Spec, List!Spec, Avatar!Spec, Page!Spec, Tab!Spec

\* ReadCacheProofs speaks of the same specification under another name.
LEMMA GuardIsGuard == Guard!Spec => GuardProofs!Spec
<1>1. Guard!Init => GuardProofs!Init
  BY DEF Guard!Init, GuardProofs!Init, Guard!Nothing, GuardProofs!Nothing
<1>2. [Guard!Next]_(Guard!vars) => [GuardProofs!Next]_(GuardProofs!vars)
  BY DEF
     Guard!vars, Guard!Next, Guard!ReadHit, Guard!ReadMiss, Guard!ReadRow, Guard!Fill,
     Guard!Write, Guard!Invalidate, Guard!Fail, Guard!Reuse, Guard!Tick, Guard!Move,
     Guard!Answer, Guard!Nothing, Guard!Horizon, Guard!Cap, Guard!Less, Guard!Passed,
     GuardProofs!vars, GuardProofs!Next, GuardProofs!ReadHit, GuardProofs!ReadMiss,
     GuardProofs!ReadRow, GuardProofs!Fill, GuardProofs!Write, GuardProofs!Invalidate,
     GuardProofs!Fail, GuardProofs!Reuse, GuardProofs!Tick, GuardProofs!Move,
     GuardProofs!Answer, GuardProofs!Nothing, GuardProofs!Horizon, GuardProofs!Cap,
     GuardProofs!Less, GuardProofs!Passed
<1> QED
  BY <1>1, <1>2, PTL DEF Guard!Spec, GuardProofs!Spec

LEMMA ListIsList == List!Spec => ListProofs!Spec
<1>1. List!Init => ListProofs!Init
  BY DEF List!Init, ListProofs!Init, List!Nothing, ListProofs!Nothing
<1>2. [List!Next]_(List!vars) => [ListProofs!Next]_(ListProofs!vars)
  BY DEF
     List!vars, List!Next, List!ReadHit, List!ReadMiss, List!ReadRow, List!Fill,
     List!Write, List!Invalidate, List!Fail, List!Reuse, List!Tick, List!Move,
     List!Answer, List!Nothing, List!Horizon, List!Cap, List!Less, List!Passed,
     ListProofs!vars, ListProofs!Next, ListProofs!ReadHit, ListProofs!ReadMiss,
     ListProofs!ReadRow, ListProofs!Fill, ListProofs!Write, ListProofs!Invalidate,
     ListProofs!Fail, ListProofs!Reuse, ListProofs!Tick, ListProofs!Move,
     ListProofs!Answer, ListProofs!Nothing, ListProofs!Horizon, ListProofs!Cap,
     ListProofs!Less, ListProofs!Passed
<1> QED
  BY <1>1, <1>2, PTL DEF List!Spec, ListProofs!Spec

LEMMA TabIsTab == Tab!Spec => TabProofs!Spec
<1>1. Tab!Init => TabProofs!Init
  BY DEF
     Tab!Init, Tab!Mounted, Tab!Sent, Tab!Access, Tab!Nothing, Tab!NoToken, Tab!NoRefresh,
     Tab!OfForm,
     TabProofs!Init, TabProofs!Mounted, TabProofs!Sent, TabProofs!Access,
     TabProofs!Nothing, TabProofs!NoToken, TabProofs!NoRefresh, TabProofs!OfForm
<1>2. [Tab!Next]_(Tab!vars) => [TabProofs!Next]_(TabProofs!vars)
  BY DEF
     Tab!vars, Tab!server, Tab!tab, Tab!Tokens, Tab!Sent, Tab!Access, Tab!Nothing,
     Tab!NoToken, Tab!NoRefresh, Tab!OfForm, Tab!Guarded, Tab!Refetches, Tab!Open,
     Tab!InFlight, Tab!Pending, Tab!Crossing, Tab!Entangle, Tab!Start,
     Tab!HandleRequestCode, Tab!HandleVerify, Tab!Logout, Tab!FetchCategories,
     Tab!FetchMembers, Tab!ChangePhone, Tab!Go, Tab!Visit, Tab!Bounce, Tab!Load,
     Tab!Reload, Tab!Expire, Tab!Reply, Tab!Authorize, Tab!SignUp, Tab!AnswerForm,
     Tab!Rotate, Tab!Caught, Tab!Close, Tab!TryRefresh, Tab!Unauthorized, Tab!Succeed,
     Tab!Fail, Tab!Refreshed, Tab!NotRefreshed, Tab!Next, Tab!Mounted,
     TabProofs!vars, TabProofs!server, TabProofs!tab, TabProofs!Tokens, TabProofs!Sent,
     TabProofs!Access, TabProofs!Nothing, TabProofs!NoToken, TabProofs!NoRefresh,
     TabProofs!OfForm, TabProofs!Guarded, TabProofs!Refetches, TabProofs!Open,
     TabProofs!InFlight, TabProofs!Pending, TabProofs!Crossing, TabProofs!Entangle,
     TabProofs!Start, TabProofs!HandleRequestCode, TabProofs!HandleVerify,
     TabProofs!Logout, TabProofs!FetchCategories, TabProofs!FetchMembers,
     TabProofs!ChangePhone, TabProofs!Go, TabProofs!Visit, TabProofs!Bounce,
     TabProofs!Load, TabProofs!Reload, TabProofs!Expire, TabProofs!Reply,
     TabProofs!Authorize, TabProofs!SignUp, TabProofs!AnswerForm, TabProofs!Rotate,
     TabProofs!Caught, TabProofs!Close, TabProofs!TryRefresh, TabProofs!Unauthorized,
     TabProofs!Succeed, TabProofs!Fail, TabProofs!Refreshed, TabProofs!NotRefreshed,
     TabProofs!Next, TabProofs!Mounted
<1> QED
  BY <1>1, <1>2, PTL DEF Tab!Spec, TabProofs!Spec

\* The constants of the components are what the proofs about them assume.
LEMMA CacheAssumptions == GuardProofs!ReadCacheAssumption /\ ListProofs!ReadCacheAssumption
  BY AccountsAssumption DEF Guard!ReadCacheAssumption, List!ReadCacheAssumption,
     GuardProofs!ReadCacheAssumption, ListProofs!ReadCacheAssumption

\* Whatever a role guard, a phone guard or a list answers has been out of date for no
\* longer than the key lives, a call lasts and the browser keeps its copy.
THEOREM CachedChangesTakeEffect == AccountsSpec => []ChangeTakesEffect
<1>1. /\ GuardProofs!Spec => []GuardProofs!ChangeTakesEffect
      /\ ListProofs!Spec => []ListProofs!ChangeTakesEffect
  BY CacheAssumptions, GuardProofs!StalenessIsBounded, ListProofs!StalenessIsBounded
<1>2. GuardProofs!ChangeTakesEffect /\ ListProofs!ChangeTakesEffect => ChangeTakesEffect
  BY DEF ChangeTakesEffect, Guard!ChangeTakesEffect, List!ChangeTakesEffect,
     GuardProofs!ChangeTakesEffect, ListProofs!ChangeTakesEffect
<1> QED
  BY <1>1, <1>2, PartsOfAccounts, GuardIsGuard, ListIsList, PTL

\* The keys of categories and skills hold an old value only while the write that
\* made it old is on its way to its DEL, or if it overlapped a read or failed there.
THEOREM ListKeysStayTrue == AccountsSpec => []InvalidationWorks
<1>1. ListProofs!Spec => []ListProofs!InvalidationWorks
  BY CacheAssumptions, ListProofs!DeletedKeysStayTrue
<1>2. ListProofs!InvalidationWorks => InvalidationWorks
  BY DEF InvalidationWorks, List!InvalidationWorks, ListProofs!InvalidationWorks
<1> QED
  BY <1>1, <1>2, PartsOfAccounts, ListIsList, PTL

\* The key that uploadAvatar has stored in the row has its two files, for any
\* number of overlapping and failing calls, unless a deletion has read it.
THEOREM PictureIsThere == AccountsSpec => []NamedFilesExist
<1>1. Avatar!Init => AvatarIInv
  BY AccountsAssumption, AvatarInitIInv
<1>2. AvatarIInv /\ [Avatar!Next]_(Avatar!vars) => AvatarIInv'
  BY AccountsAssumption, AvatarStepIInv
<1>3. AvatarIInv => NamedFilesExist
  BY DEF AvatarIInv, NamedFilesExist
<1> QED
  BY <1>1, <1>2, <1>3, PartsOfAccounts, PTL DEF Avatar!Spec

\* Uploads and deletions that follow one another, with every save and delete done,
\* leave the two files of the row's key in storage and nothing else.
THEOREM StorageIsTidy == AccountsSpec => []NothingLeftBehind
<1>1. Avatar!Init => AvatarIInv /\ AvatarAlone /\ AvatarLeft
  BY AccountsAssumption, AvatarInitIInv, AvatarTidyInit
<1>2. AvatarIInv /\ AvatarAlone /\ AvatarLeft /\ [Avatar!Next]_(Avatar!vars)
        => AvatarIInv' /\ AvatarAlone' /\ AvatarLeft'
  BY AccountsAssumption, AvatarStepIInv, AvatarTidyStep
<1>3. AvatarIInv /\ AvatarAlone /\ AvatarLeft => NothingLeftBehind
  BY DEF AvatarLeft, NothingLeftBehind, Avatar!NothingLeftBehind
<1> QED
  BY <1>1, <1>2, <1>3, PartsOfAccounts, PTL DEF Avatar!Spec

\* In any stretch of time as long as the hourly or the daily window no more calls are
\* let through than its limit, for any windows and limits and however many refused
\* calls lie between.
THEOREM LimitsHold == AccountsSpec => []LimitHolds
<1>1. RateIInv => LimitHolds
  BY DEF RateIInv, LimitHolds
<1> QED
  BY <1>1, RateInit, RateKeeps, PartsOfAccounts, PTL DEF Rate!Spec

\* A caller who is told to wait would be refused, by the window that refused the
\* call, until less than a second before the time he was told: waits are rounded up
\* to seconds, and no longer than that makes them.
THEOREM WaitsAreNeeded == AccountsSpec => []RetryAfterNeeded
<1>1. ASSUME RateIInv PROVE RetryAfterNeeded
  BY <1>1, LimitTypes, FullStays
     DEF RateIInv, RateTyped, RateTold, RetryAfterNeeded, Rate!RetryAfterNeeded
<1> QED
  BY <1>1, RateInit, RateKeeps, PartsOfAccounts, PTL DEF Rate!Spec
\* Once no call of a tab is open it shows a user exactly when the browser holds a token
\* the server accepts, for any number of calls at once, sign-ins and refreshes; the
\* exceptions are those that ShownIsTrue names.
THEOREM TabShowsTheTruth == AccountsSpec => []ShownIsTrue
<1>1. TabProofs!SignInAssumption
  BY AccountsAssumption DEF Tab!SignInAssumption, TabProofs!SignInAssumption
<1>2. TabProofs!Spec => []TabProofs!ShownIsTrue
  BY <1>1, TabProofs!ShownIsTrueAlways
<1>3. TabProofs!ShownIsTrue => ShownIsTrue
  BY DEF ShownIsTrue, Tab!ShownIsTrue, TabProofs!ShownIsTrue, Tab!Open, TabProofs!Open
<1> QED
  BY <1>2, <1>3, PartsOfAccounts, TabIsTab, PTL

\* A page that has settled shows the request and the offers as they are, for any
\* owner, providers and calls, unless somebody else has changed them since it was
\* loaded or a call of its own has gone unanswered.
THEOREM PagesAreTrue == AccountsSpec => []StaleOnlyByOthers
<1>1. PageIInv => StaleOnlyByOthers
  BY AccountsAssumption, PageIInvShows DEF StaleOnlyByOthers
<1> QED
  BY <1>1, AccountsAssumption, PageInitIInv, PageNextKeepsIInv, PartsOfAccounts, PTL DEF Page!Spec

\* Every component's state stays of its type.
THEOREM AccountsTypeCorrect == AccountsSpec => []AccountsTypeOK
<1>1. Spec => []TypeOK
  BY TypeCorrect, AccountsAssumption
<1>2. /\ GuardProofs!Spec => []GuardProofs!TypeOK
      /\ ListProofs!Spec => []ListProofs!TypeOK
  BY CacheAssumptions, GuardProofs!TypeCorrect, ListProofs!TypeCorrect
<1>3. TabProofs!Spec => []TabProofs!TypeOK
  BY AccountsAssumption, TabProofs!TypeCorrect DEF Tab!SignInAssumption, TabProofs!SignInAssumption
<1>4. Rate!Spec => []RateIInv
  BY RateInit, RateKeeps, PTL DEF Rate!Spec
<1>5. Avatar!Spec => []AvatarIInv
  <2>1. Avatar!Init => AvatarIInv
    BY AccountsAssumption, AvatarInitIInv
  <2>2. AvatarIInv /\ [Avatar!Next]_(Avatar!vars) => AvatarIInv'
    BY AccountsAssumption, AvatarStepIInv
  <2> QED
    BY <2>1, <2>2, PTL DEF Avatar!Spec
<1>6. Page!Spec => []PageIInv
  BY AccountsAssumption, PageInitIInv, PageNextKeepsIInv, PTL DEF Page!Spec
<1>7. /\ RateIInv => Rate!TypeOK
      /\ AvatarIInv => Avatar!TypeOK
      /\ PageIInv => Page!TypeOK
  BY AccountsAssumption, PageIInvShows DEF RateIInv, RateTyped, AvatarIInv
<1>8. /\ GuardProofs!TypeOK => Guard!TypeOK
      /\ ListProofs!TypeOK => List!TypeOK
      /\ TabProofs!TypeOK => Tab!TypeOK
  BY DEF GuardProofs!TypeOK, Guard!TypeOK, ListProofs!TypeOK, List!TypeOK, TabProofs!TypeOK, Tab!TypeOK,
     GuardProofs!Horizon, Guard!Horizon, ListProofs!Horizon, List!Horizon,
     TabProofs!Tokens, Tab!Tokens, TabProofs!NoToken, Tab!NoToken,
     TabProofs!Guarded, Tab!Guarded, TabProofs!OfForm, Tab!OfForm
<1>9. TypeOK /\ GuardProofs!TypeOK /\ ListProofs!TypeOK /\ TabProofs!TypeOK
        /\ RateIInv /\ AvatarIInv /\ PageIInv => AccountsTypeOK
  BY <1>7, <1>8 DEF AccountsTypeOK
<1> QED
  BY <1>1, <1>2, <1>3, <1>4, <1>5, <1>6, <1>9, PartsOfAccounts, GuardIsGuard, ListIsList, TabIsTab, PTL
=============================================================================
