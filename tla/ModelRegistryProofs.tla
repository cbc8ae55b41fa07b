------------------------- MODULE ModelRegistryProofs -------------------------
(* Proofs that the properties of ModelRegistry hold for any number of       *)
(* tenants, models, versions and overlapping sessions.                      *)
EXTENDS ModelRegistry, TLAPS

(* What an open session knows: every active version of its line that it      *)
(* committed itself is among the ones it is about to deactivate, all of      *)
(* those are versions of the line, and its source is one a rollback may name.*)
Knows(s) ==
  LET w == session[s]
  IN /\ \A i \in w.superseded : Used(i) /\ version[i].line = w.line
     /\ \A i \in ActiveOn(w.line) : author[i] = s => i \in w.superseded
     /\ w.source # None =>
          /\ Used(w.source)
          /\ version[w.source].line = w.line
          /\ version[w.source].label = w.label

SessionsSound == \A s \in Sessions : Open(s) => Knows(s)

Inv == TypeOK /\ SomeActive /\ OneActivePerAuthor /\ RollbackSound /\ SessionsSound

(* A session that opens a write which deactivates all that is active on its  *)
(* line keeps the invariant: registering and rolling back both do.           *)
LEMMA OpenKeeps ==
  ASSUME Inv, NEW s \in Sessions, NEW w \in Write, ~Open(s),
         w.superseded = ActiveOn(w.line),
         w.source # None =>
           /\ Used(w.source)
           /\ version[w.source].line = w.line
           /\ version[w.source].label = w.label,
         session' = [session EXCEPT ![s] = w], UNCHANGED <<version, author>>
  PROVE  Inv'
<1>1. TypeOK'
  BY DEF Inv, TypeOK
<1>2. SomeActive' /\ OneActivePerAuthor' /\ RollbackSound'
  BY DEF Inv, SomeActive, OneActivePerAuthor, RollbackSound, ActiveOn, Used
<1>3. SessionsSound'
  <2> SUFFICES ASSUME NEW u \in Sessions, Open(u)' PROVE Knows(u)'
    BY DEF SessionsSound
  <2>1. CASE u = s
    <3>1. session'[u] = w
      BY <2>1 DEF Inv, TypeOK
    <3> QED
      BY <3>1 DEF Knows, ActiveOn, Used
  <2>2. CASE u # s
    <3>1. session'[u] = session[u]
      BY <2>2 DEF Inv, TypeOK
    <3>2. Knows(u)
      BY <3>1 DEF Inv, SessionsSound, Open
    <3> QED
      BY <3>1, <3>2 DEF Knows, ActiveOn, Used
  <2> QED
    BY <2>1, <2>2
<1> QED
  BY <1>1, <1>2, <1>3 DEF Inv

LEMMA RegisterKeeps ==
  ASSUME Inv, NEW s \in Sessions, NEW l \in Lines, NEW label \in Labels, Register(s, l, label)
  PROVE  Inv'
<1> DEFINE w == [line |-> l, label |-> label, source |-> None, superseded |-> ActiveOn(l)]
<1>1. w \in Write
  BY DEF Write, ActiveOn
<1>2. w.superseded = ActiveOn(w.line) /\ w.source = None
  OBVIOUS
<1>3. session' = [session EXCEPT ![s] = w] /\ ~Open(s) /\ UNCHANGED <<version, author>>
  BY DEF Register
<1> HIDE DEF w
<1> QED
  BY <1>1, <1>2, <1>3, OpenKeeps

LEMMA RollbackKeeps ==
  ASSUME Inv, NEW s \in Sessions, NEW t \in Tenants, NEW i \in Ids, Rollback(s, t, i)
  PROVE  Inv'
<1> DEFINE l == <<t, version[i].line[2]>>
           w == [line |-> l, label |-> version[i].label, source |-> i,
                 superseded |-> ActiveOn(l)]
<1>1. version[i] \in Version
  BY DEF Rollback, Used, Inv, TypeOK
<1>2. version[i].line \in Lines /\ version[i].label \in Labels
  BY <1>1 DEF Version
<1>3. version[i].line = l
  BY <1>2 DEF Rollback, Lines
<1>4. w \in Write
  BY <1>2, <1>3 DEF Write, ActiveOn
<1>5. /\ w.superseded = ActiveOn(w.line)
      /\ Used(w.source)
      /\ version[w.source].line = w.line
      /\ version[w.source].label = w.label
  BY <1>3 DEF Rollback
<1>6. session' = [session EXCEPT ![s] = w] /\ ~Open(s) /\ UNCHANGED <<version, author>>
  BY DEF Rollback
<1> HIDE DEF w
<1> QED
  BY <1>4, <1>5, <1>6, OpenKeeps

(* What a commit does to the table: one new active row on the session's line,*)
(* the ones it superseded inactive, every other row as it was.               *)
Effect(s, i) ==
  /\ session[s] \in Write
  /\ Knows(s)
  /\ version'[i] = Made(session[s])
  /\ Made(session[s]) \in Version
  /\ \A j \in session[s].superseded :
       /\ j # i
       /\ version[j] \in Version
       /\ version'[j] = Retired(version[j])
  /\ \A j \in Ids : j # i /\ j \notin session[s].superseded => version'[j] = version[j]

LEMMA CommitEffect ==
  ASSUME Inv, NEW s \in Sessions, NEW i \in Ids, Commit(s, i)
  PROVE  Effect(s, i)
<1>1. session[s] \in Write
  BY DEF Commit, Open, Inv, TypeOK
<1>2. Knows(s)
  BY DEF Commit, Inv, SessionsSound
<1>3. Made(session[s]) \in Version
  BY <1>1 DEF Made, Write, Version
<1>4. version'[i] = Made(session[s])
  BY DEF Commit
<1>5. session[s].superseded \subseteq Ids
  BY <1>1 DEF Write
<1>6. \A j \in session[s].superseded : j # i /\ version[j] \in Version
  BY <1>2, <1>5 DEF Commit, Knows, Used, Inv, TypeOK
<1>7. \A j \in session[s].superseded : version'[j] = Retired(version[j])
  BY <1>5, <1>6 DEF Commit
<1>8. \A j \in Ids : j # i /\ j \notin session[s].superseded => version'[j] = version[j]
  BY DEF Commit
<1> QED
  BY <1>1, <1>2, <1>3, <1>4, <1>6, <1>7, <1>8 DEF Effect

(* Deactivating a version changes its status alone. *)
LEMMA RetiredOnly ==
  ASSUME NEW v \in Version
  PROVE  /\ Retired(v) \in Version
         /\ Retired(v).status = "inactive"
         /\ Retired(v).line = v.line
         /\ Retired(v).label = v.label
         /\ Retired(v).rollback_of_id = v.rollback_of_id
  BY DEF Version, Retired

(* A version is never mistaken for an unused row. *)
LEMMA VersionIsUsed ==
  ASSUME NEW v \in Version PROVE v # Unused
  BY DEF Version, Unused

(* The line, label and source of a committed row never change, and a row     *)
(* that was not active before is active afterwards only if it is the new one.*)
Rows(s, i) ==
  /\ \A j \in Ids : Used(j) =>
       /\ Used(j)'
       /\ version'[j].line = version[j].line
       /\ version'[j].label = version[j].label
       /\ version'[j].rollback_of_id = version[j].rollback_of_id
  /\ \A j \in Ids : j # i /\ Used(j)' => Used(j)
  /\ \A l \in Lines : l # session[s].line => ActiveOn(l)' = ActiveOn(l)
  /\ \A l \in Lines : l = session[s].line =>
       ActiveOn(l)' = {i} \cup (ActiveOn(l) \ session[s].superseded)

LEMMA CommitRows ==
  ASSUME Inv, NEW s \in Sessions, NEW i \in Ids, Commit(s, i)
  PROVE  Rows(s, i)
<1> DEFINE w == session[s]
<1>0. Effect(s, i)
  BY CommitEffect
<1>1. \A j \in Ids : Used(j) => version[j] \in Version
  BY DEF Inv, TypeOK, Used
<1>2. ~Used(i)
  BY DEF Commit
<1>3. \A j \in Ids : Used(j) =>
        /\ Used(j)'
        /\ version'[j].line = version[j].line
        /\ version'[j].label = version[j].label
        /\ version'[j].rollback_of_id = version[j].rollback_of_id
  BY <1>1, <1>2, <1>0, RetiredOnly, VersionIsUsed DEF Used, Effect
<1>4. \A j \in Ids : j # i /\ Used(j)' => Used(j)
  BY <1>1, <1>0, VersionIsUsed DEF Used, Effect
<1>5. /\ Used(i)'
      /\ version'[i].line = w.line
      /\ version'[i].status = "active"
  BY <1>0, VersionIsUsed DEF Used, Made, Effect
<1>6. \A j \in Ids : j # i /\ Used(j) =>
        version'[j].status = (IF j \in w.superseded THEN "inactive" ELSE version[j].status)
  BY <1>1, <1>0, RetiredOnly DEF Effect
<1>7. \A j \in w.superseded : Used(j) /\ version[j].line = w.line
  BY <1>0 DEF Knows, Effect
<1>8. \A l \in Lines : l # w.line => ActiveOn(l)' = ActiveOn(l)
  BY <1>2, <1>3, <1>4, <1>5, <1>6, <1>7 DEF ActiveOn
<1>9. ASSUME NEW l \in Lines, l = w.line
      PROVE  ActiveOn(l)' = {i} \cup (ActiveOn(l) \ w.superseded)
  <2>1. i \in ActiveOn(l)' /\ i \notin w.superseded
    BY <1>0, <1>5, <1>9 DEF ActiveOn, Effect
  <2>2. ASSUME NEW j \in Ids, j # i
        PROVE  j \in ActiveOn(l)' <=> j \in ActiveOn(l) /\ j \notin w.superseded
    BY <1>3, <1>4, <1>6, <2>2 DEF ActiveOn
  <2>3. ActiveOn(l) \subseteq Ids /\ ActiveOn(l)' \subseteq Ids
    BY DEF ActiveOn
  <2> QED
    BY <2>1, <2>2, <2>3
<1> QED
  BY <1>3, <1>4, <1>8, <1>9 DEF Rows

LEMMA CommitKeeps ==
  ASSUME Inv, NEW s \in Sessions, NEW i \in Ids, Commit(s, i)
  PROVE  Inv'
<1> DEFINE w == session[s]
<1>x. Effect(s, i)
  BY CommitEffect
<1>y. Rows(s, i)
  BY CommitRows
<1>0. /\ w \in Write /\ w.line \in Lines /\ ~Used(i)
      /\ author' = [author EXCEPT ![i] = s]
      /\ session' = [session EXCEPT ![s] = Idle]
  BY <1>x DEF Commit, Write, Effect
<1>1. TypeOK'
  <2>1. \A j \in Ids : version'[j] \in Version \cup {Unused}
    BY <1>x, RetiredOnly DEF Inv, TypeOK, Effect
  <2>2. version' \in [Ids -> Version \cup {Unused}]
    BY <2>1 DEF Commit
  <2> QED
    BY <1>0, <2>2 DEF Inv, TypeOK
<1>a. \A j \in Ids : Used(j)' => version'[j].line \in Lines
  BY <1>1, VersionIsUsed DEF TypeOK, Used, Version
<1>2. SomeActive'
  <2>1. ASSUME NEW j \in Ids, Used(j)', NEW l \in Lines, l = version'[j].line
        PROVE  ActiveOn(l)' # {}
    <3>1. CASE l = w.line
      BY <3>1, <1>y DEF Rows
    <3>2. CASE l # w.line
      <4>1. j # i
        BY <2>1, <3>2, <1>x DEF Made, Effect
      <4>2. Used(j) /\ l = version[j].line
        BY <2>1, <4>1, <1>y DEF Rows
      <4>3. ActiveOn(l) # {}
        BY <4>2 DEF Inv, SomeActive
      <4> QED
        BY <3>2, <4>3, <1>y DEF Rows
    <3> QED
      BY <3>1, <3>2
  <2>2. \A j \in Ids : Used(j)' => ActiveOn(version[j].line)' # {}
    BY <2>1, <1>a DEF ActiveOn
  <2> QED
    BY <2>2 DEF SomeActive
<1>3. OneActivePerAuthor'
  <2> SUFFICES ASSUME NEW l \in Lines, NEW j \in ActiveOn(l)', NEW k \in ActiveOn(l)',
                      author'[j] = author'[k]
               PROVE  j = k
    BY DEF OneActivePerAuthor
  <2>1. j \in Ids /\ k \in Ids
    BY DEF ActiveOn
  <2>2. \A n \in Ids : author'[n] = IF n = i THEN s ELSE author[n]
    BY <1>0 DEF Inv, TypeOK
  <2>3. i \notin ActiveOn(l)
    BY <1>0 DEF ActiveOn
  <2>4. CASE l # w.line
    BY <2>1, <2>2, <2>3, <2>4, <1>y DEF Inv, OneActivePerAuthor, Rows
  <2>5. CASE l = w.line
    <3>1. \A n \in ActiveOn(l)' : n # i => n \in ActiveOn(l) /\ author'[n] # s
      BY <2>2, <2>5, <1>y, <1>x DEF Knows, ActiveOn, Effect, Rows
    <3>2. \A n \in ActiveOn(l)' : author'[n] = s <=> n = i
      BY <2>2, <3>1 DEF ActiveOn
    <3>3. CASE j # i /\ k # i
      BY <2>1, <2>2, <3>1, <3>3 DEF Inv, OneActivePerAuthor
    <3> QED
      BY <3>2, <3>3
  <2> QED
    BY <2>4, <2>5
<1>4. RollbackSound'
  <2> SUFFICES ASSUME NEW j \in Ids, Used(j)', version'[j].rollback_of_id # None
               PROVE  LET k == version'[j].rollback_of_id
                      IN /\ version'[k] # Unused
                         /\ version'[k].line = version'[j].line
                         /\ version'[k].label = version'[j].label
    BY DEF RollbackSound, Used
  <2>1. CASE j = i
    <3>1. version'[j] = [line |-> w.line, label |-> w.label, status |-> "active",
                         rollback_of_id |-> w.source]
      BY <2>1, <1>x DEF Made, Effect
    <3>2. w.source # None /\ w.source \in Ids
      BY <3>1, <1>0 DEF Write
    <3>3. /\ Used(w.source)
          /\ version[w.source].line = w.line
          /\ version[w.source].label = w.label
      BY <3>2, <1>x DEF Knows, Effect
    <3> QED
      BY <3>1, <3>2, <3>3, <1>y DEF Rows, Used
  <2>2. CASE j # i
    <3>1. /\ Used(j)
          /\ version'[j].line = version[j].line
          /\ version'[j].label = version[j].label
          /\ version'[j].rollback_of_id = version[j].rollback_of_id
      BY <2>2, <1>y DEF Rows
    <3>2. version[j] \in Version
      BY <3>1 DEF Inv, TypeOK, Used
    <3>3. version[j].rollback_of_id \in Ids
      BY <3>1, <3>2 DEF Version
    <3>4. /\ Used(version[j].rollback_of_id)
          /\ version[version[j].rollback_of_id].line = version[j].line
          /\ version[version[j].rollback_of_id].label = version[j].label
      BY <3>1 DEF Inv, RollbackSound
    <3> QED
      BY <3>1, <3>3, <3>4, <1>y DEF Rows, Used
  <2> QED
    BY <2>1, <2>2
<1>5. SessionsSound'
  <2> SUFFICES ASSUME NEW u \in Sessions, Open(u)' PROVE Knows(u)'
    BY DEF SessionsSound
  <2>1. u # s /\ session'[u] = session[u]
    BY <1>0 DEF Inv, TypeOK, Open
  <2>2. Knows(u) /\ session[u] \in Write
    BY <2>1 DEF Inv, SessionsSound, Open, TypeOK
  <2> DEFINE x == session[u]
  <2>3. /\ x.superseded \subseteq Ids
        /\ x.line \in Lines
        /\ x.source \in Ids \cup {None}
    BY <2>2 DEF Write
  <2>4. \A j \in x.superseded : version'[j] # Unused /\ version'[j].line = x.line
    BY <2>2, <2>3, <1>y DEF Knows, Rows, Used
  <2>5. ASSUME NEW l \in Lines, l = x.line, NEW j \in ActiveOn(l)', author'[j] = u
        PROVE  j \in x.superseded
    <3>1. j \in Ids /\ j # i /\ author[j] = u
      BY <1>0, <2>1, <2>5 DEF ActiveOn, Inv, TypeOK
    <3>2. j \in ActiveOn(l)
      BY <3>1, <1>y, <2>5 DEF Rows
    <3> QED
      BY <2>2, <2>5, <3>1, <3>2 DEF Knows
  <2>6. x.source # None =>
          /\ version'[x.source] # Unused
          /\ version'[x.source].line = x.line
          /\ version'[x.source].label = x.label
    BY <2>2, <2>3, <1>y DEF Knows, Rows, Used
  <2>7. \A j \in ActiveOn(x.line)' : author'[j] = u => j \in x.superseded
    BY <2>1, <2>3, <2>5 DEF ActiveOn
  <2> QED
    BY <2>1, <2>4, <2>6, <2>7 DEF Knows, ActiveOn, Used
<1> QED
  BY <1>1, <1>2, <1>3, <1>4, <1>5 DEF Inv

LEMMA AbortKeeps ==
  ASSUME Inv, NEW s \in Sessions, Abort(s)
  PROVE  Inv'
<1>1. TypeOK'
  BY DEF Inv, TypeOK, Abort
<1>2. SomeActive' /\ OneActivePerAuthor' /\ RollbackSound'
  BY DEF Inv, Abort, SomeActive, OneActivePerAuthor, RollbackSound, ActiveOn, Used
<1>3. SessionsSound'
  <2> SUFFICES ASSUME NEW u \in Sessions, Open(u)' PROVE Knows(u)'
    BY DEF SessionsSound
  <2>1. session'[u] = session[u]
    BY DEF Abort, Inv, TypeOK, Open
  <2>2. Knows(u)
    BY <2>1 DEF Inv, SessionsSound, Open
  <2> QED
    BY <2>1, <2>2 DEF Knows, Abort, ActiveOn, Used
<1> QED
  BY <1>1, <1>2, <1>3 DEF Inv

LEMMA InvInit == Init => Inv
<1> SUFFICES ASSUME Init PROVE Inv
  OBVIOUS
<1>1. TypeOK
  BY DEF Init, TypeOK
<1>2. \A i \in Ids : ~Used(i)
  BY DEF Init, Used
<1>3. \A s \in Sessions : ~Open(s)
  BY DEF Init, Open
<1> QED
  BY <1>1, <1>2, <1>3 DEF Inv, SomeActive, OneActivePerAuthor, RollbackSound, SessionsSound,
                          ActiveOn

LEMMA InvNext == Inv /\ [Next]_vars => Inv'
<1> SUFFICES ASSUME Inv, [Next]_vars PROVE Inv'
  OBVIOUS
<1>1. ASSUME NEW s \in Sessions, NEW l \in Lines, NEW label \in Labels, Register(s, l, label)
      PROVE  Inv'
  BY <1>1, RegisterKeeps
<1>2. ASSUME NEW s \in Sessions, NEW t \in Tenants, NEW i \in Ids, Rollback(s, t, i)
      PROVE  Inv'
  BY <1>2, RollbackKeeps
<1>3. ASSUME NEW s \in Sessions, NEW i \in Ids, Commit(s, i)
      PROVE  Inv'
  BY <1>3, CommitKeeps
<1>4. ASSUME NEW s \in Sessions, Abort(s)
      PROVE  Inv'
  BY <1>4, AbortKeeps
<1>5. CASE UNCHANGED vars
  BY <1>5 DEF vars, Inv, TypeOK, SomeActive, OneActivePerAuthor, RollbackSound, SessionsSound,
              Knows, ActiveOn, Used, Open
<1> QED
  BY <1>1, <1>2, <1>3, <1>4, <1>5 DEF Next

(* The invariant holds in every reachable state. *)
THEOREM RegistryInvariance == Spec => []Inv
  BY InvInit, InvNext, PTL DEF Spec

(* The variables keep their types. *)
THEOREM RegistryTypeCorrect == Spec => []TypeOK
<1>1. Inv => TypeOK
  BY DEF Inv
<1> QED
  BY <1>1, RegistryInvariance, PTL

(* Whatever requests overlap: a model once registered has an active version, *)
(* no session leaves it two, and rollbacks copy the tenant's own versions.   *)
THEOREM RegistrySafety == Spec => [](SomeActive /\ OneActivePerAuthor /\ RollbackSound)
<1>1. Inv => SomeActive /\ OneActivePerAuthor /\ RollbackSound
  BY DEF Inv
<1> QED
  BY <1>1, RegistryInvariance, PTL

(* A model once registered always has an active version                      *)
(* (register_model, rollback_model).                                         *)
THEOREM SomeVersionActive == Spec => []SomeActive
BY RegistrySafety, PTL

(* A rollback copies a version of its own tenant and model (rollback_model). *)
THEOREM RollbacksSound == Spec => []RollbackSound
BY RegistrySafety, PTL

(* A committed version is only ever retired, and what is active on a line    *)
(* changes only by a new version made on it (register_model, rollback_model). *)
THEOREM RegistryIsHistory == Spec => HistoryKept
<1> DEFINE Kept ==
      /\ \A i \in Ids : Used(i) => version'[i] \in {version[i], Retired(version[i])}
      /\ \A l \in Lines : ActiveOn(l)' # ActiveOn(l) =>
           \E i \in Ids : ~Used(i) /\ i \in ActiveOn(l)' /\ ActiveOn(l)' \subseteq ActiveOn(l) \cup {i}
<1>1. ASSUME Inv, NEW s \in Sessions, NEW i \in Ids, Commit(s, i) PROVE Kept
  <2>1. Effect(s, i) /\ Rows(s, i) /\ ~Used(i)
    BY <1>1, CommitEffect, CommitRows DEF Commit
  <2>2. \A j \in Ids : Used(j) => version'[j] \in {version[j], Retired(version[j])}
    BY <2>1 DEF Effect
  <2>3. ASSUME NEW l \in Lines, ActiveOn(l)' # ActiveOn(l)
        PROVE  i \in ActiveOn(l)' /\ ActiveOn(l)' \subseteq ActiveOn(l) \cup {i}
    BY <2>1, <2>3 DEF Rows
  <2> QED
    BY <2>1, <2>2, <2>3
<1>2. ASSUME UNCHANGED version PROVE Kept
  BY <1>2 DEF ActiveOn, Used
<1>3. Inv /\ [Next]_vars => [Kept]_vars
  BY <1>1, <1>2 DEF Next, Register, Rollback, Abort, vars
<1> QED
  BY <1>3, RegistryInvariance, PTL DEF Spec, HistoryKept

-----------------------------------------------------------------------------
(* Requests about one model that do not overlap.  An open one then knows all *)
(* that is active on its line, not only what its own session made active.    *)
NoneMissed ==
  \A s \in Sessions : Open(s) => ActiveOn(session[s].line) \subseteq session[s].superseded

AtMostOneActive == \A l \in Lines : \A i, j \in ActiveOn(l) : i = j

SerialInv == Inv /\ NoneMissed /\ AtMostOneActive

LEMMA OpenKeepsSerial ==
  ASSUME SerialInv, NEW s \in Sessions, NEW w, w.superseded = ActiveOn(w.line),
         session' = [session EXCEPT ![s] = w], UNCHANGED <<version, author>>
  PROVE  NoneMissed' /\ AtMostOneActive'
<1>1. \A l : ActiveOn(l)' = ActiveOn(l)
  BY DEF ActiveOn, Used
<1>2. \A u \in Sessions : session'[u] = IF u = s THEN w ELSE session[u]
  BY DEF SerialInv, Inv, TypeOK
<1>3. ASSUME NEW u \in Sessions, Open(u)'
      PROVE  ActiveOn(session[u].line)' \subseteq session'[u].superseded
  <2>1. ActiveOn(session[u].line)' = ActiveOn(session'[u].line)
    BY DEF ActiveOn, Used
  <2> QED
    BY <1>2, <1>3, <2>1 DEF SerialInv, NoneMissed, Open
<1>4. NoneMissed'
  BY <1>3 DEF NoneMissed
<1>5. AtMostOneActive'
  BY <1>1 DEF SerialInv, AtMostOneActive, ActiveOn, Used
<1> QED
  BY <1>4, <1>5

LEMMA CommitKeepsSerial ==
  ASSUME SerialInv, LinesApart, NEW s \in Sessions, NEW i \in Ids, Commit(s, i)
  PROVE  NoneMissed' /\ AtMostOneActive'
<1>1. Rows(s, i)
  BY CommitRows DEF SerialInv
<1>2. \A u \in Sessions : session'[u] = IF u = s THEN Idle ELSE session[u]
  BY DEF Commit, SerialInv, Inv, TypeOK
<1>3. session[s] \in Write /\ session[s].line \in Lines
  BY DEF Commit, Open, SerialInv, Inv, TypeOK, Write
<1>4. ActiveOn(session[s].line) \subseteq session[s].superseded
  BY DEF Commit, SerialInv, NoneMissed
<1>5. \A l \in Lines : l = session[s].line => ActiveOn(l)' = {i}
  BY <1>1, <1>3, <1>4 DEF Rows
<1>6. AtMostOneActive'
  <2> SUFFICES ASSUME NEW l \in Lines, NEW j \in ActiveOn(l)', NEW k \in ActiveOn(l)'
               PROVE  j = k
    BY DEF AtMostOneActive
  <2>1. CASE l = session[s].line
    BY <1>5, <2>1
  <2>2. CASE l # session[s].line
    <3>1. j \in ActiveOn(l) /\ k \in ActiveOn(l)
      BY <1>1, <2>2 DEF Rows
    <3> QED
      BY <3>1 DEF SerialInv, AtMostOneActive
  <2> QED
    BY <2>1, <2>2
<1>7. NoneMissed'
  <2> SUFFICES ASSUME NEW u \in Sessions, Open(u)'
               PROVE  ActiveOn(session[u].line)' \subseteq session'[u].superseded
    BY DEF NoneMissed
  <2>1. u # s /\ session'[u] = session[u]
    BY <1>2 DEF Open
  <2>2. Open(u)
    BY <2>1 DEF Open
  <2>3. session[u].line \in Lines /\ session[u].line # session[s].line
    BY <2>1, <2>2 DEF Open, SerialInv, Inv, TypeOK, Write, LinesApart, Commit
  <2>4. PICK l \in Lines : l = session[u].line
    BY <2>3
  <2>5. ActiveOn(l)' = ActiveOn(l)
    BY <1>1, <2>3, <2>4 DEF Rows
  <2>6. ActiveOn(session[u].line)' = ActiveOn(l)'
    BY <2>1, <2>4 DEF ActiveOn
  <2>7. ActiveOn(l) \subseteq session[u].superseded
    BY <2>2, <2>4 DEF SerialInv, NoneMissed
  <2> QED
    BY <2>1, <2>5, <2>6, <2>7
<1> QED
  BY <1>6, <1>7

LEMMA NextSerial == SerialInv /\ LinesApart /\ [Next]_vars => SerialInv'
<1> SUFFICES ASSUME SerialInv, LinesApart, [Next]_vars PROVE NoneMissed' /\ AtMostOneActive'
  BY InvNext DEF SerialInv
<1>1. ASSUME NEW s \in Sessions, NEW l \in Lines, NEW label \in Labels, Register(s, l, label)
      PROVE  NoneMissed' /\ AtMostOneActive'
  <2> DEFINE w == [line |-> l, label |-> label, source |-> None, superseded |-> ActiveOn(l)]
  <2>1. w.superseded = ActiveOn(w.line)
    OBVIOUS
  <2>2. session' = [session EXCEPT ![s] = w] /\ UNCHANGED <<version, author>>
    BY <1>1 DEF Register
  <2> HIDE DEF w
  <2> QED
    BY <2>1, <2>2, OpenKeepsSerial
<1>2. ASSUME NEW s \in Sessions, NEW t \in Tenants, NEW i \in Ids, Rollback(s, t, i)
      PROVE  NoneMissed' /\ AtMostOneActive'
  <2> DEFINE l == <<t, version[i].line[2]>>
             w == [line |-> l, label |-> version[i].label, source |-> i,
                   superseded |-> ActiveOn(l)]
  <2>1. w.superseded = ActiveOn(w.line)
    OBVIOUS
  <2>2. session' = [session EXCEPT ![s] = w] /\ UNCHANGED <<version, author>>
    BY <1>2 DEF Rollback
  <2> HIDE DEF w
  <2> QED
    BY <2>1, <2>2, OpenKeepsSerial
<1>3. ASSUME NEW s \in Sessions, NEW i \in Ids, Commit(s, i)
      PROVE  NoneMissed' /\ AtMostOneActive'
  BY <1>3, CommitKeepsSerial
<1>4. ASSUME UNCHANGED <<version, author>>,
             \A s \in Sessions : Open(s)' => session'[s] = session[s]
      PROVE  NoneMissed' /\ AtMostOneActive'
  BY <1>4 DEF SerialInv, NoneMissed, AtMostOneActive, ActiveOn, Used, Open
<1>5. ASSUME NEW s \in Sessions, Abort(s)
      PROVE  NoneMissed' /\ AtMostOneActive'
  <2>1. \A u \in Sessions : Open(u)' => session'[u] = session[u]
    BY <1>5 DEF Abort, Open, SerialInv, Inv, TypeOK
  <2> QED
    BY <1>4, <1>5, <2>1 DEF Abort
<1>6. CASE UNCHANGED vars
  BY <1>4, <1>6 DEF vars
<1> QED
  BY <1>1, <1>2, <1>3, <1>5, <1>6 DEF Next

(* While requests about one model do not overlap, whatever else runs, a      *)
(* model once registered has exactly one active version: the overlap is all  *)
(* that register_model and rollback_model lack a lock for.                   *)
THEOREM SerialRegistry == Spec /\ []LinesApart => []ExactlyOneActive
<1>1. Init => SerialInv
  <2>1. Init => NoneMissed /\ AtMostOneActive
    BY DEF Init, NoneMissed, AtMostOneActive, ActiveOn, Used, Open
  <2> QED
    BY <2>1, InvInit DEF SerialInv
<1>2. SerialInv => ExactlyOneActive
  <2> SUFFICES ASSUME SerialInv, NEW i \in Ids, Used(i)
               PROVE  \E j \in Ids : ActiveOn(version[i].line) = {j}
    BY DEF ExactlyOneActive
  <2>1. PICK l \in Lines : l = version[i].line
    BY VersionIsUsed DEF SerialInv, Inv, TypeOK, Used, Version
  <2>2. PICK j : j \in ActiveOn(l)
    BY <2>1 DEF SerialInv, Inv, SomeActive
  <2>3. ActiveOn(l) = {j} /\ j \in Ids
    BY <2>2 DEF SerialInv, AtMostOneActive, ActiveOn
  <2> QED
    BY <2>1, <2>3
<1> QED
  BY <1>1, <1>2, NextSerial, PTL DEF Spec

=============================================================================
