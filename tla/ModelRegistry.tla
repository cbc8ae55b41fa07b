---------------------------- MODULE ModelRegistry ----------------------------
(***************************************************************************)
(* The model registry: services/analytics/model_registry.py behind         *)
(* /api/v1/active-learning/models of apps/api-gateway/main.py, over the    *)
(* table model_versions.                                                   *)
(*                                                                         *)
(* Registering a version and rolling back to one both make a new active    *)
(* row and deactivate the active rows their session selected.  Nothing is  *)
(* locked and no constraint holds the number of active rows at one, so     *)
(* what a line has active depends on which sessions overlapped.            *)
(***************************************************************************)
EXTENDS Naturals

CONSTANTS
  Tenants,   \* tenant ids
  Models,    \* (domain, model_name) pairs
  Labels,    \* model_version labels
  Ids,       \* model_versions ids; their number bounds the rows made
  Sessions,  \* concurrent register and rollback requests
  None       \* NULL

ASSUME NoneAssumption == None \notin Ids /\ None \notin Sessions

VARIABLES
  version,  \* version[i]: the committed row i, or Unused
  session,  \* session[s]: what the open request of s is about to write, or Idle
  author    \* author[i]: the session that committed row i

vars == <<version, session, author>>

(* What is active is a matter of one tenant's model. *)
Lines == Tenants \X Models

Version == [line : Lines, label : Labels, status : {"active", "inactive"},
            rollback_of_id : Ids \cup {None}]

Unused == [status |-> "unused"]

Write == [line : Lines, label : Labels, source : Ids \cup {None}, superseded : SUBSET Ids]

Idle == [line |-> None]

TypeOK ==
  /\ version \in [Ids -> Version \cup {Unused}]
  /\ session \in [Sessions -> Write \cup {Idle}]
  /\ author \in [Ids -> Sessions \cup {None}]

Used(i) == version[i] # Unused

Open(s) == session[s] # Idle

Init ==
  /\ version = [i \in Ids |-> Unused]
  /\ session = [s \in Sessions |-> Idle]
  /\ author = [i \in Ids |-> None]

ActiveOn(l) == {i \in Ids : Used(i) /\ version[i].status = "active" /\ version[i].line = l}

\* Mutant: the versions that are active stay so.
RegisterBeside(s, l, label) ==
  /\ ~Open(s)
  /\ session' = [session EXCEPT ![s] =
                   [line |-> l, label |-> label, source |-> None, superseded |-> {}]]
  /\ UNCHANGED <<version, author>>

Register(s, l, label) ==
  /\ ~Open(s)
  /\ session' = [session EXCEPT ![s] =
                   [line |-> l, label |-> label, source |-> None, superseded |-> ActiveOn(l)]]
  /\ UNCHANGED <<version, author>>

\* Mutant: the target is looked up by id alone.
RollbackAnyTenant(s, t, i) ==
  /\ ~Open(s)
  /\ Used(i)
  /\ LET l == <<t, version[i].line[2]>>
     IN session' = [session EXCEPT ![s] =
                      [line |-> l, label |-> version[i].label, source |-> i,
                       superseded |-> ActiveOn(l)]]
  /\ UNCHANGED <<version, author>>

(* A request of tenant t for an id that is not one of t's is answered 404.   *)
(* The line and label of a row never change, so its two queries, the target  *)
(* and the active rows, are one step.                                        *)
Rollback(s, t, i) ==
  /\ ~Open(s)
  /\ Used(i)
  /\ version[i].line[1] = t
  /\ LET l == <<t, version[i].line[2]>>
     IN session' = [session EXCEPT ![s] =
                      [line |-> l, label |-> version[i].label, source |-> i,
                       superseded |-> ActiveOn(l)]]
  /\ UNCHANGED <<version, author>>

\* Mutant: a status the registry does not know.
RetiredArchived(v) == [v EXCEPT !.status = "archived"]

Retired(v) == [v EXCEPT !.status = "inactive"]

Made(w) == [line |-> w.line, label |-> w.label, status |-> "active", rollback_of_id |-> w.source]

\* Mutant: the new row is flushed before the active rows are selected, and is
\* one of them.
CommitAddedFirst(s, i) ==
  /\ Open(s)
  /\ ~Used(i)
  /\ version' = [j \in Ids |-> IF j = i THEN Retired(Made(session[s]))
                               ELSE IF j \in session[s].superseded THEN Retired(version[j])
                               ELSE version[j]]
  /\ author' = [author EXCEPT ![i] = s]
  /\ session' = [session EXCEPT ![s] = Idle]

\* Mutant: a rollback puts the version it names back in force as well.
CommitRestoring(s, i) ==
  /\ Open(s)
  /\ ~Used(i)
  /\ version' = [j \in Ids |-> IF j = i THEN Made(session[s])
                               ELSE IF j = session[s].source
                                    THEN [version[j] EXCEPT !.status = "active"]
                               ELSE IF j \in session[s].superseded THEN Retired(version[j])
                               ELSE version[j]]
  /\ author' = [author EXCEPT ![i] = s]
  /\ session' = [session EXCEPT ![s] = Idle]

Commit(s, i) ==
  /\ Open(s)
  /\ ~Used(i)
  /\ version' = [j \in Ids |-> IF j = i THEN Made(session[s])
                               ELSE IF j \in session[s].superseded THEN Retired(version[j])
                               ELSE version[j]]
  /\ author' = [author EXCEPT ![i] = s]
  /\ session' = [session EXCEPT ![s] = Idle]

(* The request dies before its commit. *)
Abort(s) ==
  /\ Open(s)
  /\ session' = [session EXCEPT ![s] = Idle]
  /\ UNCHANGED <<version, author>>

Next ==
  \E s \in Sessions :
    \/ \E l \in Lines, label \in Labels : Register(s, l, label)
    \/ \E t \in Tenants, i \in Ids : Rollback(s, t, i)
    \/ \E i \in Ids : Commit(s, i)
    \/ Abort(s)

Spec == Init /\ [][Next]_vars

-----------------------------------------------------------------------------
(* A model that was ever registered has an active version, however requests  *)
(* overlapped: no two of them deactivate each other's versions.              *)
SomeActive ==
  \A i \in Ids : Used(i) => ActiveOn(version[i].line) # {}

(* A session never leaves two versions of a model active: overlapping        *)
(* requests leave at most one active version each, and requests that run one *)
(* at a time leave exactly one.                                              *)
OneActivePerAuthor ==
  \A l \in Lines : \A i, j \in ActiveOn(l) : author[i] = author[j] => i = j

(* A rollback brings back the label of a version of the same tenant and      *)
(* model, never that of another tenant that knows the id.                    *)
RollbackSound ==
  \A i \in Ids :
    Used(i) /\ version[i].rollback_of_id # None =>
      LET j == version[i].rollback_of_id
      IN /\ Used(j)
         /\ version[j].line = version[i].line
         /\ version[j].label = version[i].label

(* No two requests about one model overlap.  Nothing in the code sees to it. *)
LinesApart ==
  \A s, u \in Sessions : Open(s) /\ Open(u) /\ session[s].line = session[u].line => s = u

(* A model that was ever registered has exactly one active version.          *)
ExactlyOneActive ==
  \A i \in Ids : Used(i) => \E j \in Ids : ActiveOn(version[i].line) = {j}

(* The registry is a history: a committed version is only ever retired, and  *)
(* what is active on a line changes only by a new version made on it, so a   *)
(* retired version never comes back and no request touches another line.     *)
HistoryKept ==
  [][/\ \A i \in Ids : Used(i) => version'[i] \in {version[i], Retired(version[i])}
     /\ \A l \in Lines : ActiveOn(l)' # ActiveOn(l) =>
          \E i \in Ids : ~Used(i) /\ i \in ActiveOn(l)' /\ ActiveOn(l)' \subseteq ActiveOn(l) \cup {i}]_vars

=============================================================================
