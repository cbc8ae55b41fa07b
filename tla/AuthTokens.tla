----------------------------- MODULE AuthTokens -----------------------------
(***************************************************************************)
(* Sign-in and refresh (apps/api-gateway/main.py 253-362, libs/auth) over  *)
(* the tables tenants, users, roles, tenant_memberships, refresh_tokens.   *)
(*                                                                         *)
(* A request selects what it needs, adds what is missing and commits once. *)
(* A membership's id is made of the user and the role, without the tenant. *)
(***************************************************************************)
EXTENDS Naturals, FiniteSets

CONSTANTS
  Tenants, Users, Roles,
  Tokens,    \* ids of refresh tokens; their number bounds the tokens issued
  Sessions,  \* concurrent requests
  None       \* NULL

ASSUME NoneAssumption == None \notin Tenants /\ None \notin Tokens

VARIABLES
  named,       \* the committed rows of tenants, users and roles
  membership,  \* membership[<<u, r>>]: the tenant of the committed row, or None
  token,       \* token[k]: the committed refresh token k, or Unused
  session,     \* session[s]: the open request of s, or Idle
  author       \* author[k]: the session that committed token k, or None

vars == <<named, membership, token, session, author>>

Names == Tenants \cup Users \cup Roles

Memberships == Users \X Roles

(* The claims of a token: the user, the first of its tenants, its roles.     *)
(* A sign-in may name further tenants.  They are in the token, where         *)
(* get_tenant_context accepts any of them, but get neither rows nor          *)
(* memberships, and no step here reads them: they are left out.              *)
Claims == [user : Users, tenant : Tenants, roles : SUBSET Roles]

Unused == [state |-> "unused"]

Token == [state : {"active", "revoked"}, claims : Claims, parent : Tokens \cup {None}]

Idle == [kind |-> "idle"]

SigningIn == [kind : {"sign-in"}, claims : Claims, added : SUBSET Names,
              joined : SUBSET Memberships]

Refreshing == [kind : {"refresh"}, token : Tokens]

TypeOK ==
  /\ named \in SUBSET Names
  /\ membership \in [Memberships -> Tenants \cup {None}]
  /\ token \in [Tokens -> Token \cup {Unused}]
  /\ session \in [Sessions -> {Idle} \cup SigningIn \cup Refreshing]
  /\ author \in [Tokens -> Sessions \cup {None}]

Used(k) == token[k] # Unused

Init ==
  /\ named = {}
  /\ membership = [m \in Memberships |-> None]
  /\ token = [k \in Tokens |-> Unused]
  /\ session = [s \in Sessions |-> Idle]
  /\ author = [k \in Tokens |-> None]

-----------------------------------------------------------------------------
(* _ensure_user_membership looks for the first tenant, the user, the roles   *)
(* and the user's memberships in that tenant, and adds those it misses.      *)
SignIn(s, c) ==
  /\ session[s] = Idle
  /\ session' = [session EXCEPT ![s] =
       [kind |-> "sign-in", claims |-> c,
        added |-> ({c.tenant, c.user} \cup c.roles) \ named,
        joined |-> {m \in {c.user} \X c.roles : membership[m] # c.tenant}]]
  /\ UNCHANGED <<named, membership, token, author>>

\* Mutant: the membership's id is not checked, the row of the other tenant is
\* overwritten.
IdsAreFreeForNames(s) == session[s].added \cap named = {}

(* No row with the id of one that was added, nor a membership of that user   *)
(* and role in any tenant.                                                   *)
IdsAreFree(s) ==
  /\ session[s].added \cap named = {}
  /\ \A m \in session[s].joined : membership[m] = None

(* One commit; with an id taken meanwhile, or by the membership of another   *)
(* tenant, all of it fails and the request ends with Abort.                  *)
CommitSignIn(s, k) ==
  /\ session[s].kind = "sign-in"
  /\ IdsAreFree(s)
  /\ ~Used(k)
  /\ LET c == session[s].claims
     IN /\ named' = named \cup session[s].added
        /\ membership' = [m \in Memberships |->
             IF m \in session[s].joined THEN c.tenant ELSE membership[m]]
        /\ token' = [token EXCEPT ![k] = [state |-> "active", claims |-> c, parent |-> None]]
  /\ author' = [author EXCEPT ![k] = s]
  /\ session' = [session EXCEPT ![s] = Idle]

-----------------------------------------------------------------------------
\* Mutant: the row is looked up, but not whether it is revoked.
RefreshAny(s, k) ==
  /\ session[s] = Idle
  /\ Used(k)
  /\ session' = [session EXCEPT ![s] = [kind |-> "refresh", token |-> k]]
  /\ UNCHANGED <<named, membership, token, author>>

(* A token that is missing, revoked or expired is refused before anything    *)
(* happens.  (Expiry only adds refusals.)                                    *)
Refresh(s, k) ==
  /\ session[s] = Idle
  /\ Used(k) /\ token[k].state = "active"
  /\ session' = [session EXCEPT ![s] = [kind |-> "refresh", token |-> k]]
  /\ UNCHANGED <<named, membership, token, author>>

\* Mutant: the new row leaves revoked unset.
RotatedUnset(k, new) ==
  [token EXCEPT ![k].state = "revoked",
                ![new] = [state |-> "unset", claims |-> token[k].claims, parent |-> k]]

\* Mutant: the old token is not revoked.
RotatedOnly(k, new) ==
  [token EXCEPT ![new] = [state |-> "active", claims |-> token[k].claims, parent |-> k]]

(* The new row carries the claims of the old one, which is revoked with it.  *)
Rotated(k, new) ==
  [token EXCEPT ![k].state = "revoked",
                ![new] = [state |-> "active", claims |-> token[k].claims, parent |-> k]]

CommitRefresh(s, new) ==
  /\ session[s].kind = "refresh"
  /\ ~Used(new)
  /\ token' = Rotated(session[s].token, new)
  /\ author' = [author EXCEPT ![new] = s]
  /\ session' = [session EXCEPT ![s] = Idle]
  /\ UNCHANGED <<named, membership>>

(* A commit fails, the request is killed.                                    *)
Abort(s) ==
  /\ session[s] # Idle
  /\ session' = [session EXCEPT ![s] = Idle]
  /\ UNCHANGED <<named, membership, token, author>>

Next ==
  \E s \in Sessions :
    \/ \E c \in Claims : SignIn(s, c)
    \/ \E k \in Tokens : CommitSignIn(s, k) \/ Refresh(s, k) \/ CommitRefresh(s, k)
    \/ Abort(s)

Spec == Init /\ [][Next]_vars

-----------------------------------------------------------------------------
SuccessorsOf(k) == {n \in Tokens : Used(n) /\ token[n].parent = k}

(* A token is revoked just when a refresh with it was committed: a request   *)
(* that died took nothing, and none left its old token usable.               *)
RevokedWhenRefreshed ==
  \A k \in Tokens : Used(k) =>
    (token[k].state = "revoked" <=> SuccessorsOf(k) # {})

(* One session refreshes a token once; several successors are the work of    *)
(* requests that overlapped.                                                 *)
OneSuccessorPerSession ==
  \A k \in Tokens : \A m, n \in SuccessorsOf(k) : author[m] = author[n] => m = n

(* Whoever holds a token, however often refreshed, is a member of its first  *)
(* tenant in each of its roles, and tenant, user and roles are there: two    *)
(* sign-ins that add the same rows, or one role in two tenants, do not both  *)
(* commit.                                                                   *)
MembershipBacksToken ==
  \A k \in Tokens : Used(k) =>
    LET c == token[k].claims
    IN /\ {c.tenant, c.user} \cup c.roles \subseteq named
       /\ \A r \in c.roles : membership[<<c.user, r>>] = c.tenant

(* What is committed is never taken back, whatever stale rows a request      *)
(* holds: names stay, a membership keeps its tenant, a token its claims and  *)
(* parent, and a revoked token is not usable again.                          *)
CommittedStays ==
  [][/\ named \subseteq named'
     /\ \A m \in Memberships : membership[m] # None => membership'[m] = membership[m]
     /\ \A k \in Tokens : Used(k) =>
          token'[k] \in {token[k], [token[k] EXCEPT !.state = "revoked"]}]_vars

(* No two requests refresh one token at a time.  Nothing in the code sees to *)
(* it.                                                                       *)
RefreshesApart ==
  \A s, u \in Sessions :
    /\ session[s].kind = "refresh" /\ session[u].kind = "refresh"
    /\ session[s].token = session[u].token
    => s = u

(* A token was exchanged for at most one other.                              *)
OneSuccessor == \A k \in Tokens : \A m, n \in SuccessorsOf(k) : m = n

=============================================================================
