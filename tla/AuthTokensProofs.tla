-------------------------- MODULE AuthTokensProofs --------------------------
(***************************************************************************)
(* Safety of AuthTokens for any tenants, users, roles, tokens, sessions.   *)
(***************************************************************************)
EXTENDS AuthTokens, TLAPS

(* A session that is refreshing a token has not refreshed it before: it read *)
(* the token as active, and what others commit meanwhile is theirs.          *)
RefreshIsFirst ==
  \A s \in Sessions : session[s].kind = "refresh" =>
    /\ Used(session[s].token)
    /\ \A n \in SuccessorsOf(session[s].token) : author[n] # s

(* A parent is a row of the table.                                           *)
ParentUsed ==
  \A k \in Tokens : Used(k) /\ token[k].parent # None => Used(token[k].parent)

(* What a sign-in found, or adds, is what its claims need: a membership that *)
(* was found can not change any more.                                        *)
SignInCovers ==
  \A s \in Sessions : session[s].kind = "sign-in" =>
    LET c == session[s].claims
    IN /\ {c.tenant, c.user} \cup c.roles \subseteq named \cup session[s].added
       /\ session[s].joined \subseteq {c.user} \X c.roles
       /\ \A r \in c.roles :
            membership[<<c.user, r>>] = c.tenant \/ <<c.user, r>> \in session[s].joined

TokenInv ==
  /\ TypeOK
  /\ RefreshIsFirst
  /\ ParentUsed
  /\ SignInCovers
  /\ RevokedWhenRefreshed
  /\ OneSuccessorPerSession
  /\ MembershipBacksToken

-----------------------------------------------------------------------------
LEMMA InitInv == Init => TokenInv
<1> SUFFICES ASSUME Init PROVE TokenInv
  OBVIOUS
<1> USE DEF Init
<1>1. TypeOK
  BY DEF TypeOK, Memberships
<1>2. \A s \in Sessions : session[s] = Idle
  OBVIOUS
<1>3. \A k \in Tokens : ~Used(k)
  BY DEF Used
<1>4. RefreshIsFirst /\ SignInCovers
  BY <1>2 DEF RefreshIsFirst, SignInCovers, Idle
<1>5. ParentUsed /\ RevokedWhenRefreshed /\ MembershipBacksToken
  BY <1>3 DEF ParentUsed, RevokedWhenRefreshed, MembershipBacksToken
<1>6. OneSuccessorPerSession
  BY <1>3 DEF OneSuccessorPerSession, SuccessorsOf
<1> QED
  BY <1>1, <1>4, <1>5, <1>6 DEF TokenInv

(* A session opened, nothing committed.                                      *)
LEMMA SignInKeeps ==
  ASSUME TokenInv, NEW s \in Sessions, NEW c \in Claims, SignIn(s, c)
  PROVE  TokenInv'
<1> USE DEF SignIn
<1> DEFINE req == [kind |-> "sign-in", claims |-> c,
                   added |-> ({c.tenant, c.user} \cup c.roles) \ named,
                   joined |-> {m \in {c.user} \X c.roles : membership[m] # c.tenant}]
<1>1. TypeOK
  BY DEF TokenInv
<1>2. c.tenant \in Tenants /\ c.user \in Users /\ c.roles \subseteq Roles
  BY DEF Claims
<1>3. req \in SigningIn
  <2>1. req.added \in SUBSET Names
    BY <1>2 DEF Names
  <2>2. req.joined \in SUBSET Memberships
    BY <1>2 DEF Memberships
  <2> QED
    BY <2>1, <2>2 DEF SigningIn
<1>4. session' = [session EXCEPT ![s] = req]
  OBVIOUS
<1> HIDE DEF req
<1>5. TypeOK'
  BY <1>1, <1>3, <1>4 DEF TypeOK
<1>6. \A t \in Sessions : session'[t] = IF t = s THEN req ELSE session[t]
  BY <1>1, <1>4 DEF TypeOK
<1>7. RefreshIsFirst'
  BY <1>6 DEF TokenInv, RefreshIsFirst, SuccessorsOf, Used, req
<1>8. SignInCovers'
  BY <1>6 DEF TokenInv, SignInCovers, req
<1>9. ParentUsed' /\ RevokedWhenRefreshed' /\ OneSuccessorPerSession' /\ MembershipBacksToken'
  BY DEF TokenInv, ParentUsed, RevokedWhenRefreshed, OneSuccessorPerSession,
         MembershipBacksToken, SuccessorsOf, Used
<1> QED
  BY <1>5, <1>7, <1>8, <1>9 DEF TokenInv

LEMMA RefreshKeeps ==
  ASSUME TokenInv, NEW s \in Sessions, NEW k \in Tokens, Refresh(s, k)
  PROVE  TokenInv'
<1> USE DEF Refresh
<1>1. TypeOK
  BY DEF TokenInv
<1>2. TypeOK'
  BY <1>1 DEF TypeOK, Refreshing
<1>3. \A t \in Sessions :
        session'[t] = IF t = s THEN [kind |-> "refresh", token |-> k] ELSE session[t]
  BY <1>1 DEF TypeOK
<1>4. SuccessorsOf(k) = {}
  BY DEF TokenInv, RevokedWhenRefreshed
<1>5. RefreshIsFirst'
  BY <1>3, <1>4 DEF TokenInv, RefreshIsFirst, SuccessorsOf, Used
<1>6. SignInCovers'
  BY <1>3 DEF TokenInv, SignInCovers
<1>7. ParentUsed' /\ RevokedWhenRefreshed' /\ OneSuccessorPerSession' /\ MembershipBacksToken'
  BY DEF TokenInv, ParentUsed, RevokedWhenRefreshed, OneSuccessorPerSession,
         MembershipBacksToken, SuccessorsOf, Used
<1> QED
  BY <1>2, <1>5, <1>6, <1>7 DEF TokenInv

LEMMA AbortKeeps ==
  ASSUME TokenInv, NEW s \in Sessions, Abort(s)
  PROVE  TokenInv'
<1> USE DEF Abort
<1>1. TypeOK
  BY DEF TokenInv
<1>2. TypeOK'
  BY <1>1 DEF TypeOK
<1>3. \A t \in Sessions : session'[t] = IF t = s THEN Idle ELSE session[t]
  BY <1>1 DEF TypeOK
<1>4. RefreshIsFirst' /\ SignInCovers'
  BY <1>3 DEF TokenInv, RefreshIsFirst, SignInCovers, SuccessorsOf, Used, Idle
<1>5. ParentUsed' /\ RevokedWhenRefreshed' /\ OneSuccessorPerSession' /\ MembershipBacksToken'
  BY DEF TokenInv, ParentUsed, RevokedWhenRefreshed, OneSuccessorPerSession,
         MembershipBacksToken, SuccessorsOf, Used
<1> QED
  BY <1>2, <1>4, <1>5 DEF TokenInv

-----------------------------------------------------------------------------
(* A row without a parent leaves the successors of every token as they are.  *)
LEMMA FreshSuccessors ==
  ASSUME TypeOK, ParentUsed, NEW k \in Tokens, ~Used(k), NEW row \in Token,
         row.parent = None, token' = [token EXCEPT ![k] = row]
  PROVE  /\ \A n \in Tokens : token'[n] = IF n = k THEN row ELSE token[n]
         /\ \A n \in Tokens : Used(n)' <=> n = k \/ Used(n)
         /\ SuccessorsOf(k) = {}
         /\ \A n \in Tokens : SuccessorsOf(n)' = SuccessorsOf(n)
<1>1. \A n \in Tokens : token'[n] = IF n = k THEN row ELSE token[n]
  BY DEF TypeOK
<1>2. row # Unused
  BY DEF Token, Unused
<1>3. \A n \in Tokens : Used(n)' <=> n = k \/ Used(n)
  BY <1>1, <1>2 DEF Used
<1>4. SuccessorsOf(k) = {}
  BY NoneAssumption DEF SuccessorsOf, ParentUsed
<1>5. \A n \in Tokens : SuccessorsOf(n)' = SuccessorsOf(n)
  BY <1>1, <1>3, NoneAssumption DEF SuccessorsOf
<1> QED
  BY <1>1, <1>3, <1>4, <1>5

LEMMA CommitSignInKeeps ==
  ASSUME TokenInv, NEW s \in Sessions, NEW k \in Tokens, CommitSignIn(s, k)
  PROVE  TokenInv'
<1> USE DEF CommitSignIn
<1>1. TypeOK /\ ParentUsed
  BY DEF TokenInv
<1> DEFINE c == session[s].claims
           row == [state |-> "active", claims |-> c, parent |-> None]
<1>2. session[s] \in SigningIn
  BY <1>1 DEF TypeOK, Idle, Refreshing
<1>3. /\ c \in Claims /\ session[s].added \subseteq Names
      /\ session[s].joined \subseteq Memberships
  BY <1>2 DEF SigningIn
<1>4. row \in Token
  BY <1>3 DEF Token
<1>5. c.tenant \in Tenants /\ c.user \in Users /\ c.roles \subseteq Roles
  BY <1>3 DEF Claims
<1>6. /\ named' = named \cup session[s].added
      /\ membership' = [m \in Memberships |->
           IF m \in session[s].joined THEN c.tenant ELSE membership[m]]
      /\ token' = [token EXCEPT ![k] = row]
      /\ author' = [author EXCEPT ![k] = s]
      /\ session' = [session EXCEPT ![s] = Idle]
      /\ ~Used(k) /\ \A m \in session[s].joined : membership[m] = None
  BY DEF IdsAreFree
<1>7. /\ \A n \in Tokens : token'[n] = IF n = k THEN row ELSE token[n]
      /\ \A n \in Tokens : Used(n)' <=> n = k \/ Used(n)
      /\ SuccessorsOf(k) = {}
      /\ \A n \in Tokens : SuccessorsOf(n)' = SuccessorsOf(n)
  <2> row.parent = None
    OBVIOUS
  <2> HIDE DEF row
  <2> QED
    BY <1>1, <1>4, <1>6, FreshSuccessors
<1>8. \A n \in Tokens : author'[n] = IF n = k THEN s ELSE author[n]
  BY <1>1, <1>6 DEF TypeOK
<1>9. \A t \in Sessions : session'[t] = IF t = s THEN Idle ELSE session[t]
  BY <1>1, <1>6 DEF TypeOK
<1>10. \A m \in Memberships : membership[m] # None => membership'[m] = membership[m]
  BY <1>6
<1>11. SignInCovers /\ RefreshIsFirst /\ RevokedWhenRefreshed /\ OneSuccessorPerSession
       /\ MembershipBacksToken
  BY DEF TokenInv
<1>12. TypeOK'
  <2>1. named' \in SUBSET Names
    BY <1>1, <1>3, <1>6 DEF TypeOK
  <2>2. membership' \in [Memberships -> Tenants \cup {None}]
    BY <1>1, <1>5, <1>6 DEF TypeOK
  <2>3. token' \in [Tokens -> Token \cup {Unused}]
    BY <1>1, <1>4, <1>6 DEF TypeOK
  <2>4. session' \in [Sessions -> {Idle} \cup SigningIn \cup Refreshing]
    BY <1>1, <1>6 DEF TypeOK
  <2>5. author' \in [Tokens -> Sessions \cup {None}]
    BY <1>1, <1>6 DEF TypeOK
  <2> QED
    BY <2>1, <2>2, <2>3, <2>4, <2>5 DEF TypeOK
<1>13. ParentUsed'
  <2>1. \A n \in Tokens : Used(n) => token[n].parent \in Tokens \cup {None}
    BY <1>1 DEF TypeOK, Used, Token
  <2> QED
    BY <1>1, <1>7, <2>1 DEF ParentUsed, Used
<1>14. RevokedWhenRefreshed'
  BY <1>7, <1>11 DEF RevokedWhenRefreshed
<1>15. \A n \in Tokens : k \notin SuccessorsOf(n)
  BY <1>6 DEF SuccessorsOf
<1>16. \A n \in Tokens : \A m \in SuccessorsOf(n) : author'[m] = author[m]
  BY <1>8, <1>15 DEF SuccessorsOf
<1>17. OneSuccessorPerSession'
  BY <1>7, <1>11, <1>16 DEF OneSuccessorPerSession
<1>18. RefreshIsFirst'
  <2> SUFFICES ASSUME NEW t \in Sessions, session'[t].kind = "refresh",
                      NEW o \in Tokens, session'[t].token = o
               PROVE  Used(o)' /\ \A n \in SuccessorsOf(o)' : author'[n] # t
    <3>1. \A t \in Sessions : session'[t].kind = "refresh" => session'[t].token \in Tokens
      BY <1>12 DEF TypeOK, Idle, SigningIn, Refreshing
    <3> QED
      BY <3>1 DEF RefreshIsFirst
  <2>1. t # s /\ session'[t] = session[t]
    BY <1>9 DEF Idle
  <2>2. Used(o) /\ \A n \in SuccessorsOf(o) : author[n] # t
    BY <1>11, <2>1 DEF RefreshIsFirst
  <2> QED
    BY <1>7, <1>16, <2>2
<1>19. SignInCovers'
  <2> SUFFICES ASSUME NEW t \in Sessions, session'[t].kind = "sign-in"
               PROVE  LET d == session'[t].claims
                      IN /\ {d.tenant, d.user} \cup d.roles \subseteq named' \cup session'[t].added
                         /\ session'[t].joined \subseteq {d.user} \X d.roles
                         /\ \A r \in d.roles : \/ membership'[<<d.user, r>>] = d.tenant
                                               \/ <<d.user, r>> \in session'[t].joined
    BY DEF SignInCovers
  <2>1. session'[t] = session[t]
    BY <1>9 DEF Idle
  <2>2. session[t].claims \in Claims
    BY <1>1, <2>1 DEF TypeOK, Idle, SigningIn, Refreshing
  <2> DEFINE d == session[t].claims
  <2>3. d.tenant \in Tenants /\ d.user \in Users /\ d.roles \subseteq Roles
    BY <2>2 DEF Claims
  <2>4. /\ {d.tenant, d.user} \cup d.roles \subseteq named \cup session[t].added
        /\ session[t].joined \subseteq {d.user} \X d.roles
        /\ \A r \in d.roles :
             membership[<<d.user, r>>] = d.tenant \/ <<d.user, r>> \in session[t].joined
    BY <1>11, <2>1 DEF SignInCovers
  <2>5. \A r \in d.roles : <<d.user, r>> \in Memberships
    BY <2>3 DEF Memberships
  <2>6. d.tenant # None
    BY <2>3, NoneAssumption
  <2> QED
    BY <1>6, <1>10, <2>1, <2>4, <2>5, <2>6
<1>20. MembershipBacksToken'
  <2> SUFFICES ASSUME NEW n \in Tokens, Used(n)'
               PROVE  LET d == token'[n].claims
                      IN /\ {d.tenant, d.user} \cup d.roles \subseteq named'
                         /\ \A r \in d.roles : membership'[<<d.user, r>>] = d.tenant
    BY DEF MembershipBacksToken
  <2>1. CASE n = k
    <3>1. token'[n].claims = c
      BY <1>7, <2>1
    <3>2. /\ {c.tenant, c.user} \cup c.roles \subseteq named \cup session[s].added
          /\ \A r \in c.roles :
               membership[<<c.user, r>>] = c.tenant \/ <<c.user, r>> \in session[s].joined
      BY <1>11 DEF SignInCovers
    <3>3. \A r \in c.roles : <<c.user, r>> \in Memberships
      BY <1>5 DEF Memberships
    <3> QED
      BY <1>6, <3>1, <3>2, <3>3
  <2>2. CASE n # k
    <3>1. token'[n] = token[n] /\ Used(n)
      BY <1>7, <2>2
    <3> DEFINE d == token[n].claims
    <3>2. d \in Claims
      BY <1>1, <3>1 DEF TypeOK, Used, Token
    <3>3. d.tenant \in Tenants /\ d.user \in Users /\ d.roles \subseteq Roles
      BY <3>2 DEF Claims
    <3>4. /\ {d.tenant, d.user} \cup d.roles \subseteq named
          /\ \A r \in d.roles : membership[<<d.user, r>>] = d.tenant
      BY <1>11, <3>1 DEF MembershipBacksToken
    <3>5. \A r \in d.roles : <<d.user, r>> \in Memberships
      BY <3>3 DEF Memberships
    <3>6. d.tenant # None
      BY <3>3, NoneAssumption
    <3> QED
      BY <1>6, <1>10, <3>1, <3>4, <3>5, <3>6
  <2> QED
    BY <2>1, <2>2
<1> QED
  BY <1>12, <1>13, <1>14, <1>17, <1>18, <1>19, <1>20 DEF TokenInv

-----------------------------------------------------------------------------
(* What a refresh does to the table: the token it read is revoked, a new row *)
(* with its claims is there, and the new row is the only new successor.      *)
RefreshRows(s, k, new) ==
  /\ k = session[s].token /\ Used(k) /\ k # new
  /\ token'[k] = [token[k] EXCEPT !.state = "revoked"]
  /\ token'[new] = [state |-> "active", claims |-> token[k].claims, parent |-> k]
  /\ \A n \in Tokens \ {k, new} : token'[n] = token[n]
  /\ \A n \in Tokens \ {new} : Used(n) =>
       token'[n].parent = token[n].parent /\ token'[n].claims = token[n].claims
  /\ \A n \in Tokens : Used(n)' <=> n = new \/ Used(n)
  /\ SuccessorsOf(k)' = SuccessorsOf(k) \cup {new}
  /\ \A n \in Tokens \ {k} : SuccessorsOf(n)' = SuccessorsOf(n)
  /\ SuccessorsOf(new) = {}

LEMMA CommitRefreshRows ==
  ASSUME TokenInv, NEW s \in Sessions, NEW new \in Tokens, CommitRefresh(s, new)
  PROVE  \E k \in Tokens : RefreshRows(s, k, new)
<1> USE DEF CommitRefresh
<1>1. TypeOK /\ ParentUsed /\ SignInCovers /\ RefreshIsFirst /\ RevokedWhenRefreshed
      /\ OneSuccessorPerSession /\ MembershipBacksToken
  BY DEF TokenInv
<1>2. PICK k \in Tokens : k = session[s].token
  BY <1>1 DEF TypeOK, Idle, SigningIn, Refreshing
<1> DEFINE row == [state |-> "active", claims |-> token[k].claims, parent |-> k]
<1>3. Used(k) /\ \A n \in SuccessorsOf(k) : author[n] # s
  BY <1>1, <1>2 DEF RefreshIsFirst
<1>4. token[k] \in Token /\ k # new /\ ~Used(new)
  BY <1>1, <1>2, <1>3 DEF TypeOK, Used
<1>5. row \in Token /\ [token[k] EXCEPT !.state = "revoked"] \in Token
  BY <1>2, <1>4 DEF Token
<1>6. token' = [token EXCEPT ![k].state = "revoked", ![new] = row]
  BY <1>2 DEF Rotated
<1>7. \A n \in Tokens : token'[n] = IF n = new THEN row
                        ELSE IF n = k THEN [token[k] EXCEPT !.state = "revoked"]
                        ELSE token[n]
  BY <1>1, <1>2, <1>4, <1>6 DEF TypeOK
<1>8. /\ token'[new].parent = k /\ token'[new].state = "active"
      /\ token'[new].claims = token[k].claims
      /\ token'[k].state = "revoked"
      /\ \A n \in Tokens \ {k, new} : token'[n] = token[n]
      /\ \A n \in Tokens \ {new} : Used(n) =>
           token'[n].parent = token[n].parent /\ token'[n].claims = token[n].claims
  BY <1>2, <1>4, <1>7 DEF Token
<1>9. \A n \in Tokens : Used(n)' <=> n = new \/ Used(n)
  <2>1. row # Unused /\ [token[k] EXCEPT !.state = "revoked"] # Unused
    BY <1>5 DEF Token, Unused
  <2> QED
    BY <1>3, <1>7, <2>1 DEF Used
<1>10. /\ SuccessorsOf(k)' = SuccessorsOf(k) \cup {new}
       /\ \A n \in Tokens \ {k} : SuccessorsOf(n)' = SuccessorsOf(n)
       /\ SuccessorsOf(new) = {}
  <2>1. SuccessorsOf(new) = {}
    BY <1>1, <1>4, NoneAssumption DEF SuccessorsOf, ParentUsed
  <2>2. \A m, n \in Tokens :
          m \in SuccessorsOf(n)' <=> m \in SuccessorsOf(n) \/ (m = new /\ n = k)
    BY <1>4, <1>8, <1>9 DEF SuccessorsOf
  <2>3. \A n \in Tokens : SuccessorsOf(n) \subseteq Tokens /\ SuccessorsOf(n)' \subseteq Tokens
    BY DEF SuccessorsOf
  <2>4. SuccessorsOf(k)' = SuccessorsOf(k) \cup {new}
    BY <1>2, <2>2, <2>3
  <2>5. ASSUME NEW n \in Tokens \ {k}
        PROVE  SuccessorsOf(n)' = SuccessorsOf(n)
    BY <2>2, <2>3
  <2> QED
    BY <2>1, <2>4, <2>5
<1> QED
  BY <1>2, <1>3, <1>4, <1>7, <1>8, <1>9, <1>10 DEF RefreshRows

LEMMA CommitRefreshKeeps ==
  ASSUME TokenInv, NEW s \in Sessions, NEW new \in Tokens, CommitRefresh(s, new)
  PROVE  TokenInv'
<1> USE DEF CommitRefresh
<1>1. TypeOK /\ ParentUsed /\ SignInCovers /\ RefreshIsFirst /\ RevokedWhenRefreshed
      /\ OneSuccessorPerSession /\ MembershipBacksToken
  BY DEF TokenInv
<1>2. PICK k \in Tokens : RefreshRows(s, k, new)
  BY CommitRefreshRows
<1> DEFINE row == [state |-> "active", claims |-> token[k].claims, parent |-> k]
<1>3. /\ k = session[s].token /\ Used(k)
      /\ \A n \in SuccessorsOf(k) : author[n] # s
  BY <1>1, <1>2 DEF RefreshIsFirst, RefreshRows
<1>4. token[k] \in Token /\ k # new /\ ~Used(new)
  BY <1>1, <1>2, <1>3 DEF TypeOK, Used, RefreshRows
<1>5. row \in Token /\ [token[k] EXCEPT !.state = "revoked"] \in Token
  BY <1>2, <1>4 DEF Token
<1>6. token' = [token EXCEPT ![k].state = "revoked", ![new] = row]
  BY <1>3 DEF Rotated
<1>7. \A n \in Tokens : token'[n] = IF n = new THEN row
                        ELSE IF n = k THEN [token[k] EXCEPT !.state = "revoked"]
                        ELSE token[n]
  BY <1>2 DEF RefreshRows
<1>8. /\ token'[new].parent = k /\ token'[new].state = "active"
      /\ token'[new].claims = token[k].claims
      /\ token'[k].state = "revoked"
      /\ \A n \in Tokens \ {k, new} : token'[n] = token[n]
      /\ \A n \in Tokens \ {new} : Used(n) =>
           token'[n].parent = token[n].parent /\ token'[n].claims = token[n].claims
  BY <1>2, <1>4, <1>7 DEF Token, RefreshRows
<1>9. \A n \in Tokens : Used(n)' <=> n = new \/ Used(n)
  BY <1>2 DEF RefreshRows
<1>10. /\ SuccessorsOf(k)' = SuccessorsOf(k) \cup {new}
       /\ \A n \in Tokens \ {k} : SuccessorsOf(n)' = SuccessorsOf(n)
       /\ SuccessorsOf(new) = {}
  BY <1>2 DEF RefreshRows
<1>11. \A n \in Tokens : author'[n] = IF n = new THEN s ELSE author[n]
  BY <1>1 DEF TypeOK
<1>12. \A t \in Sessions : session'[t] = IF t = s THEN Idle ELSE session[t]
  BY <1>1 DEF TypeOK
<1>13. \A n \in Tokens : new \notin SuccessorsOf(n) /\ SuccessorsOf(n) \subseteq Tokens
  BY <1>4 DEF SuccessorsOf
<1> HIDE DEF row
<1>14. TypeOK'
  <2>1. token' \in [Tokens -> Token \cup {Unused}]
    BY <1>1, <1>2, <1>5, <1>6, <1>7 DEF TypeOK
  <2>2. session' \in [Sessions -> {Idle} \cup SigningIn \cup Refreshing]
    BY <1>1 DEF TypeOK
  <2>3. author' \in [Tokens -> Sessions \cup {None}]
    BY <1>1 DEF TypeOK
  <2> QED
    BY <1>1, <2>1, <2>2, <2>3 DEF TypeOK
<1>15. ParentUsed'
  <2>1. \A n \in Tokens : Used(n) => token[n].parent \in Tokens \cup {None}
    BY <1>1 DEF TypeOK, Used, Token
  <2> QED
    BY <1>1, <1>2, <1>3, <1>8, <1>9, <2>1 DEF ParentUsed, Used
<1>16. RevokedWhenRefreshed'
  <2> SUFFICES ASSUME NEW n \in Tokens, Used(n)'
               PROVE  token'[n].state = "revoked" <=> SuccessorsOf(n)' # {}
    BY DEF RevokedWhenRefreshed
  <2>1. CASE n = new
    BY <1>4, <1>8, <1>10, <2>1
  <2>2. CASE n = k
    BY <1>8, <1>10, <2>2
  <2>3. CASE n \notin {k, new}
    BY <1>1, <1>8, <1>9, <1>10, <2>3 DEF RevokedWhenRefreshed
  <2> QED
    BY <2>1, <2>2, <2>3
<1>17. OneSuccessorPerSession'
  <2> SUFFICES ASSUME NEW n \in Tokens, NEW a \in SuccessorsOf(n)', NEW b \in SuccessorsOf(n)',
                      author'[a] = author'[b]
               PROVE  a = b
    BY DEF OneSuccessorPerSession
  <2>1. CASE n # k
    BY <1>1, <1>10, <1>11, <1>13, <2>1 DEF OneSuccessorPerSession
  <2>2. CASE n = k
    BY <1>1, <1>2, <1>3, <1>10, <1>11, <1>13, <2>2 DEF OneSuccessorPerSession
  <2> QED
    BY <2>1, <2>2
<1>18. RefreshIsFirst'
  <2> SUFFICES ASSUME NEW t \in Sessions, session'[t].kind = "refresh",
                      NEW o \in Tokens, session'[t].token = o
               PROVE  Used(o)' /\ \A n \in SuccessorsOf(o)' : author'[n] # t
    <3>1. \A t \in Sessions : session'[t].kind = "refresh" => session'[t].token \in Tokens
      BY <1>14 DEF TypeOK, Idle, SigningIn, Refreshing
    <3> QED
      BY <3>1 DEF RefreshIsFirst
  <2>1. t # s /\ session'[t] = session[t]
    BY <1>12 DEF Idle
  <2>2. Used(o) /\ \A n \in SuccessorsOf(o) : author[n] # t
    BY <1>1, <2>1 DEF RefreshIsFirst
  <2>3. \A n \in SuccessorsOf(o)' : n \in SuccessorsOf(o) \/ n = new
    BY <1>10
  <2> QED
    BY <1>4, <1>9, <1>11, <1>13, <2>1, <2>2, <2>3
<1>19. SignInCovers'
  <2>1. \A t \in Sessions : session'[t].kind = "sign-in" => session'[t] = session[t]
    BY <1>12 DEF Idle
  <2> QED
    BY <1>1, <2>1 DEF SignInCovers
<1>20. MembershipBacksToken'
  <2> SUFFICES ASSUME NEW n \in Tokens, Used(n)'
               PROVE  LET d == token'[n].claims
                      IN /\ {d.tenant, d.user} \cup d.roles \subseteq named'
                         /\ \A r \in d.roles : membership'[<<d.user, r>>] = d.tenant
    BY DEF MembershipBacksToken
  <2>1. PICK o \in Tokens : Used(o) /\ token'[n].claims = token[o].claims
    BY <1>2, <1>3, <1>8, <1>9
  <2> QED
    BY <1>1, <2>1 DEF MembershipBacksToken
<1> QED
  BY <1>14, <1>15, <1>16, <1>17, <1>18, <1>19, <1>20 DEF TokenInv

-----------------------------------------------------------------------------
LEMMA NextKeeps == TokenInv /\ [Next]_vars => TokenInv'
<1> SUFFICES ASSUME TokenInv, [Next]_vars PROVE TokenInv'
  OBVIOUS
<1>1. ASSUME NEW s \in Sessions, NEW c \in Claims, SignIn(s, c) PROVE TokenInv'
  BY <1>1, SignInKeeps
<1>2. ASSUME NEW s \in Sessions, NEW k \in Tokens, CommitSignIn(s, k) PROVE TokenInv'
  BY <1>2, CommitSignInKeeps
<1>3. ASSUME NEW s \in Sessions, NEW k \in Tokens, Refresh(s, k) PROVE TokenInv'
  BY <1>3, RefreshKeeps
<1>4. ASSUME NEW s \in Sessions, NEW k \in Tokens, CommitRefresh(s, k) PROVE TokenInv'
  BY <1>4, CommitRefreshKeeps
<1>5. ASSUME NEW s \in Sessions, Abort(s) PROVE TokenInv'
  BY <1>5, AbortKeeps
<1>6. CASE UNCHANGED vars
  BY <1>6 DEF vars, TokenInv, TypeOK, RefreshIsFirst, ParentUsed, SignInCovers,
              RevokedWhenRefreshed, OneSuccessorPerSession, MembershipBacksToken,
              SuccessorsOf, Used
<1> QED
  BY <1>1, <1>2, <1>3, <1>4, <1>5, <1>6 DEF Next

(* The inductive invariant, from which the theorems below follow.            *)
THEOREM TokenInvariance == Spec => []TokenInv
BY InitInv, NextKeeps, PTL DEF Spec

(* The tables and the open requests stay of their types                      *)
(* (main.py 253-362, libs/common/models.py).                                 *)
THEOREM TokenTypeCorrect == Spec => []TypeOK
<1>1. TokenInv => TypeOK
  BY DEF TokenInv
<1> QED
  BY <1>1, TokenInvariance, PTL

(* A refresh token is revoked just when a refresh with it was committed      *)
(* (main.py 344-358).                                                        *)
THEOREM RevocationExact == Spec => []RevokedWhenRefreshed
<1>1. TokenInv => RevokedWhenRefreshed
  BY DEF TokenInv
<1> QED
  BY <1>1, TokenInvariance, PTL

(* Two successors of one token are always the work of two requests that      *)
(* overlapped: one client's next attempt is refused (main.py 334-342).       *)
THEOREM SuccessorUnique == Spec => []OneSuccessorPerSession
<1>1. TokenInv => OneSuccessorPerSession
  BY DEF TokenInv
<1> QED
  BY <1>1, TokenInvariance, PTL

(* The first tenant and the roles a token claims are memberships in the      *)
(* table, whatever sign-ins overlapped (main.py 253-292).                    *)
THEOREM MembershipSound == Spec => []MembershipBacksToken
<1>1. TokenInv => MembershipBacksToken
  BY DEF TokenInv
<1> QED
  BY <1>1, TokenInvariance, PTL

-----------------------------------------------------------------------------
LEMMA SignInRowsStay ==
  ASSUME TokenInv, NEW s \in Sessions, NEW k \in Tokens, CommitSignIn(s, k)
  PROVE  /\ named \subseteq named'
         /\ \A m \in Memberships : membership[m] # None => membership'[m] = membership[m]
         /\ \A n \in Tokens : Used(n) => token'[n] = token[n]
<1>1. /\ named \subseteq named'
      /\ membership' = [m \in Memberships |->
           IF m \in session[s].joined THEN session[s].claims.tenant ELSE membership[m]]
      /\ \A m \in session[s].joined : membership[m] = None
      /\ \A n \in Tokens : n # k => token'[n] = token[n]
  BY DEF CommitSignIn, IdsAreFree, TokenInv, TypeOK
<1>2. ~Used(k)
  BY DEF CommitSignIn
<1> QED
  BY <1>1, <1>2

(* Nothing committed is taken back (_ensure_user_membership,                 *)
(* refresh_access_token): the ids of rows that are added must be free, and a *)
(* refresh writes to the row it read nothing but its revocation.             *)
THEOREM CommitsStay == Spec => CommittedStays
<1> DEFINE Stays ==
      /\ named \subseteq named'
      /\ \A m \in Memberships : membership[m] # None => membership'[m] = membership[m]
      /\ \A k \in Tokens : Used(k) =>
           token'[k] \in {token[k], [token[k] EXCEPT !.state = "revoked"]}
<1>1. TokenInv /\ [Next]_vars => [Stays]_vars
  <2> SUFFICES ASSUME TokenInv, [Next]_vars PROVE Stays
    OBVIOUS
  <2>1. ASSUME NEW s \in Sessions, NEW k \in Tokens, CommitSignIn(s, k) PROVE Stays
    BY <2>1, SignInRowsStay
  <2>2. ASSUME NEW s \in Sessions, NEW new \in Tokens, CommitRefresh(s, new) PROVE Stays
    <3>1. PICK k \in Tokens : RefreshRows(s, k, new)
      BY <2>2, CommitRefreshRows
    <3>2. ~Used(new) /\ UNCHANGED <<named, membership>>
      BY <2>2 DEF CommitRefresh
    <3> QED
      BY <3>1, <3>2 DEF RefreshRows
  <2>3. CASE UNCHANGED <<named, membership, token>>
    BY <2>3
  <2> HIDE DEF Stays
  <2> QED
    BY <2>1, <2>2, <2>3 DEF Next, SignIn, Refresh, Abort, vars
<1> QED
  BY <1>1, TokenInvariance, PTL DEF Spec, CommittedStays

(* Refreshes of one token that do not overlap: an open one found its token   *)
(* not exchanged, and nobody else exchanges it meanwhile.                    *)
NoneExchanged ==
  \A s \in Sessions : \A k \in Tokens :
    session[s].kind = "refresh" /\ session[s].token = k => SuccessorsOf(k) = {}

LEMMA NextApart ==
  ASSUME TokenInv, NoneExchanged, OneSuccessor, RefreshesApart, [Next]_vars
  PROVE  NoneExchanged' /\ OneSuccessor'
<1>1. TypeOK /\ ParentUsed
  BY DEF TokenInv
<1>2. ASSUME NEW s \in Sessions, NEW new \in Tokens, CommitRefresh(s, new)
      PROVE  NoneExchanged' /\ OneSuccessor'
  <2>1. PICK k \in Tokens : RefreshRows(s, k, new)
    BY <1>2, CommitRefreshRows
  <2>2. \A t \in Sessions : session'[t] = IF t = s THEN Idle ELSE session[t]
    BY <1>1, <1>2 DEF CommitRefresh, TypeOK
  <2>3. session[s].kind = "refresh" /\ session[s].token = k /\ ~Used(new)
    BY <1>2, <2>1 DEF CommitRefresh, RefreshRows
  <2>4. SuccessorsOf(k)' = {new}
    BY <2>1, <2>3 DEF RefreshRows, NoneExchanged
  <2>5. \A n \in Tokens : n # k => SuccessorsOf(n)' = SuccessorsOf(n)
    BY <2>1 DEF RefreshRows
  <2>6. OneSuccessor'
    BY <2>4, <2>5 DEF OneSuccessor
  <2>7. NoneExchanged'
    BY <2>2, <2>3, <2>5 DEF NoneExchanged, RefreshesApart, Idle
  <2> QED
    BY <2>6, <2>7
<1>3. ASSUME \A n \in Tokens : SuccessorsOf(n)' = SuccessorsOf(n),
             \A t \in Sessions : \A k \in Tokens :
               session'[t].kind = "refresh" /\ session'[t].token = k =>
                 \/ session'[t] = session[t]
                 \/ SuccessorsOf(k) = {}
      PROVE  NoneExchanged' /\ OneSuccessor'
  BY <1>3 DEF NoneExchanged, OneSuccessor
<1>4. ASSUME NEW s \in Sessions, NEW k \in Tokens, CommitSignIn(s, k)
      PROVE  NoneExchanged' /\ OneSuccessor'
  <2> DEFINE row == [state |-> "active", claims |-> session[s].claims, parent |-> None]
  <2>1. session[s].claims \in Claims
    BY <1>1, <1>4 DEF CommitSignIn, TypeOK, Idle, SigningIn, Refreshing
  <2>2. row \in Token /\ row.parent = None
    BY <2>1 DEF Token
  <2>3. token' = [token EXCEPT ![k] = row] /\ ~Used(k)
    BY <1>4 DEF CommitSignIn
  <2> HIDE DEF row
  <2>4. \A n \in Tokens : SuccessorsOf(n)' = SuccessorsOf(n)
    BY <1>1, <2>2, <2>3, FreshSuccessors
  <2>5. \A t \in Sessions : session'[t] = IF t = s THEN Idle ELSE session[t]
    BY <1>1, <1>4 DEF CommitSignIn, TypeOK
  <2> QED
    BY <1>3, <2>4, <2>5 DEF Idle
<1>5. CASE UNCHANGED token /\ \E s \in Sessions : \A t \in Sessions :
             /\ t # s => session'[t] = session[t]
             /\ session'[s].kind = "refresh" =>
                  session'[s] = session[s] \/ token[session'[s].token].state = "active"
  <2>1. \A n \in Tokens : SuccessorsOf(n)' = SuccessorsOf(n)
    BY <1>5 DEF SuccessorsOf, Used
  <2>2. \A k \in Tokens : Used(k) /\ token[k].state = "active" => SuccessorsOf(k) = {}
    BY DEF TokenInv, RevokedWhenRefreshed
  <2>3. \A k \in Tokens : token[k].state = "active" => Used(k)
    BY DEF Used, Unused
  <2> QED
    BY <1>3, <1>5, <2>1, <2>2, <2>3
<1>6. ASSUME NEW s \in Sessions, NEW c \in Claims, SignIn(s, c)
      PROVE  NoneExchanged' /\ OneSuccessor'
  BY <1>1, <1>5, <1>6 DEF SignIn, TypeOK
<1>7. ASSUME NEW s \in Sessions, NEW k \in Tokens, Refresh(s, k)
      PROVE  NoneExchanged' /\ OneSuccessor'
  BY <1>1, <1>5, <1>7 DEF Refresh, TypeOK
<1>8. ASSUME NEW s \in Sessions, Abort(s)
      PROVE  NoneExchanged' /\ OneSuccessor'
  BY <1>1, <1>5, <1>8 DEF Abort, TypeOK, Idle
<1>9. CASE UNCHANGED vars
  BY <1>9 DEF vars, NoneExchanged, OneSuccessor, SuccessorsOf, Used
<1> QED
  BY <1>2, <1>4, <1>6, <1>7, <1>8, <1>9 DEF Next

(* While no two requests refresh one token at a time, whatever else runs, a  *)
(* token is exchanged for one other at most: the refreshes of a sign-in make *)
(* a chain (refresh_access_token, which takes no lock).                      *)
THEOREM SerialRefreshes == Spec /\ []RefreshesApart => []OneSuccessor
<1>1. Init => NoneExchanged /\ OneSuccessor
  BY DEF Init, NoneExchanged, OneSuccessor, SuccessorsOf, Used
<1> QED
  BY <1>1, NextApart, TokenInvariance, PTL DEF Spec

=============================================================================
