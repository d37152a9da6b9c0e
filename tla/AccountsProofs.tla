--------------------------- MODULE AccountsProofs ---------------------------
(***************************************************************************)
(* The invariants of Accounts, for any number of concurrent requests, any  *)
(* lifetimes and any number of accounts, invites and sessions.             *)
(***************************************************************************)
EXTENDS Accounts, FiniteSetTheorems, TLAPS

\* The access tokens that name one of the accounts 1 .. n.
Jwt(n) == [sub : 1 .. n, name : Names, admin : BOOLEAN, exp : Nat]

\* What GetByID returns of an account.
Account == [name : Names, admin : BOOLEAN]

\* An access token carries the name and rights of its account, while that lives.
Genuine(t, us) ==
    t.sub \in DOMAIN us => us[t.sub].name = t.name /\ us[t.sub].admin = t.admin

\* No token, sent or about to be sent, expires later than one minted at c would.
Fresh(t, c) == t.exp <= c + AccessTTL

\* What a request in flight knows is true of the accounts us, n of which were
\* created, at time c.
Informed(j, c, us, n) ==
    /\ j.pc = "issue" => j.token \in Jwt(n) /\ Fresh(j.token, c) /\ Genuine(j.token, us)
    /\ j.pc = "slide" => j.u \in 1 .. n /\ j.now \in Nat /\ j.now <= c
    /\ j.pc \in {"lookup", "mint", "invite", "delete"} => j.u \in 1 .. n
    /\ j.pc = "mint" => j.a \in Account /\ (j.u \in DOMAIN us => j.a = us[j.u])

RequestsOK == \A p \in Reqs : Informed(req[p], clock, user, seq.user)

\* An invite that is not marked used has admitted nobody.
InviteLog ==
    \A i \in DOMAIN invite : /\ invite[i].usedAt = Null => admitted[i] = {}
                             /\ \E x : admitted[i] \subseteq {x}

\* If the account of the token t is gone, t is old, or a refresh had found the account.
Old(t, gs) == t.sub \in DOMAIN gs /\ gs[t.sub].over = {} => t.exp <= gs[t.sub].at + AccessTTL

\* Every token that is out is fresh and genuine, and if its account is gone, old.
TokensOK == \A t \in jwts : Fresh(t, clock) /\ Genuine(t, user) /\ Old(t, gone)

\* Only a refresh that had found the account before it went may still sign for it.
OvertakenOK == \A u \in DOMAIN gone : Minting(u) \subseteq gone[u].over

SessionsOK ==
    \A r \in DOMAIN rt : rt[r].user \in DOMAIN user /\ rt[r].exp <= lastUse[r] + RefreshTTL

AInv == AccountsTypeOK /\ InviteLog /\ TokensOK /\ OvertakenOK /\ SessionsOK /\ RequestsOK

-----------------------------------------------------------------------------
(* What a request knows stays true *)

\* Time passes and accounts come and go, but no id changes hands.
LEMMA StaysInformed ==
    ASSUME NEW j, NEW c \in Nat, NEW us, NEW n \in Nat, NEW d \in Nat, NEW vs, NEW m \in Nat,
           Informed(j, c, us, n), c <= d, n <= m,
           \A u \in 1 .. n : u \in DOMAIN vs => u \in DOMAIN us /\ vs[u] = us[u]
    PROVE  Informed(j, d, vs, m)
<1>1. ASSUME NEW t \in Jwt(n), Fresh(t, c), Genuine(t, us)
      PROVE  t \in Jwt(m) /\ Fresh(t, d) /\ Genuine(t, vs)
  <2>1. t \in Jwt(m)
    BY <1>1 DEF Jwt
  <2>2. Fresh(t, d)
    BY <1>1, AccountsAssumption DEF Fresh, Jwt
  <2>3. Genuine(t, vs)
    BY <1>1 DEF Genuine, Jwt
  <2> QED
    BY <2>1, <2>2, <2>3
<1>2. j.pc = "issue" => j.token \in Jwt(m) /\ Fresh(j.token, d) /\ Genuine(j.token, vs)
  BY <1>1 DEF Informed
<1>3. j.pc = "slide" => j.u \in 1 .. m /\ j.now \in Nat /\ j.now <= d
  BY DEF Informed
<1>4. j.pc \in {"lookup", "mint", "invite", "delete"} => j.u \in 1 .. m
  BY DEF Informed
<1>5. j.pc = "mint" => j.a \in Account /\ (j.u \in DOMAIN vs => j.a = vs[j.u])
  BY DEF Informed
<1> QED
  BY <1>2, <1>3, <1>4, <1>5 DEF Informed

\* No id changes hands in a step.
Steady ==
    /\ clock <= clock' /\ seq.user <= seq'.user
    /\ \A u \in 1 .. seq.user : u \in DOMAIN user' => u \in DOMAIN user /\ user'[u] = user[u]

\* The requests after a step that moves request p on to j.
LEMMA OthersInformed ==
    ASSUME AInv, AccountsTypeOK', Steady, NEW p \in Reqs, NEW j, Goes(p, j),
           Informed(j, clock', user', seq'.user)
    PROVE  RequestsOK'
<1>1. clock \in Nat /\ clock' \in Nat /\ seq.user \in Nat /\ seq'.user \in Nat
  BY AccountsAssumption DEF AInv, AccountsTypeOK, Time
<1>2. ASSUME NEW q \in Reqs PROVE Informed(req'[q], clock', user', seq'.user)
  <2>1. req'[q] = IF q = p THEN j ELSE req[q]
    BY DEF AInv, AccountsTypeOK, Goes
  <2>2. Informed(req[q], clock, user, seq.user)
    BY DEF AInv, RequestsOK
  <2>3. Informed(req[q], clock', user', seq'.user)
    BY <1>1, <2>2, StaysInformed DEF Steady
  <2> QED
    BY <2>1, <2>3
<1> QED
  BY <1>2 DEF RequestsOK

\* A free request knows nothing.
LEMMA FreeInformed ==
    ASSUME NEW c, NEW us, NEW n PROVE Informed(Free, c, us, n)
  BY DEF Informed, Free

\* The same for a step that leaves the requests alone.
LEMMA AllInformed ==
    ASSUME AInv, AccountsTypeOK', Steady, UNCHANGED req
    PROVE  RequestsOK'
<1>1. clock \in Nat /\ clock' \in Nat /\ seq.user \in Nat /\ seq'.user \in Nat
  BY AccountsAssumption DEF AInv, AccountsTypeOK, Time
<1>2. ASSUME NEW q \in Reqs PROVE Informed(req'[q], clock', user', seq'.user)
  BY <1>1, StaysInformed DEF Steady, AInv, RequestsOK
<1> QED
  BY <1>2 DEF RequestsOK

\* A step after which request p is about to sign for a live account or for none
\* adds no signer for an account that is gone.
LEMMA NobodyOvertaken ==
    ASSUME AInv, NEW p \in Reqs, NEW j, Goes(p, j), j.pc = "mint" => j.u \in DOMAIN user,
           UNCHANGED gone
    PROVE  OvertakenOK'
<1> SUFFICES ASSUME NEW u \in DOMAIN gone, NEW q \in Reqs, req'[q].pc = "mint", req'[q].u = u
             PROVE  q \in gone[u].over
  BY DEF OvertakenOK, Minting
<1>1. u \notin DOMAIN user
  BY DEF AInv, AccountsTypeOK
<1>2. req'[q] = IF q = p THEN j ELSE req[q]
  BY DEF AInv, AccountsTypeOK, Goes
<1>3. req[q].pc = "mint" /\ req[q].u = u
  BY <1>1, <1>2
<1> QED
  BY <1>3 DEF AInv, OvertakenOK, Minting

\* Nor does a step that leaves the requests alone.
LEMMA SameOvertaken == ASSUME AInv, UNCHANGED <<req, gone>> PROVE OvertakenOK'
  BY DEF AInv, OvertakenOK, Minting

\* A request that ends signs nothing.
LEMMA FreeMintsNothing == Free.pc # "mint"
  BY DEF Free

-----------------------------------------------------------------------------
(* Steps that only move a request on *)

\* Nothing changes but one request, to one that is well informed.
LEMMA MovesOn ==
    ASSUME AInv, NEW p \in Reqs, NEW j, Informed(j, clock, user, seq.user), Goes(p, j),
           j.pc = "mint" => j.u \in DOMAIN user, UNCHANGED <<clock, tables, jwts, ghosts>>
    PROVE  AInv'
<1>1. AccountsTypeOK' /\ InviteLog'
  BY DEF AInv, AccountsTypeOK, InviteLog, Goes, tables, ghosts, Ids
<1>2. TokensOK' /\ SessionsOK'
  BY DEF AInv, TokensOK, SessionsOK, tables, ghosts
<1>3. Steady
  BY AccountsAssumption DEF Steady, tables, AInv, AccountsTypeOK, Time
<1>4. RequestsOK'
  BY <1>1, <1>3, OthersInformed DEF tables
<1>5. OvertakenOK'
  BY NobodyOvertaken DEF ghosts
<1> QED
  BY <1>1, <1>2, <1>4, <1>5 DEF AInv

\* The token jwt.Issue signs for an account as it was read.
LEMMA SignedOK ==
    ASSUME AInv, NEW u \in 1 .. seq.user, NEW a \in Account, u \in DOMAIN user => a = user[u]
    PROVE  /\ Signed(u, a) \in Jwt(seq.user) /\ Signed(u, a).sub = u
           /\ Fresh(Signed(u, a), clock) /\ Genuine(Signed(u, a), user)
<1>1. clock + AccessTTL \in Nat
  BY AccountsAssumption DEF AInv, AccountsTypeOK, Time
<1> QED
  BY <1>1, AccountsAssumption DEF Account, Signed, Jwt, Fresh, Genuine

\* What is read of a live account.
LEMMA AccountRead == ASSUME AInv, NEW u \in DOMAIN user PROVE u \in 1 .. seq.user /\ user[u] \in Account
  BY DEF AInv, AccountsTypeOK, Account, Ids

\* The first half of login keeps the invariant.
LEMMA LoginVerifyStep ==
    ASSUME AInv, NEW p \in Reqs, LoginVerify(p) PROVE AInv'
<1>1. PICK u \in DOMAIN user : Goes(p, [pc |-> "issue", token |-> Signed(u, user[u])])
  BY DEF LoginVerify
<1>2. Informed([pc |-> "issue", token |-> Signed(u, user[u])], clock, user, seq.user)
  BY AccountRead, SignedOK DEF Informed
<1> QED
  BY <1>1, <1>2, MovesOn DEF LoginVerify

\* Validate's SELECT keeps the invariant.
LEMMA RefreshSelectStep ==
    ASSUME AInv, NEW p \in Reqs, RefreshSelect(p) PROVE AInv'
<1>1. PICK r \in DOMAIN rt :
          Goes(p, [pc |-> "slide", r |-> r, u |-> rt[r].user, now |-> clock])
  BY DEF RefreshSelect
<1>2. Informed([pc |-> "slide", r |-> r, u |-> rt[r].user, now |-> clock], clock, user, seq.user)
  BY DEF Informed, AInv, AccountsTypeOK, Time, Ids
<1> QED
  BY <1>1, <1>2, MovesOn DEF RefreshSelect

\* AuthRequired and AdminRequired keep the invariant.
LEMMA AsAdminStep ==
    ASSUME AInv, NEW p \in Reqs, NEW pc \in {"invite", "delete"}, AsAdmin(p, pc) PROVE AInv'
<1>1. PICK t \in jwts : Goes(p, [pc |-> pc, u |-> t.sub])
  BY DEF AsAdmin
<1>2. Informed([pc |-> pc, u |-> t.sub], clock, user, seq.user)
  BY DEF Informed, AInv, AccountsTypeOK, Ids
<1> QED
  BY <1>1, <1>2, MovesOn DEF AsAdmin

\* A refused deletion keeps the invariant.
LEMMA DeleteRefusedStep ==
    ASSUME AInv, NEW p \in Reqs, DeleteRefused(p) PROVE AInv'
  BY FreeInformed, FreeMintsNothing, MovesOn DEF DeleteRefused, Answers, Goes

\* GetByID keeps the invariant: a ghost account gets no further.
LEMMA RefreshLookupStep ==
    ASSUME AInv, NEW p \in Reqs, RefreshLookup(p) PROVE AInv'
<1> DEFINE u == req[p].u
           found == [pc |-> "mint", u |-> u, a |-> user[u]]
<1>1. CASE u \notin DOMAIN user
  BY <1>1, FreeInformed, FreeMintsNothing, MovesOn DEF RefreshLookup, Answers, Goes
<1>2. CASE u \in DOMAIN user
  <2>1. Goes(p, found) /\ UNCHANGED <<clock, tables, jwts, ghosts>>
    BY <1>2 DEF RefreshLookup
  <2>2. Informed(found, clock, user, seq.user)
    BY <1>2, AccountRead DEF Informed
  <2>3. found.u \in DOMAIN user
    BY <1>2
  <2> HIDE DEF found
  <2> QED
    BY <2>1, <2>2, <2>3, MovesOn
<1> QED
  BY <1>1, <1>2

-----------------------------------------------------------------------------
(* Steps that hand out tokens *)

\* A new token joins those that are out.
LEMMA TokenAdded ==
    ASSUME AInv, NEW t \in Jwt(seq.user), Fresh(t, clock), Genuine(t, user), Old(t, gone),
           jwts' = jwts \cup {t}, UNCHANGED <<clock, user, gone, seq.user>>
    PROVE  TokensOK' /\ jwts' \subseteq Jwt(seq'.user)
<1>1. jwts \subseteq Jwt(seq.user)
  BY DEF AInv, AccountsTypeOK, Jwt, Ids
<1> QED
  BY <1>1 DEF AInv, TokensOK

\* The end of refresh keeps the invariant: if the account is gone, it was found before.
LEMMA RefreshMintStep ==
    ASSUME AInv, NEW p \in Reqs, RefreshMint(p) PROVE AInv'
<1> DEFINE u == req[p].u
           t == Signed(u, req[p].a)
<1>0. /\ UNCHANGED <<clock, user, invite, rt, seq, gone, admitted, lastUse>>
      /\ jwts' = jwts \cup {t} /\ Goes(p, Free)
      /\ req[p].pc = "mint"
  BY DEF RefreshMint, tables, ghosts, Answers, Goes
<1>1. /\ u \in 1 .. seq.user /\ req[p].a \in Account
      /\ u \in DOMAIN user => req[p].a = user[u]
  BY <1>0 DEF AInv, RequestsOK, Informed
<1>2. t \in Jwt(seq.user) /\ t.sub = u /\ Fresh(t, clock) /\ Genuine(t, user)
  BY <1>1, SignedOK
<1> HIDE DEF t
<1>3. Old(t, gone)
  <2>1. u \in DOMAIN gone => p \in gone[u].over
    BY <1>0 DEF AInv, OvertakenOK, Minting
  <2> QED
    BY <1>2, <2>1 DEF Old
<1>4. TokensOK' /\ jwts' \subseteq Jwt(seq'.user)
  BY <1>0, <1>2, <1>3, TokenAdded
<1>5. AccountsTypeOK'
  BY <1>0, <1>4 DEF AInv, AccountsTypeOK, Goes, Jwt, Ids
<1>6. InviteLog' /\ SessionsOK'
  BY <1>0 DEF AInv, InviteLog, SessionsOK
<1>7. Steady
  BY <1>0, AccountsAssumption DEF Steady, AInv, AccountsTypeOK, Time
<1>8. RequestsOK'
  BY <1>0, <1>5, <1>7, FreeInformed, OthersInformed
<1>9. OvertakenOK'
  BY <1>0, FreeMintsNothing, NobodyOvertaken
<1> QED
  BY <1>4, <1>5, <1>6, <1>8, <1>9 DEF AInv

\* The second half of login keeps the invariant: the foreign key stops a ghost.
LEMMA LoginIssueStep ==
    ASSUME AInv, NEW p \in Reqs, LoginIssue(p) PROVE AInv'
<1> DEFINE t == req[p].token
           r == seq.rt + 1
<1>1. CASE t.sub \notin DOMAIN user
  BY <1>1, FreeInformed, FreeMintsNothing, MovesOn DEF LoginIssue, Answers, Goes
<1>2. CASE t.sub \in DOMAIN user
  <2>0. /\ UNCHANGED <<clock, user, invite, gone, admitted>> /\ jwts' = jwts \cup {t}
        /\ seq' = [seq EXCEPT !.rt = r] /\ lastUse' = With(lastUse, r, clock)
        /\ rt' = With(rt, r, [user |-> t.sub, exp |-> clock + RefreshTTL, revoked |-> FALSE])
        /\ Goes(p, Free)
    BY <1>2 DEF LoginIssue, Answers, Goes
  <2>1. t \in Jwt(seq.user) /\ Fresh(t, clock) /\ Genuine(t, user) /\ Old(t, gone)
    <3>1. t.sub \notin DOMAIN gone
      BY <1>2 DEF AInv, AccountsTypeOK
    <3> QED
      BY <3>1 DEF AInv, RequestsOK, Informed, LoginIssue, Old
  <2>2. seq'.user = seq.user
    BY <2>0 DEF AInv, AccountsTypeOK
  <2>3. TokensOK' /\ jwts' \subseteq Jwt(seq'.user)
    BY <1>2, <2>0, <2>1, <2>2, TokenAdded
  <2>4. seq.rt \in Nat /\ clock \in Nat /\ seq.user \in Nat
    BY AccountsAssumption DEF AInv, AccountsTypeOK, Time
  <2>5. SessionsOK'
    <3> SUFFICES ASSUME NEW x \in DOMAIN rt'
                 PROVE  rt'[x].user \in DOMAIN user /\ rt'[x].exp <= lastUse'[x] + RefreshTTL
      BY <2>0 DEF SessionsOK
    <3>1. DOMAIN lastUse = DOMAIN rt /\ DOMAIN rt \subseteq 1 .. seq.rt
      BY DEF AInv, AccountsTypeOK, Ids
    <3>2. CASE x = r
      BY <1>2, <2>0, <2>4, <3>2, AccountsAssumption DEF With
    <3>3. CASE x # r
      BY <2>0, <3>1, <3>3 DEF With, AInv, SessionsOK
    <3> QED
      BY <3>2, <3>3
  <2>6. InviteLog'
    BY <2>0 DEF AInv, InviteLog
  <2>7. AccountsTypeOK'
    <3>1. seq' \in [user : 1 .. MaxId.user, invite : 0 .. MaxId.invite, rt : 0 .. MaxId.rt]
      BY <2>0, <2>4, AccountsAssumption DEF AInv, AccountsTypeOK, LoginIssue
    <3>2. Ids("rt") \subseteq Ids("rt")' /\ r \in Ids("rt")'
      BY <2>0, <2>4 DEF Ids, AInv, AccountsTypeOK
    <3>3. /\ rt' \in [DOMAIN rt' -> [user : Ids("user"), exp : Nat, revoked : BOOLEAN]]
          /\ DOMAIN rt' \subseteq Ids("rt")' /\ lastUse' \in [DOMAIN rt' -> Time]
      <4> DEFINE Row == [user : Ids("user"), exp : Nat, revoked : BOOLEAN]
                 new == [user |-> t.sub, exp |-> clock + RefreshTTL, revoked |-> FALSE]
      <4>1. new \in Row
        BY <2>1, <2>4, AccountsAssumption DEF Jwt, Ids
      <4>2. /\ rt \in [DOMAIN rt -> Row] /\ DOMAIN rt \subseteq Ids("rt")
            /\ lastUse \in [DOMAIN rt -> Time] /\ clock \in Time
        BY DEF AInv, AccountsTypeOK
      <4>3. rt' = With(rt, r, new) /\ lastUse' = With(lastUse, r, clock)
        BY <2>0
      <4> HIDE DEF Row, new, r
      <4>4. rt' \in [DOMAIN rt \cup {r} -> Row] /\ DOMAIN rt' = DOMAIN rt \cup {r}
        BY <4>1, <4>2, <4>3 DEF With
      <4>5. lastUse' \in [DOMAIN rt \cup {r} -> Time]
        BY <4>2, <4>3 DEF With
      <4>6. rt' \in [DOMAIN rt' -> Row] /\ DOMAIN rt' \subseteq Ids("rt")' /\ lastUse' \in [DOMAIN rt' -> Time]
        BY <3>2, <4>2, <4>4, <4>5
      <4> QED
        BY <4>6 DEF Row
    <3>4. Ids("user")' = Ids("user") /\ Ids("invite")' = Ids("invite")
      BY <2>0, <2>2 DEF Ids, AInv, AccountsTypeOK
    <3> QED
      BY <2>0, <2>3, <3>1, <3>3, <3>4, <2>2 DEF AInv, AccountsTypeOK, Goes, Jwt, Ids
  <2>8. Steady
    BY <2>0, <2>2, <2>4 DEF Steady
  <2>9. RequestsOK'
    BY <2>0, <2>7, <2>8, FreeInformed, OthersInformed
  <2>10. OvertakenOK'
    BY <2>0, FreeMintsNothing, NobodyOvertaken
  <2> QED
    BY <2>3, <2>5, <2>6, <2>7, <2>9, <2>10 DEF AInv
<1> QED
  BY <1>1, <1>2

-----------------------------------------------------------------------------
(* Steps that change one row *)

\* Only the sessions change, and they keep their owners and their windows.
LEMMA SessionsChange ==
    ASSUME AInv, UNCHANGED <<clock, user, invite, seq, jwts, gone, admitted>>, SessionsOK',
           rt' \in [DOMAIN rt -> [user : Ids("user"), exp : Nat, revoked : BOOLEAN]],
           lastUse' \in [DOMAIN rt -> Time], DOMAIN req' = Reqs
    PROVE  AccountsTypeOK' /\ InviteLog' /\ TokensOK' /\ Steady
<1>1. AccountsTypeOK'
  BY DEF AInv, AccountsTypeOK, Ids
<1>2. InviteLog' /\ TokensOK'
  BY DEF AInv, InviteLog, TokensOK
<1>3. Steady
  BY AccountsAssumption DEF Steady, AInv, AccountsTypeOK, Time
<1> QED
  BY <1>1, <1>2, <1>3

\* logout keeps the invariant.
LEMMA LogoutStep ==
    ASSUME AInv, NEW r, Logout(r) PROVE AInv'
<1>0. /\ UNCHANGED <<clock, user, invite, seq, jwts, gone, admitted, req, lastUse>>
      /\ r \in DOMAIN rt /\ rt' = [rt EXCEPT ![r].revoked = TRUE]
  BY DEF Logout, ghosts
<1>1. rt' \in [DOMAIN rt -> [user : Ids("user"), exp : Nat, revoked : BOOLEAN]]
  BY <1>0 DEF AInv, AccountsTypeOK
<1>2. \A x \in DOMAIN rt : rt'[x].user = rt[x].user /\ rt'[x].exp = rt[x].exp
  BY <1>0 DEF AInv, AccountsTypeOK
<1>3. SessionsOK'
  BY <1>0, <1>1, <1>2 DEF AInv, SessionsOK
<1>4. AccountsTypeOK' /\ InviteLog' /\ TokensOK' /\ Steady
  BY <1>0, <1>1, <1>3, SessionsChange DEF AInv, AccountsTypeOK
<1>5. RequestsOK' /\ OvertakenOK'
  BY <1>0, <1>4, AllInformed, SameOvertaken
<1> QED
  BY <1>3, <1>4, <1>5 DEF AInv

\* Validate's UPDATE keeps the invariant: its clock reading is not in the future.
LEMMA RefreshSlideStep ==
    ASSUME AInv, NEW p \in Reqs, RefreshSlide(p) PROVE AInv'
<1> DEFINE j == req[p]
<1>0. /\ UNCHANGED <<clock, user, invite, seq, jwts, gone, admitted>>
      /\ Goes(p, [pc |-> "lookup", u |-> j.u])
  BY DEF RefreshSlide
<1>1. j.u \in 1 .. seq.user /\ j.now \in Nat /\ j.now <= clock
  BY DEF RefreshSlide, AInv, RequestsOK, Informed
<1>2. Informed([pc |-> "lookup", u |-> j.u], clock', user', seq'.user)
  BY <1>0, <1>1 DEF Informed
<1>3. DOMAIN req' = Reqs
  BY <1>0 DEF Goes, AInv, AccountsTypeOK
<1>4. SessionsOK' /\ rt' \in [DOMAIN rt -> [user : Ids("user"), exp : Nat, revoked : BOOLEAN]]
                 /\ lastUse' \in [DOMAIN rt -> Time]
  <2>1. CASE j.r \in DOMAIN rt /\ ~ rt[j.r].revoked
    <3>1. rt' = [rt EXCEPT ![j.r].exp = j.now + RefreshTTL] /\ lastUse' = [lastUse EXCEPT ![j.r] = clock]
      BY <2>1 DEF RefreshSlide
    <3>2. j.now + RefreshTTL \in Nat /\ clock \in Time /\ clock \in Nat
      BY <1>1, AccountsAssumption DEF AInv, AccountsTypeOK, Time
    <3>3. rt' \in [DOMAIN rt -> [user : Ids("user"), exp : Nat, revoked : BOOLEAN]]
      BY <3>1, <3>2 DEF AInv, AccountsTypeOK
    <3>4. lastUse' \in [DOMAIN rt -> Time]
      BY <3>1, <3>2 DEF AInv, AccountsTypeOK
    <3>5. ASSUME NEW x \in DOMAIN rt
          PROVE  rt'[x].user = rt[x].user /\ rt'[x].exp <= lastUse'[x] + RefreshTTL
      <4>1. CASE x = j.r
        <5>1. rt'[x].user = rt[x].user /\ rt'[x].exp = j.now + RefreshTTL
          BY <2>1, <3>1, <4>1 DEF AInv, AccountsTypeOK
        <5>2. lastUse'[x] = clock
          BY <2>1, <3>1, <4>1 DEF AInv, AccountsTypeOK
        <5> QED
          BY <1>1, <3>2, <5>1, <5>2, AccountsAssumption
      <4>2. CASE x # j.r
        BY <3>1, <4>2 DEF AInv, AccountsTypeOK, SessionsOK
      <4> QED
        BY <4>1, <4>2
    <3>6. SessionsOK'
      BY <1>0, <3>3, <3>5 DEF AInv, SessionsOK
    <3> QED
      BY <3>3, <3>4, <3>6
  <2>2. CASE ~ (j.r \in DOMAIN rt /\ ~ rt[j.r].revoked)
    <3>1. UNCHANGED <<rt, lastUse>>
      BY <2>2 DEF RefreshSlide
    <3> QED
      BY <1>0, <3>1 DEF AInv, AccountsTypeOK, SessionsOK
  <2> QED
    BY <2>1, <2>2
<1>5. AccountsTypeOK' /\ InviteLog' /\ TokensOK' /\ Steady
  BY <1>0, <1>3, <1>4, SessionsChange
<1>6. RequestsOK'
  BY <1>0, <1>2, <1>5, OthersInformed
<1>7. OvertakenOK'
  BY <1>0, NobodyOvertaken
<1> QED
  BY <1>4, <1>5, <1>6, <1>7 DEF AInv

-----------------------------------------------------------------------------
(* Steps that create rows *)

\* A new account takes an id nobody had: no token and no session speaks of it.
LEMMA AccountAdded ==
    ASSUME AInv, NEW nm \in Names, NEW b \in BOOLEAN, seq.user < MaxId.user,
           user' = With(user, NewId, [name |-> nm, admin |-> b]),
           seq' = [seq EXCEPT !.user = @ + 1], UNCHANGED <<clock, rt, jwts, gone, lastUse>>,
           invite' \in [Ids("invite") -> [by : Ids("user")' \cup {Null}, exp : Nat \cup {Null},
                                     usedBy : Ids("user")' \cup {Null}, usedAt : Time \cup {Null}]],
           admitted' \in [Ids("invite") -> SUBSET Ids("user")'], DOMAIN req' = Reqs
    PROVE  AccountsTypeOK' /\ TokensOK' /\ SessionsOK' /\ Steady
<1> DEFINE n == seq.user + 1
           Row == [name : Names, admin : BOOLEAN]
           new == [name |-> nm, admin |-> b]
<1>1. seq.user \in Nat /\ clock \in Nat /\ seq'.user = n
  BY AccountsAssumption DEF AInv, AccountsTypeOK, Time
<1>2. seq' \in [user : 1 .. MaxId.user, invite : 0 .. MaxId.invite, rt : 0 .. MaxId.rt]
  BY <1>1, AccountsAssumption DEF AInv, AccountsTypeOK
<1>3. /\ Ids("user")' = Ids("user") \cup {n} /\ n \notin Ids("user")
      /\ Ids("invite")' = Ids("invite") /\ Ids("rt")' = Ids("rt")
  BY <1>1 DEF Ids, AInv, AccountsTypeOK
<1>4. /\ user' = With(user, n, new) /\ new \in Row
      /\ user \in [DOMAIN user -> Row] /\ DOMAIN user \subseteq Ids("user")
  BY DEF AInv, AccountsTypeOK, NewId
<1>5. jwts \subseteq [sub : Ids("user"), name : Names, admin : BOOLEAN, exp : Nat]
  BY DEF AInv, AccountsTypeOK
<1> HIDE DEF n, Row, new
<1>6. /\ user' \in [DOMAIN user' -> Row] /\ DOMAIN user' = DOMAIN user \cup {n}
      /\ \A u \in Ids("user") : u \in DOMAIN user' => u \in DOMAIN user /\ user'[u] = user[u]
  BY <1>3, <1>4 DEF With
<1>7. AccountsTypeOK'
  <2>1. rt' \in [DOMAIN rt' -> [user : Ids("user")', exp : Nat, revoked : BOOLEAN]]
    <3>1. rt \in [DOMAIN rt -> [user : Ids("user"), exp : Nat, revoked : BOOLEAN]]
      BY DEF AInv, AccountsTypeOK
    <3> QED
      BY <1>3, <3>1
  <2>2. jwts' \subseteq [sub : Ids("user")', name : Names, admin : BOOLEAN, exp : Nat]
    BY <1>3, <1>5
  <2>3. DOMAIN gone' = Ids("user")' \ DOMAIN user' /\ DOMAIN user' \subseteq Ids("user")'
    BY <1>3, <1>4, <1>6 DEF AInv, AccountsTypeOK
  <2>4. /\ clock' \in Time /\ DOMAIN rt' \subseteq Ids("rt")' /\ lastUse' \in [DOMAIN rt' -> Time]
        /\ gone' \in [DOMAIN gone' -> [at : Time, over : SUBSET Reqs]]
    BY <1>3 DEF AInv, AccountsTypeOK
  <2>5. /\ invite' \in [Ids("invite")' -> [by : Ids("user")' \cup {Null}, exp : Nat \cup {Null},
                                     usedBy : Ids("user")' \cup {Null}, usedAt : Time \cup {Null}]]
        /\ admitted' \in [Ids("invite")' -> SUBSET Ids("user")']
    BY <1>3
  <2> QED
    BY <1>2, <1>6, <2>1, <2>2, <2>3, <2>4, <2>5 DEF AccountsTypeOK, Row, Time
<1>8. TokensOK'
  <2> SUFFICES ASSUME NEW t \in jwts
               PROVE  Fresh(t, clock) /\ Genuine(t, user') /\ Old(t, gone)
    BY DEF TokensOK
  <2>1. t.sub \in Ids("user")
    BY <1>5
  <2>2. Genuine(t, user')
    BY <1>6, <2>1 DEF Genuine, AInv, TokensOK
  <2> QED
    BY <2>2 DEF AInv, TokensOK
<1>9. SessionsOK'
  BY <1>6 DEF AInv, SessionsOK
<1>10. Steady
  BY <1>1, <1>6 DEF Steady, Ids, n
<1> QED
  BY <1>7, <1>8, <1>9, <1>10

\* store.Register keeps the invariant: the invite it consumes had admitted nobody.
LEMMA RegisterStep ==
    ASSUME AInv, NEW nm \in Names, NEW i, Register(nm, i) PROVE AInv'
<1> DEFINE n == seq.user + 1
<1>0. /\ user' = With(user, NewId, [name |-> nm, admin |-> FALSE]) /\ seq.user < MaxId.user
      /\ seq' = [seq EXCEPT !.user = @ + 1] /\ UNCHANGED <<clock, rt, jwts, gone, lastUse, req>>
      /\ invite' = [invite EXCEPT ![i].usedBy = n, ![i].usedAt = clock]
      /\ admitted' = [admitted EXCEPT ![i] = @ \cup {n}]
      /\ i \in Ids("invite") /\ invite[i].usedAt = Null
  BY DEF Register, Redeemable, NewId, AInv, AccountsTypeOK
<1>1. seq.user \in Nat /\ clock \in Nat /\ clock \in Time
  BY AccountsAssumption DEF AInv, AccountsTypeOK, Time
<1>2. Ids("user")' = Ids("user") \cup {n}
  BY <1>0, <1>1 DEF Ids, AInv, AccountsTypeOK
<1>3. /\ invite \in [Ids("invite") -> [by : Ids("user") \cup {Null}, exp : Nat \cup {Null},
                                       usedBy : Ids("user") \cup {Null}, usedAt : Time \cup {Null}]]
      /\ admitted \in [Ids("invite") -> SUBSET Ids("user")] /\ DOMAIN req = Reqs
  BY DEF AInv, AccountsTypeOK
<1> HIDE DEF n
<1>4. invite' \in [Ids("invite") -> [by : Ids("user")' \cup {Null}, exp : Nat \cup {Null},
                                     usedBy : Ids("user")' \cup {Null}, usedAt : Time \cup {Null}]]
  <2> DEFINE New == [by : Ids("user")' \cup {Null}, exp : Nat \cup {Null},
                     usedBy : Ids("user")' \cup {Null}, usedAt : Time \cup {Null}]
             row == [invite[i] EXCEPT !.usedBy = n, !.usedAt = clock]
  <2>1. invite' = [invite EXCEPT ![i] = row]
    BY <1>0, <1>3
  <2>2. invite[i] \in [by : Ids("user") \cup {Null}, exp : Nat \cup {Null},
                       usedBy : Ids("user") \cup {Null}, usedAt : Time \cup {Null}]
    BY <1>0, <1>3
  <2>3. row \in New
    BY <1>1, <1>2, <2>2
  <2>4. invite \in [Ids("invite") -> New]
    BY <1>2, <1>3
  <2> HIDE DEF New, row
  <2>5. invite' \in [Ids("invite") -> New]
    BY <2>1, <2>3, <2>4
  <2> QED
    BY <2>5 DEF New
<1>5. admitted' \in [Ids("invite") -> SUBSET Ids("user")']
  BY <1>0, <1>2, <1>3
<1>6. AccountsTypeOK' /\ TokensOK' /\ SessionsOK' /\ Steady
  BY <1>0, <1>3, <1>4, <1>5, AccountAdded
<1>7. InviteLog'
  <2> SUFFICES ASSUME NEW x \in DOMAIN invite
               PROVE  /\ invite'[x].usedAt = Null => admitted'[x] = {}
                      /\ \E y : admitted'[x] \subseteq {y}
    BY <1>3, <1>4 DEF InviteLog
  <2>1. CASE x = i
    <3>1. admitted[i] = {} /\ admitted'[x] = {n}
      BY <1>0, <1>3, <2>1 DEF AInv, InviteLog
    <3>2. invite'[x].usedAt = clock
      BY <1>0, <1>3, <2>1
    <3> QED
      BY <1>1, <3>1, <3>2 DEF Null
  <2>2. CASE x # i
    BY <1>0, <1>3, <2>2 DEF AInv, InviteLog
  <2> QED
    BY <2>1, <2>2
<1>8. RequestsOK' /\ OvertakenOK'
  BY <1>0, <1>6, AllInformed, SameOvertaken
<1> QED
  BY <1>6, <1>7, <1>8 DEF AInv

\* A restart keeps the invariant, with or without a new administrator.
LEMMA RestartStep ==
    ASSUME AInv, NEW nm \in Names, Restart(nm) PROVE AInv'
<1>0. /\ UNCHANGED <<clock, invite, rt, jwts, gone, admitted, lastUse>>
      /\ req' = [p \in Reqs |-> Free]
  BY DEF Restart, ghosts
<1>1. RequestsOK' /\ OvertakenOK'
  BY <1>0, FreeInformed, FreeMintsNothing DEF RequestsOK, OvertakenOK, Minting
<1>2. InviteLog'
  BY <1>0 DEF AInv, InviteLog
<1>3. CASE Taken(nm)
  <2>1. UNCHANGED <<user, seq>>
    BY <1>3 DEF Restart
  <2>2. AccountsTypeOK'
    BY <1>0, <2>1 DEF AInv, AccountsTypeOK, Ids
  <2>3. TokensOK' /\ SessionsOK'
    BY <1>0, <2>1 DEF AInv, TokensOK, SessionsOK
  <2> QED
    BY <1>1, <1>2, <2>2, <2>3 DEF AInv
<1>4. CASE ~ Taken(nm)
  <2>1. /\ seq.user < MaxId.user /\ user' = With(user, NewId, [name |-> nm, admin |-> TRUE])
        /\ seq' = [seq EXCEPT !.user = @ + 1]
    BY <1>4 DEF Restart
  <2>2. Ids("user") \subseteq Ids("user")'
    BY <2>1, AccountsAssumption DEF Ids, AInv, AccountsTypeOK
  <2>3. /\ invite \in [Ids("invite") -> [by : Ids("user") \cup {Null}, exp : Nat \cup {Null},
                                       usedBy : Ids("user") \cup {Null}, usedAt : Time \cup {Null}]]
        /\ admitted \in [Ids("invite") -> SUBSET Ids("user")]
    BY DEF AInv, AccountsTypeOK
  <2>4. invite' \in [Ids("invite") -> [by : Ids("user")' \cup {Null}, exp : Nat \cup {Null},
                                     usedBy : Ids("user")' \cup {Null}, usedAt : Time \cup {Null}]]
    BY <1>0, <2>2, <2>3
  <2>5. admitted' \in [Ids("invite") -> SUBSET Ids("user")']
    BY <1>0, <2>2, <2>3
  <2>6. AccountsTypeOK' /\ TokensOK' /\ SessionsOK'
    BY <1>0, <2>1, <2>4, <2>5, AccountAdded
  <2> QED
    BY <1>1, <1>2, <2>6 DEF AInv
<1> QED
  BY <1>3, <1>4

\* createInvite keeps the invariant: the new invite has admitted nobody.
LEMMA CreateInviteStep ==
    ASSUME AInv, NEW p \in Reqs, CreateInvite(p) PROVE AInv'
<1> DEFINE i == seq.invite + 1
           Row == [by : Ids("user") \cup {Null}, exp : Nat \cup {Null},
                   usedBy : Ids("user") \cup {Null}, usedAt : Time \cup {Null}]
           new == [by |-> req[p].u, usedBy |-> Null, usedAt |-> Null,
                   exp |-> IF InviteTTL > 0 THEN clock + InviteTTL ELSE Null]
<1>0. UNCHANGED <<clock, user, rt, jwts, gone, lastUse>> /\ Goes(p, Free)
  BY DEF CreateInvite, Answers, Goes
<1>1. CASE req[p].u \notin DOMAIN user
  BY <1>0, <1>1, FreeInformed, FreeMintsNothing, MovesOn DEF CreateInvite, tables, ghosts
<1>2. CASE req[p].u \in DOMAIN user
  <2>1. /\ invite' = With(invite, i, new) /\ admitted' = With(admitted, i, {})
        /\ seq' = [seq EXCEPT !.invite = i] /\ seq.invite < MaxId.invite
    BY <1>2 DEF CreateInvite
  <2>2. seq.invite \in Nat /\ clock \in Nat /\ seq.user \in Nat /\ seq'.user = seq.user
    BY <2>1, AccountsAssumption DEF AInv, AccountsTypeOK, Time
  <2>3. new \in Row
    BY <1>2, <2>2, AccountsAssumption DEF AInv, AccountsTypeOK
  <2>4. /\ Ids("invite")' = Ids("invite") \cup {i} /\ i \notin Ids("invite")
        /\ Ids("user")' = Ids("user") /\ Ids("rt")' = Ids("rt")
    BY <2>1, <2>2 DEF Ids, AInv, AccountsTypeOK
  <2>5. seq' \in [user : 1 .. MaxId.user, invite : 0 .. MaxId.invite, rt : 0 .. MaxId.rt]
    BY <2>1, <2>2, AccountsAssumption DEF AInv, AccountsTypeOK
  <2>6. invite \in [Ids("invite") -> Row] /\ admitted \in [Ids("invite") -> SUBSET Ids("user")]
    BY DEF AInv, AccountsTypeOK
  <2>7. new.usedAt = Null
    OBVIOUS
  <2> HIDE DEF i, Row, new
  <2>8. invite' \in [Ids("invite")' -> Row]
    BY <2>1, <2>3, <2>4, <2>6 DEF With
  <2>9. admitted' \in [Ids("invite")' -> SUBSET Ids("user")]
    BY <2>1, <2>4, <2>6 DEF With
  <2>10. AccountsTypeOK'
    BY <1>0, <2>4, <2>5, <2>8, <2>9 DEF AInv, AccountsTypeOK, Row, Goes
  <2>11. InviteLog'
    <3> SUFFICES ASSUME NEW x \in DOMAIN invite'
                 PROVE  /\ invite'[x].usedAt = Null => admitted'[x] = {}
                        /\ \E y : admitted'[x] \subseteq {y}
      BY DEF InviteLog
    <3>1. CASE x = i
      BY <2>1, <3>1 DEF With
    <3>2. CASE x # i
      BY <2>1, <2>6, <3>2 DEF With, AInv, InviteLog
    <3> QED
      BY <3>1, <3>2
  <2>12. TokensOK' /\ SessionsOK'
    BY <1>0 DEF AInv, TokensOK, SessionsOK
  <2>13. Steady
    BY <1>0, <2>2 DEF Steady
  <2>14. RequestsOK'
    BY <1>0, <2>10, <2>13, FreeInformed, OthersInformed
  <2>15. OvertakenOK'
    BY <1>0, FreeMintsNothing, NobodyOvertaken
  <2> QED
    BY <2>10, <2>11, <2>12, <2>14, <2>15 DEF AInv
<1> QED
  BY <1>1, <1>2

-----------------------------------------------------------------------------
(* Deletion and time *)

\* DeleteCascade keeps the invariant: sessions go with the account, access tokens
\* stay but are at most AccessTTL from expiring, and who may still sign is on record.
LEMMA DeleteAccountStep ==
    ASSUME AInv, NEW p \in Reqs, DeleteAccount(p) PROVE AInv'
<1>0. /\ UNCHANGED <<clock, seq, jwts, admitted>> /\ Goes(p, Free)
      /\ lastUse' = Only(lastUse, DOMAIN rt')
  BY DEF DeleteAccount, Answers, Goes
<1>1. PICK u \in DOMAIN user : /\ user' = Only(user, DOMAIN user \ {u}) /\ ForgetUser(u)
                               /\ gone' = With(gone, u, [at |-> clock, over |-> Minting(u)])
  BY DEF DeleteAccount
<1>2. seq.user \in Nat /\ clock \in Nat /\ clock \in Time
  BY AccountsAssumption DEF AInv, AccountsTypeOK, Time
<1>3. \A t \in {"user", "invite", "rt"} : Ids(t)' = Ids(t)
  BY <1>0 DEF Ids
<1>4. /\ DOMAIN user' = DOMAIN user \ {u}
      /\ \A v \in DOMAIN user' : user'[v] = user[v]
      /\ user' \in [DOMAIN user' -> [name : Names, admin : BOOLEAN]]
  BY <1>1 DEF Only, AInv, AccountsTypeOK
<1>5. /\ DOMAIN rt' = {r \in DOMAIN rt : rt[r].user # u}
      /\ \A r \in DOMAIN rt' : rt'[r] = rt[r]
      /\ rt' \in [DOMAIN rt' -> [user : Ids("user"), exp : Nat, revoked : BOOLEAN]]
  BY <1>1 DEF Only, ForgetUser, AInv, AccountsTypeOK
<1>6. /\ lastUse' \in [DOMAIN rt' -> Time]
      /\ \A r \in DOMAIN rt' : lastUse'[r] = lastUse[r]
  BY <1>0, <1>5 DEF Only, AInv, AccountsTypeOK
<1>7. /\ gone' \in [DOMAIN gone' -> [at : Time, over : SUBSET Reqs]]
      /\ DOMAIN gone' = DOMAIN gone \cup {u}
      /\ gone'[u] = [at |-> clock, over |-> Minting(u)]
      /\ \A v \in DOMAIN gone \ {u} : gone'[v] = gone[v]
  <2> DEFINE g == [at |-> clock, over |-> Minting(u)]
  <2>1. g \in [at : Time, over : SUBSET Reqs]
    BY <1>2 DEF Minting
  <2>2. gone \in [DOMAIN gone -> [at : Time, over : SUBSET Reqs]] /\ gone' = With(gone, u, g)
    BY <1>1 DEF AInv, AccountsTypeOK
  <2> HIDE DEF g
  <2>3. /\ gone' \in [DOMAIN gone' -> [at : Time, over : SUBSET Reqs]]
        /\ DOMAIN gone' = DOMAIN gone \cup {u} /\ gone'[u] = g
        /\ \A v \in DOMAIN gone \ {u} : gone'[v] = gone[v]
    BY <2>1, <2>2 DEF With
  <2> QED
    BY <2>3 DEF g
<1>8. /\ invite' \in [Ids("invite") -> [by : Ids("user") \cup {Null}, exp : Nat \cup {Null},
                                        usedBy : Ids("user") \cup {Null}, usedAt : Time \cup {Null}]]
      /\ \A i \in DOMAIN invite : invite'[i].usedAt = invite[i].usedAt
  <2> DEFINE Row == [by : Ids("user") \cup {Null}, exp : Nat \cup {Null},
                     usedBy : Ids("user") \cup {Null}, usedAt : Time \cup {Null}]
             Blank(a) == IF a = u THEN Null ELSE a
             Forget(i) == [invite[i] EXCEPT !.by = Blank(@), !.usedBy = Blank(@)]
  <2>1. invite \in [Ids("invite") -> Row]
    BY DEF AInv, AccountsTypeOK
  <2>2. invite' = [i \in DOMAIN invite |-> Forget(i)]
    BY <1>1 DEF ForgetUser
  <2>3. ASSUME NEW i \in DOMAIN invite
        PROVE  Forget(i) \in Row /\ Forget(i).usedAt = invite[i].usedAt
    <3>1. invite[i] \in Row
      BY <2>1
    <3>2. \A a \in Ids("user") \cup {Null} : Blank(a) \in Ids("user") \cup {Null}
      OBVIOUS
    <3> HIDE DEF Blank
    <3> QED
      BY <3>1, <3>2
  <2> HIDE DEF Row, Forget
  <2>4. invite' \in [Ids("invite") -> Row]
    BY <2>1, <2>2, <2>3
  <2> QED
    BY <2>2, <2>3, <2>4 DEF Row
<1>9. AccountsTypeOK'
  <2>1. DOMAIN gone' = Ids("user") \ DOMAIN user' /\ DOMAIN user' \subseteq Ids("user")
    BY <1>4, <1>7 DEF AInv, AccountsTypeOK
  <2>2. DOMAIN rt' \subseteq Ids("rt") /\ DOMAIN req' = Reqs
    BY <1>0, <1>5 DEF AInv, AccountsTypeOK, Goes
  <2> QED
    BY <1>0, <1>3, <1>4, <1>5, <1>6, <1>7, <1>8, <2>1, <2>2 DEF AInv, AccountsTypeOK
<1>10. InviteLog'
  BY <1>0, <1>8 DEF AInv, InviteLog, AccountsTypeOK
<1>11. TokensOK'
  <2> SUFFICES ASSUME NEW t \in jwts
               PROVE  Fresh(t, clock) /\ Genuine(t, user') /\ Old(t, gone')
    BY <1>0 DEF TokensOK
  <2>1. Fresh(t, clock) /\ Genuine(t, user)
    BY DEF AInv, TokensOK
  <2>2. Genuine(t, user')
    BY <1>4, <2>1 DEF Genuine
  <2>3. CASE t.sub = u
    BY <1>7, <2>1, <2>2, <2>3 DEF Fresh, Old
  <2>4. CASE t.sub # u
    BY <1>7, <2>1, <2>2, <2>4 DEF AInv, TokensOK, Old
  <2> QED
    BY <2>3, <2>4
<1>12. SessionsOK'
  BY <1>4, <1>5, <1>6 DEF AInv, SessionsOK
<1>13. Steady
  BY <1>0, <1>2, <1>4 DEF Steady
<1>14. RequestsOK'
  BY <1>0, <1>9, <1>13, FreeInformed, OthersInformed
<1>15. OvertakenOK'
  <2> SUFFICES ASSUME NEW v \in DOMAIN gone', NEW q \in Reqs, req'[q].pc = "mint", req'[q].u = v
               PROVE  q \in gone'[v].over
    BY DEF OvertakenOK, Minting
  <2>1. req[q].pc = "mint" /\ req[q].u = v
    BY <1>0, FreeMintsNothing DEF AInv, AccountsTypeOK, Goes
  <2> QED
    BY <1>7, <2>1 DEF AInv, OvertakenOK, Minting
<1> QED
  BY <1>9, <1>10, <1>11, <1>12, <1>14, <1>15 DEF AInv

\* Time passing keeps the invariant.
LEMMA TickStep ==
    ASSUME AInv, Tick PROVE AInv'
<1>0. /\ UNCHANGED <<user, invite, rt, seq, req, gone, admitted, lastUse>> /\ clock' = clock + 1
      /\ clock < MaxTime /\ jwts' \subseteq jwts
  BY DEF Tick, tables, ghosts
<1>1. clock \in Nat /\ clock' \in Time /\ clock' \in Nat /\ seq.user \in Nat
  BY <1>0, AccountsAssumption DEF AInv, AccountsTypeOK, Time
<1>2. AccountsTypeOK'
  BY <1>0, <1>1 DEF AInv, AccountsTypeOK, Ids
<1>3. InviteLog' /\ SessionsOK'
  BY <1>0 DEF AInv, InviteLog, SessionsOK
<1>4. TokensOK'
  <2> SUFFICES ASSUME NEW t \in jwts'
               PROVE  Fresh(t, clock') /\ Genuine(t, user) /\ Old(t, gone)
    BY <1>0 DEF TokensOK
  <2>1. t \in jwts /\ t.exp \in Nat
    BY <1>0 DEF AInv, AccountsTypeOK
  <2> QED
    BY <1>0, <1>1, <2>1, AccountsAssumption DEF AInv, TokensOK, Fresh
<1>5. Steady
  BY <1>0, <1>1 DEF Steady
<1>6. RequestsOK' /\ OvertakenOK'
  BY <1>0, <1>2, <1>5, AllInformed, SameOvertaken
<1> QED
  BY <1>2, <1>3, <1>4, <1>6 DEF AInv

-----------------------------------------------------------------------------
(* The theorems *)

\* The invariant holds after the first start.
LEMMA AInvInit == ASSUME InitAccounts PROVE AInv
<1>0. /\ clock = 0 /\ seq = [user |-> 1, invite |-> 0, rt |-> 0] /\ jwts = {}
      /\ invite = [i \in {} |-> 0] /\ rt = [r \in {} |-> 0] /\ req = [p \in Reqs |-> Free]
      /\ gone = [u \in {} |-> 0] /\ admitted = [i \in {} |-> 0] /\ lastUse = [r \in {} |-> 0]
  BY DEF InitAccounts
<1>1. PICK nm \in Names : user = [u \in {1} |-> [name |-> nm, admin |-> TRUE]]
  BY DEF InitAccounts
<1>2. Ids("user") = {1} /\ Ids("invite") = {} /\ Ids("rt") = {}
  BY <1>0 DEF Ids
<1>3. AccountsTypeOK
  <2>1. clock \in Time
    BY <1>0, AccountsAssumption DEF Time
  <2>2. seq \in [user : 1 .. MaxId.user, invite : 0 .. MaxId.invite, rt : 0 .. MaxId.rt]
    BY <1>0, AccountsAssumption
  <2>3. user \in [DOMAIN user -> [name : Names, admin : BOOLEAN]] /\ DOMAIN user = {1}
    BY <1>1
  <2>4. /\ DOMAIN invite = {} /\ DOMAIN rt = {} /\ DOMAIN gone = {} /\ DOMAIN admitted = {}
        /\ DOMAIN lastUse = {} /\ DOMAIN req = Reqs
    BY <1>0
  <2>5. /\ invite \in [Ids("invite") -> [by : Ids("user") \cup {Null}, exp : Nat \cup {Null},
                                         usedBy : Ids("user") \cup {Null}, usedAt : Time \cup {Null}]]
        /\ admitted \in [Ids("invite") -> SUBSET Ids("user")]
    BY <1>0, <1>2
  <2>6. /\ rt \in [DOMAIN rt -> [user : Ids("user"), exp : Nat, revoked : BOOLEAN]]
        /\ lastUse \in [DOMAIN rt -> Time] /\ gone \in [DOMAIN gone -> [at : Time, over : SUBSET Reqs]]
    BY <1>0
  <2> QED
    BY <1>0, <1>2, <2>1, <2>2, <2>3, <2>4, <2>5, <2>6 DEF AccountsTypeOK
<1>4. InviteLog /\ TokensOK /\ OvertakenOK /\ SessionsOK
  BY <1>0 DEF InviteLog, TokensOK, OvertakenOK, SessionsOK
<1>5. RequestsOK
  BY <1>0, FreeInformed DEF RequestsOK
<1> QED
  BY <1>3, <1>4, <1>5 DEF AInv

\* The invariant is inductive: one case per operation.
LEMMA AInvStep == ASSUME AInv, [NextAccounts]_avars PROVE AInv'
<1>1. CASE UNCHANGED avars
  <2>1. UNCHANGED <<clock, user, invite, rt, seq, jwts, req, gone, admitted, lastUse>>
    BY <1>1 DEF avars, tables, ghosts
  <2>2. AccountsTypeOK'
    BY <2>1 DEF AInv, AccountsTypeOK, Ids
  <2>3. InviteLog' /\ TokensOK' /\ OvertakenOK' /\ SessionsOK' /\ RequestsOK'
    BY <2>1, SameOvertaken DEF AInv, InviteLog, TokensOK, SessionsOK, RequestsOK
  <2> QED
    BY <2>2, <2>3 DEF AInv
<1>2. ASSUME NEW p \in Reqs,
             \/ LoginVerify(p) \/ LoginIssue(p)
             \/ RefreshSelect(p) \/ RefreshSlide(p) \/ RefreshLookup(p) \/ RefreshMint(p)
      PROVE  AInv'
  BY <1>2, LoginVerifyStep, LoginIssueStep, RefreshSelectStep, RefreshSlideStep,
     RefreshLookupStep, RefreshMintStep
<1>3. ASSUME NEW p \in Reqs,
             \/ InviteAuth(p) \/ CreateInvite(p)
             \/ DeleteAuth(p) \/ DeleteAccount(p) \/ DeleteRefused(p)
      PROVE  AInv'
  BY <1>3, AsAdminStep, CreateInviteStep, DeleteAccountStep, DeleteRefusedStep
     DEF InviteAuth, DeleteAuth
<1>4. ASSUME NEW nm \in Names, Restart(nm) \/ \E i \in DOMAIN invite : Register(nm, i)
      PROVE  AInv'
  BY <1>4, RestartStep, RegisterStep
<1>5. ASSUME NEW r \in DOMAIN rt, Logout(r) PROVE AInv'
  BY <1>5, LogoutStep
<1> QED
  BY <1>1, <1>2, <1>3, <1>4, <1>5, TickStep DEF NextAccounts

\* The invariant holds in every state of every behaviour.
THEOREM AccountsInvariant == SpecAccounts => []AInv
  BY AInvInit, AInvStep, PTL DEF SpecAccounts

\* Rows have their types and ids that were handed out.
THEOREM AccountsTypeCorrect == SpecAccounts => []AccountsTypeOK
<1>1. AInv => AccountsTypeOK
  BY DEF AInv
<1> QED
  BY <1>1, AccountsInvariant, PTL

\* An invite admits at most one account, also after that account is deleted
\* (store.Register's guard).
THEOREM InvitesAdmitOne == SpecAccounts => []InviteAdmitsOne
<1>1. ASSUME AInv PROVE InviteAdmitsOne
  <2> SUFFICES ASSUME NEW i \in DOMAIN admitted PROVE Cardinality(admitted[i]) <= 1
    BY DEF InviteAdmitsOne
  <2>1. PICK x : admitted[i] \subseteq {x}
    BY <1>1 DEF AInv, InviteLog, AccountsTypeOK
  <2>2. CASE admitted[i] = {}
    BY <2>2, FS_EmptySet
  <2>3. CASE admitted[i] = {x}
    BY <2>3, FS_Singleton
  <2> QED
    BY <2>1, <2>2, <2>3
<1> QED
  BY <1>1, AccountsInvariant, PTL

\* A refresh token expires within RefreshTTL of its last use (Validate, Issue).
THEOREM IdleSessionsDie == SpecAccounts => []IdleSessionDies
<1>1. AInv => IdleSessionDies
  BY DEF AInv, SessionsOK, IdleSessionDies
<1> QED
  BY <1>1, AccountsInvariant, PTL

\* A deleted account keeps no session, only the refreshes that had found it at its
\* deletion may still sign for it, and unless there was one it has no access token
\* longer than AccessTTL (login, refresh, DeleteCascade).
THEOREM DeletedAccountsDie == SpecAccounts => []DeletedAccountDies
<1>1. AInv => DeletedAccountDies
  BY DEF AInv, SessionsOK, TokensOK, Old, OvertakenOK, DeletedAccountDies
<1> QED
  BY <1>1, AccountsInvariant, PTL

\* An access token of a live account has that account's name and rights
\* (AUTOINCREMENT of users.id, Claims).
THEOREM IdentitiesNotInherited == SpecAccounts => []NoInheritedIdentity
<1>1. AInv => NoInheritedIdentity
  BY DEF AInv, TokensOK, Genuine, NoInheritedIdentity
<1> QED
  BY <1>1, AccountsInvariant, PTL

\* No step touches the row of a revoked refresh token, except to delete it: not
\* even the UPDATE of a refresh that had read it before the logout.
LEMMA RevokedUntouched ==
    ASSUME AInv, [NextAccounts]_avars, NEW r \in DOMAIN rt \cap DOMAIN rt', rt[r].revoked
    PROVE  rt'[r] = rt[r]
<1>1. ASSUME NEW p \in Reqs, LoginIssue(p) PROVE rt'[r] = rt[r]
  <2>1. r # seq.rt + 1
    BY AccountsAssumption DEF AInv, AccountsTypeOK, Ids
  <2> QED
    BY <1>1, <2>1 DEF LoginIssue, With, tables
<1>2. ASSUME NEW p \in Reqs, RefreshSlide(p) PROVE rt'[r] = rt[r]
  BY <1>2 DEF RefreshSlide
<1>3. ASSUME NEW p \in Reqs, DeleteAccount(p) PROVE rt'[r] = rt[r]
  BY <1>3 DEF DeleteAccount, ForgetUser, Only
<1>4. ASSUME NEW x \in DOMAIN rt, Logout(x) PROVE rt'[r] = rt[r]
  BY <1>4 DEF Logout
<1>5. CASE UNCHANGED rt
  BY <1>5
<1>6. CASE NextAccounts
  <2>1. ASSUME NEW p \in Reqs,
               \/ LoginVerify(p) \/ RefreshSelect(p) \/ RefreshLookup(p) \/ RefreshMint(p)
               \/ InviteAuth(p) \/ CreateInvite(p) \/ DeleteAuth(p) \/ DeleteRefused(p)
        PROVE  UNCHANGED rt
    BY <2>1 DEF LoginVerify, RefreshSelect, RefreshLookup, RefreshMint, InviteAuth, CreateInvite,
                DeleteAuth, AsAdmin, DeleteRefused, tables
  <2>2. ASSUME NEW nm \in Names, Restart(nm) \/ \E i \in DOMAIN invite : Register(nm, i)
        PROVE  UNCHANGED rt
    BY <2>2 DEF Restart, Register
  <2>3. Tick => UNCHANGED rt
    BY DEF Tick, tables
  <2> QED
    BY <1>1, <1>2, <1>3, <1>4, <1>5, <1>6, <2>1, <2>2, <2>3 DEF NextAccounts
<1> QED
  BY <1>5, <1>6 DEF avars, tables

\* A revocation is permanent (Revoke, Validate's UPDATE).
THEOREM RevocationsPermanent == SpecAccounts => RevocationPermanent
<1>1. AInv /\ [NextAccounts]_avars
          => [\A r \in DOMAIN rt \cap DOMAIN rt' : rt[r].revoked => rt'[r] = rt[r]]_avars
  BY RevokedUntouched
<1> QED
  BY <1>1, AccountsInvariant, PTL DEF SpecAccounts, RevocationPermanent
=============================================================================
