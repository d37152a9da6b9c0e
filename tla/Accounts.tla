------------------------------ MODULE Accounts ------------------------------
(***************************************************************************)
(* Accounts of the relay: invites, registration, login, refresh tokens,    *)
(* access tokens and the deletion of users (internal/server/auth,          *)
(* api/auth_handlers.go, api/invite_handlers.go, store/invites.go,         *)
(* store/refresh_tokens.go, store/register.go).                            *)
(*                                                                         *)
(* A statement or a transaction is one step, with the clock reading it is  *)
(* given; signing an access token, which reads the clock again, is one of  *)
(* its own where the token is sent at once (refresh).  Requests interleave *)
(* between the steps and the clock moves between them.  Access tokens are  *)
(* not stored by the relay: jwts is the set of tokens clients may present. *)
(* A client may present any refresh token ever handed out.  Times are      *)
(* seconds, the precision the code truncates to.                           *)
(***************************************************************************)
EXTENDS Integers, FiniteSets

CONSTANTS
    Reqs,                 \* concurrent requests
    Names,                \* usernames
    MaxId,                \* [user, invite, rt |-> Nat]: bound on rows ever inserted
    MaxTime,              \* bound on the clock
    AccessTTL,            \* auth.jwt_ttl
    RefreshTTL,           \* refreshTTL
    InviteTTL             \* auth.invite_ttl, 0 = never expires

ASSUME AccountsAssumption ==
    /\ MaxId \in [user : Nat \ {0}, invite : Nat, rt : Nat] /\ MaxTime \in Nat
    /\ AccessTTL \in Nat /\ RefreshTTL \in Nat /\ InviteTTL \in Nat
    /\ Names # {}

Null == -1                \* SQL NULL

VARIABLES
    clock,
    user,                 \* id -> [name, admin]
    invite,               \* id -> [by, exp, usedBy, usedAt]
    rt,                   \* refresh_tokens: id -> [user, exp, revoked]
    seq,                  \* sqlite_sequence
    jwts,                 \* access tokens: [sub, name, admin, exp]
    req,                  \* [Reqs -> the request and its locals]
    gone,                 \* deleted user id -> [at: the time of the deletion,
                          \*   over: the refreshes that had found the account by then]
    admitted,             \* invite id -> accounts it ever admitted
    lastUse               \* refresh token id -> time it was last issued or slid

tables == <<user, invite, rt, seq>>
ghosts == <<gone, admitted, lastUse>>
avars  == <<clock, tables, jwts, req, ghosts>>

-----------------------------------------------------------------------------

With(f, i, v) == [x \in DOMAIN f \cup {i} |-> IF x = i THEN v ELSE f[x]]
Only(f, S)    == [x \in DOMAIN f \cap S |-> f[x]]

Free == [pc |-> "free"]

Begins(p)  == req[p] = Free
Answers(p) == req' = [req EXCEPT ![p] = Free]
Goes(p, j) == req' = [req EXCEPT ![p] = j]

\* Keeps the rows ever inserted within MaxId, requests in flight included.
Room(table, pc) == seq[table] + Cardinality({q \in Reqs : req[q].pc = pc}) < MaxId[table]

Taken(nm) == \E u \in DOMAIN user : user[u].name = nm

\* jwt.Issue, now, for the account u that was read as row a.
Signed(u, a) == [sub |-> u, name |-> a.name, admin |-> a.admin, exp |-> clock + AccessTTL]

\* The refreshes that have found the account u and not yet signed its token.
Minting(u) == {p \in Reqs : req[p].pc = "mint" /\ req[p].u = u}

\* jwt.Verify in AuthRequired.
Verifies(t) == t \in jwts /\ clock < t.exp

-----------------------------------------------------------------------------
(* Registration and bootstrap *)

\* A slip: users.id without AUTOINCREMENT, one more than the largest live id.
NewIdReused == (CHOOSE u \in DOMAIN user : \A v \in DOMAIN user : v <= u) + 1

NewId == seq.user + 1

\* A slip: the guard of the UPDATE is used_by_user_id IS NULL.
RedeemableByUser(i) ==
    invite[i].usedBy = Null /\ (invite[i].exp = Null \/ invite[i].exp > clock)

\* WHERE used_at IS NULL AND (expires_at IS NULL OR expires_at > now)
Redeemable(i) ==
    invite[i].usedAt = Null /\ (invite[i].exp = Null \/ invite[i].exp > clock)

\* store.Register: insert the user, consume the code, both or neither.
Register(nm, i) ==
    LET u == NewId IN
    /\ seq.user < MaxId.user
    /\ ~ Taken(nm) /\ i \in DOMAIN invite /\ Redeemable(i)
    /\ user' = With(user, u, [name |-> nm, admin |-> FALSE])
    /\ invite' = [invite EXCEPT ![i].usedBy = u, ![i].usedAt = clock]
    /\ seq' = [seq EXCEPT !.user = @ + 1]
    /\ admitted' = [admitted EXCEPT ![i] = @ \cup {seq.user + 1}]
    /\ UNCHANGED <<clock, rt, jwts, req, gone, lastUse>>

\* EnsureAdmin at a restart, which drops the requests in flight; the operator may
\* have changed the configured name.
Restart(nm) ==
    /\ IF Taken(nm) THEN UNCHANGED <<user, seq>>
       ELSE /\ seq.user < MaxId.user
            /\ user' = With(user, NewId, [name |-> nm, admin |-> TRUE])
            /\ seq' = [seq EXCEPT !.user = @ + 1]
    /\ req' = [p \in Reqs |-> Free]
    /\ UNCHANGED <<clock, invite, rt, jwts, ghosts>>

-----------------------------------------------------------------------------
(* login: the password is verified and the access token signed before the  *)
(* refresh token is stored                                                 *)

LoginVerify(p) ==
    /\ Begins(p) /\ Room("rt", "issue")
    /\ \E u \in DOMAIN user : Goes(p, [pc |-> "issue", token |-> Signed(u, user[u])])
    /\ UNCHANGED <<clock, tables, jwts, ghosts>>

\* RefreshTokens().Issue: the foreign key refuses a deleted user's token, and the
\* access token is then not sent.
LoginIssue(p) ==
    LET t == req[p].token
        r == seq.rt + 1
    IN
    /\ req[p].pc = "issue" /\ seq.rt < MaxId.rt
    /\ \/ /\ t.sub \in DOMAIN user
          /\ rt' = With(rt, r, [user |-> t.sub, exp |-> clock + RefreshTTL, revoked |-> FALSE])
          /\ seq' = [seq EXCEPT !.rt = r]
          /\ lastUse' = With(lastUse, r, clock)
          /\ jwts' = jwts \cup {t}
          /\ UNCHANGED <<user, invite, gone, admitted>>
       \/ t.sub \notin DOMAIN user /\ UNCHANGED <<tables, jwts, ghosts>>
    /\ Answers(p) /\ UNCHANGED clock

-----------------------------------------------------------------------------
(* refresh and logout *)

\* Validate's SELECT and checks.  A dead token is refused at once.
RefreshSelect(p) ==
    /\ Begins(p)
    /\ \E r \in DOMAIN rt :
          /\ ~ rt[r].revoked /\ rt[r].exp > clock
          /\ Goes(p, [pc |-> "slide", r |-> r, u |-> rt[r].user, now |-> clock])
    /\ UNCHANGED <<clock, tables, jwts, ghosts>>

\* A slip: the window grows from the old expiry.
RefreshSlideFromExpiry(p) ==
    LET j == req[p] IN
    /\ j.pc = "slide"
    /\ IF j.r \in DOMAIN rt /\ ~ rt[j.r].revoked
       THEN /\ rt' = [rt EXCEPT ![j.r].exp = @ + RefreshTTL]
            /\ lastUse' = [lastUse EXCEPT ![j.r] = clock]
       ELSE UNCHANGED <<rt, lastUse>>
    /\ Goes(p, [pc |-> "lookup", u |-> j.u])
    /\ UNCHANGED <<clock, user, invite, seq, jwts, gone, admitted>>

\* A slip: the UPDATE lacks AND revoked_at IS NULL.
RefreshSlideRevoked(p) ==
    LET j == req[p] IN
    /\ j.pc = "slide"
    /\ IF j.r \in DOMAIN rt
       THEN /\ rt' = [rt EXCEPT ![j.r].exp = j.now + RefreshTTL]
            /\ lastUse' = [lastUse EXCEPT ![j.r] = clock]
       ELSE UNCHANGED <<rt, lastUse>>
    /\ Goes(p, [pc |-> "lookup", u |-> j.u])
    /\ UNCHANGED <<clock, user, invite, seq, jwts, gone, admitted>>

\* The UPDATE may match no row by now; the owner is returned all the same.
RefreshSlide(p) ==
    LET j == req[p] IN
    /\ j.pc = "slide"
    /\ IF j.r \in DOMAIN rt /\ ~ rt[j.r].revoked
       THEN /\ rt' = [rt EXCEPT ![j.r].exp = j.now + RefreshTTL]
            /\ lastUse' = [lastUse EXCEPT ![j.r] = clock]
       ELSE UNCHANGED <<rt, lastUse>>
    /\ Goes(p, [pc |-> "lookup", u |-> j.u])
    /\ UNCHANGED <<clock, user, invite, seq, jwts, gone, admitted>>

\* A slip: the account Validate named is not looked up again.
RefreshLookupUnchecked(p) ==
    LET u == req[p].u IN
    /\ req[p].pc = "lookup"
    /\ \E nm \in Names : Goes(p, [pc |-> "mint", u |-> u, a |-> [name |-> nm, admin |-> FALSE]])
    /\ UNCHANGED <<clock, tables, jwts, ghosts>>

\* GetByID; an account that is gone ends the request.
RefreshLookup(p) ==
    LET u == req[p].u IN
    /\ req[p].pc = "lookup"
    /\ IF u \in DOMAIN user THEN Goes(p, [pc |-> "mint", u |-> u, a |-> user[u]]) ELSE Answers(p)
    /\ UNCHANGED <<clock, tables, jwts, ghosts>>

\* The new access token, signed for the account as it was found; by now it may be
\* gone, and nothing looks again.
RefreshMint(p) ==
    /\ req[p].pc = "mint" /\ jwts' = jwts \cup {Signed(req[p].u, req[p].a)}
    /\ Answers(p) /\ UNCHANGED <<clock, tables, ghosts>>

\* Revoke is one statement and idempotent.
Logout(r) ==
    /\ r \in DOMAIN rt /\ ~ rt[r].revoked
    /\ rt' = [rt EXCEPT ![r].revoked = TRUE]
    /\ UNCHANGED <<clock, user, invite, seq, jwts, req, ghosts>>

-----------------------------------------------------------------------------
(* createInvite and deleteUser: AuthRequired and AdminRequired look at the *)
(* claims only                                                             *)

AsAdmin(p, pc) ==
    /\ Begins(p)
    /\ \E t \in jwts : Verifies(t) /\ t.admin /\ Goes(p, [pc |-> pc, u |-> t.sub])
    /\ UNCHANGED <<clock, tables, jwts, ghosts>>

InviteAuth(p) == Room("invite", "invite") /\ AsAdmin(p, "invite")
DeleteAuth(p) == AsAdmin(p, "delete")

\* The foreign key refuses an invite by an administrator who is gone.
CreateInvite(p) ==
    LET i == seq.invite + 1 IN
    /\ req[p].pc = "invite" /\ seq.invite < MaxId.invite
    /\ IF req[p].u \in DOMAIN user
       THEN /\ invite' = With(invite, i,
                   [by |-> req[p].u, usedBy |-> Null, usedAt |-> Null,
                    exp |-> IF InviteTTL > 0 THEN clock + InviteTTL ELSE Null])
            /\ seq' = [seq EXCEPT !.invite = i]
            /\ admitted' = With(admitted, i, {})
       ELSE UNCHANGED <<invite, seq, admitted>>
    /\ Answers(p) /\ UNCHANGED <<clock, user, rt, jwts, gone, lastUse>>

\* ON DELETE SET NULL of invites, ON DELETE CASCADE of refresh_tokens.
ForgetUser(u) ==
    /\ invite' = [i \in DOMAIN invite |->
                     [invite[i] EXCEPT !.by = IF @ = u THEN Null ELSE @,
                                       !.usedBy = IF @ = u THEN Null ELSE @]]
    /\ rt' = Only(rt, {r \in DOMAIN rt : rt[r].user # u})

\* DeleteCascade; nobody deletes their own account or the last administrator.
DeleteAccount(p) ==
    /\ req[p].pc = "delete"
    /\ \E u \in DOMAIN user :
          /\ u # req[p].u
          /\ user[u].admin => \E v \in DOMAIN user \ {u} : user[v].admin
          /\ user' = Only(user, DOMAIN user \ {u})
          /\ ForgetUser(u)
          /\ gone' = With(gone, u, [at |-> clock, over |-> Minting(u)])
    /\ lastUse' = Only(lastUse, DOMAIN rt')
    /\ Answers(p) /\ UNCHANGED <<clock, seq, jwts, admitted>>

\* DeleteCascade refuses, or the id names nobody.
DeleteRefused(p) ==
    /\ req[p].pc = "delete" /\ Answers(p)
    /\ UNCHANGED <<clock, tables, jwts, ghosts>>

\* Time passes; an access token that no longer verifies is forgotten.
Tick ==
    /\ clock < MaxTime /\ clock' = clock + 1
    /\ jwts' = {t \in jwts : t.exp > clock'}
    /\ UNCHANGED <<tables, req, ghosts>>

-----------------------------------------------------------------------------

\* After the first start: the configured administrator.
InitAccounts ==
    /\ clock = 0
    /\ \E nm \in Names : user = [u \in {1} |-> [name |-> nm, admin |-> TRUE]]
    /\ invite = [i \in {} |-> 0] /\ rt = [r \in {} |-> 0]
    /\ seq = [user |-> 1, invite |-> 0, rt |-> 0]
    /\ jwts = {} /\ req = [p \in Reqs |-> Free]
    /\ gone = [u \in {} |-> 0] /\ admitted = [i \in {} |-> 0] /\ lastUse = [r \in {} |-> 0]

NextAccounts ==
    \/ \E p \in Reqs :
          \/ LoginVerify(p) \/ LoginIssue(p)
          \/ RefreshSelect(p) \/ RefreshSlide(p) \/ RefreshLookup(p) \/ RefreshMint(p)
          \/ InviteAuth(p) \/ CreateInvite(p)
          \/ DeleteAuth(p) \/ DeleteAccount(p) \/ DeleteRefused(p)
    \/ \E nm \in Names : Restart(nm) \/ \E i \in DOMAIN invite : Register(nm, i)
    \/ \E r \in DOMAIN rt : Logout(r)
    \/ Tick

SpecAccounts == InitAccounts /\ [][NextAccounts]_avars

-----------------------------------------------------------------------------
(* Properties *)

Time == 0 .. MaxTime
Ids(table) == 1 .. seq[table]

\* Rows have their types and ids that were handed out.
AccountsTypeOK ==
    /\ clock \in Time
    /\ seq \in [user : 1 .. MaxId.user, invite : 0 .. MaxId.invite, rt : 0 .. MaxId.rt]
    /\ user \in [DOMAIN user -> [name : Names, admin : BOOLEAN]] /\ DOMAIN user \subseteq Ids("user")
    /\ invite \in [Ids("invite") -> [by : Ids("user") \cup {Null}, exp : Nat \cup {Null},
                                     usedBy : Ids("user") \cup {Null}, usedAt : Time \cup {Null}]]
    /\ rt \in [DOMAIN rt -> [user : Ids("user"), exp : Nat, revoked : BOOLEAN]]
    /\ DOMAIN rt \subseteq Ids("rt") /\ lastUse \in [DOMAIN rt -> Time]
    /\ jwts \subseteq [sub : Ids("user"), name : Names, admin : BOOLEAN, exp : Nat]
    /\ gone \in [DOMAIN gone -> [at : Time, over : SUBSET Reqs]]
    /\ DOMAIN gone = Ids("user") \ DOMAIN user
    /\ admitted \in [Ids("invite") -> SUBSET Ids("user")]
    /\ DOMAIN req = Reqs

(***************************************************************************)
(* An invite admits one account, ever: also when the account it admitted   *)
(* has been deleted since and ON DELETE SET NULL has emptied the column    *)
(* that named it (Register's guard).                                       *)
(***************************************************************************)
InviteAdmitsOne == \A i \in DOMAIN admitted : Cardinality(admitted[i]) <= 1

(***************************************************************************)
(* A session nobody uses ends: a refresh token expires within RefreshTTL   *)
(* of its last use, however concurrent refreshes of it interleave          *)
(* (Validate: "an abandoned device stops working after this idle window"). *)
(***************************************************************************)
IdleSessionDies == \A r \in DOMAIN rt : rt[r].exp <= lastUse[r] + RefreshTTL

(***************************************************************************)
(* A deleted account dies: none of its refresh tokens is left, and no      *)
(* request in flight at its deletion, login or refresh, gives it an access *)
(* token that outlives the deletion by more than AccessTTL, except the     *)
(* refreshes that had found the account and were about to sign; after the  *)
(* deletion no other request gets that far (login, refresh, "rather than   *)
(* minting a token for a ghost account", which the code keeps up to the    *)
(* moment between GetByID and Issue).                                      *)
(***************************************************************************)
DeletedAccountDies ==
    /\ \A r \in DOMAIN rt : rt[r].user \in DOMAIN user
    /\ \A u \in DOMAIN gone :
          /\ Minting(u) \subseteq gone[u].over
          /\ gone[u].over = {} => \A t \in jwts : t.sub = u => t.exp <= gone[u].at + AccessTTL

(***************************************************************************)
(* Nobody inherits an identity: an access token whose subject is a live    *)
(* account was issued to that account, with its rights, although accounts  *)
(* are deleted and created while tokens are out (AUTOINCREMENT of          *)
(* users.id, Claims).                                                      *)
(***************************************************************************)
NoInheritedIdentity ==
    \A t \in jwts : t.sub \in DOMAIN user => /\ user[t.sub].name = t.name
                                             /\ user[t.sub].admin = t.admin

(***************************************************************************)
(* A revocation is permanent: whatever refresh had read the token before,  *)
(* its row is not touched again until it goes with its user (Revoke).      *)
(***************************************************************************)
RevocationPermanent ==
    [][\A r \in DOMAIN rt \cap DOMAIN rt' : rt[r].revoked => rt'[r] = rt[r]]_avars
=============================================================================
