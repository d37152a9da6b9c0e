--------------------------- MODULE SessionProofs ---------------------------
(***************************************************************************)
(* The safety properties of Session, for any number of accounts, names,    *)
(* sign-ins, registrations, faults and events: the types, the identity of  *)
(* the device, a clean log-out, no device left behind without a word, and  *)
(* no needless prompt for a password.                                      *)
(***************************************************************************)
EXTENDS Session, FiniteSetTheorems, WellFoundedInduction, TLAPS

Procs == {"fg", "bg"}
Fg    == job["fg"]
Bg    == job["bg"]

-----------------------------------------------------------------------------
(* Types *)

Held      == [l : 0 .. Len(owner), e : Nat]
TokenPair == [acc : Held, ref : 0 .. Len(owner)]
Steps   == {"idle", "none", "register", "login", "key", "node", "info", "save", "setAcc", "setRef",
            "me", "list", "delete", "revoke", "wipe", "refresh"}
Tasks   == {"none", "provision", "cancel", "load", "signin", "signin then log out", "logout",
            "lingering logout", "forced logout", "poll",
            "cmdLogin", "cmdRegister", "cycle", "cmdLogout"}
JobType == [pc : Steps, flow : Tasks, u : Users \cup {"none"}, name : Names \cup {"none"},
            key : Nat, ip : Nat, back : Steps, sent : Nat, again : BOOLEAN, tries : Nat,
            todo : Seq({"key", "acc", "ref", "rec"})]

ServerOK ==
    /\ kind \in Kinds /\ acct \subseteq Users /\ owner \in Seq(Users)
    /\ Len(owner) <= Bound[kind].logins /\ live \subseteq 1 .. Len(owner)
    /\ epoch \in Nat /\ events \in Nat /\ online \in BOOLEAN

\* Keys of this machine's devices are below those of others; addresses, and an account's names,
\* are distinct.
NodesOK ==
    /\ IsFiniteSet(DOMAIN node)
    /\ \A k \in DOMAIN node :
          /\ k \in Nat \ {0} /\ (k <= keys \/ k > Bound[kind].keys)
          /\ node[k] \in [name : Names, user : Users, ip : Nat \ {0}]
    /\ \A k, m \in DOMAIN node : k # m =>
          /\ node[k].ip # node[m].ip
          /\ node[k].user # node[m].user \/ node[k].name # node[m].name

LocalOK ==
    /\ keys \in 0 .. Bound[kind].keys
    /\ ring \in [key : 0 .. keys, acc : Held, ref : 0 .. Len(owner)]
    /\ rec \in [key : 0 .. keys, name : Names \cup {"none"}, ip : Nat]
    /\ rec = NoRecord \/ rec.key # 0
    /\ client \in [Procs -> TokenPair]

MarksOK ==
    /\ screen \in {"wizard", "shell", "opening", "panel", "blocked"} \cup Prompts
    /\ loops \in BOOLEAN /\ faults \in Nat /\ told \in Nat /\ unsaid \in Nat
    /\ cracked \in BOOLEAN /\ stranger \in BOOLEAN /\ straggler \in BOOLEAN
    /\ out \in [how : Tasks, key : 0 .. keys]

\* The step of its flow a process is at, also while it refreshes its access token.
Place(j) == IF j.pc = "refresh" THEN j.back ELSE j.pc

Registering == {"provision", "cmdRegister"}
SigningIn   == {"signin", "signin then log out"}
Forms       == {"provision", "cmdLogin"} \cup SigningIn
Lingering   == {"lingering logout", "forced logout"}

Flows(p) ==
    IF kind = "desktop"
    THEN IF p = "fg" THEN {"provision", "cancel", "load", "logout"} \cup SigningIn \cup Lingering
                     ELSE {"poll"}
    ELSE IF p = "fg" THEN {"cmdLogin", "cmdRegister", "cycle", "cmdLogout", "forced logout"}
                     ELSE {"cycle"}

\* The steps of every flow.
Placed(j) ==
    \/ j.flow = "provision" /\ Place(j) \in {"register", "login", "key", "node", "info", "save", "setAcc", "setRef"}
    \/ j.flow = "cmdRegister" /\ Place(j) \in {"key", "node", "info", "save", "setAcc", "setRef"}
    \/ j.flow = "cmdLogin" /\ Place(j) \in {"register", "login", "setAcc", "setRef"}
    \/ j.flow \in SigningIn /\ Place(j) \in {"login", "setAcc", "setRef"}
    \/ j.flow = "load" /\ Place(j) = "me"
    \/ j.flow = "logout" /\ Place(j) \in {"list", "delete", "revoke", "wipe"}
    \/ j.flow = "cmdLogout" /\ Place(j) \in {"delete", "revoke", "wipe"}
    \/ j.flow \in Lingering /\ Place(j) \in {"revoke", "wipe"}
    \/ j.flow = "cancel" /\ Place(j) = "wipe"
    \/ j.flow = "poll" /\ Place(j) = "list"
    \/ j.flow = "cycle" /\ Place(j) \in {"list", "setAcc", "setRef"}

\* What is left to delete, in the orders of tearDownLocal, Cleanup and cmdLogout.
Stages == {<<"key", "acc", "ref", "rec">>, <<"acc", "ref", "rec">>, <<"ref", "rec">>, <<"rec">>,
           <<"acc", "ref", "key", "rec">>, <<"ref", "key", "rec">>, <<"key", "rec">>}

Working(j, p) ==
    /\ j.flow \in Flows(p) /\ Placed(j)
    /\ j.pc = "refresh" => j.back \in AuthCalls /\ j.sent \in 1 .. Len(owner)
    /\ j.flow \in Forms => j.u \in Users
    /\ j.flow \in Registering => j.name \in Names
    /\ j.pc = "wipe" => j.todo \in Stages
    /\ Place(j) \in {"register", "login"} => Len(owner) < Bound[kind].logins
    /\ Place(j) \in {"register", "login", "key"} /\ j.flow \in Registering => keys < Bound[kind].keys

JobsOK ==
    /\ job \in [Procs -> JobType]
    /\ \A p \in Procs : job[p] = Idle \/ Working(job[p], p)

TypeInv == ServerOK /\ NodesOK /\ LocalOK /\ MarksOK /\ JobsOK

-----------------------------------------------------------------------------
(* What the window shows tells what the panel does *)

ScreenOK ==
    IF kind = "router" THEN screen = "shell" ELSE
    /\ screen # "shell"
    /\ Fg.flow \in {"provision", "cancel"} => screen = "wizard"
    /\ Fg.flow = "load" => screen = "opening"
    /\ Fg.flow = "signin" => screen = "prompt"
    /\ Fg.flow = "signin then log out" => screen = "prompt to log out"
    /\ Fg.flow \in {"logout"} \cup Lingering => screen \in {"panel", "blocked"}
    /\ screen \in {"wizard", "opening"} => ~ loops /\ Bg = Idle
    /\ screen = "wizard" \/ rec # NoRecord

-----------------------------------------------------------------------------
(* The device's identity *)

\* A registration has its key and not yet its record.
InHand  == Fg.flow \in Registering /\ Place(Fg) \in {"node", "info", "save"}
\* The record is saved and the tokens are not.
Caching == Fg.flow = "provision" /\ Fg.pc \in {"setAcc", "setRef"}

\* The record and the registration on its way have the name and the address the server knows.
Recorded ==
    /\ rec.key \in DOMAIN node => node[rec.key].name = rec.name /\ node[rec.key].ip = rec.ip
    /\ InHand => Fg.key = ring.key /\ Fg.key = keys /\ keys # 0 /\ rec.key # keys
    /\ InHand /\ Place(Fg) = "node" => Fg.key \notin DOMAIN node
    /\ InHand /\ Place(Fg) # "node" /\ Fg.key \in DOMAIN node =>
          node[Fg.key].name = Fg.name /\ node[Fg.key].ip = Fg.ip

\* A machine that registers has no record, until it is saved.
Bare ==
    /\ Caching => rec # NoRecord
    /\ Fg.flow = "cmdRegister" /\ Fg.pc \notin {"setAcc", "setRef"} => rec = NoRecord
    /\ kind = "desktop" /\ ~ cracked =>
          /\ screen = "wizard" /\ ~ Caching => rec = NoRecord
          /\ rec = NoRecord \/ (Caching /\ Fg.pc = "setAcc") => ring.acc = NoToken
          /\ rec = NoRecord \/ Caching => ring.ref = 0

\* The secure store has the recorded device's key.
Matched == (kind = "router" \/ ~ cracked) /\ rec # NoRecord /\ ring.key # 0 => ring.key = rec.key

IdentityInv == Recorded /\ Bare /\ Matched

-----------------------------------------------------------------------------
(* Devices left behind *)

Known    == {k \in DOMAIN node \cap 1 .. keys : ~ (InHand /\ k = Fg.key)}
Left     == Known \ {rec.key}
\* How many devices may have been left behind.
Credit   == told + unsaid
\* Enough has been counted for the recorded device to be left behind as well.
Credited == Cardinality(Known) <= Credit

CreditInv ==
    /\ Cardinality(Left) <= Credit
    /\ kind = "desktop" /\ screen = "wizard" /\ ~ Caching => Credited
    /\ Fg.flow \in Lingering => Credited

-----------------------------------------------------------------------------
(* The account of the session *)

\* Neither a failed write nor a foreign sign-in, or the user does not know of one.
Trusted == (~ cracked /\ ~ stranger) \/ ~ Credited

Of(l, u) == l # 0 => owner[l] = u

\* On the desktop every token is one of the recorded device's owner.
OneUser ==
    kind = "desktop" =>
       /\ Trusted /\ rec.key \in DOMAIN node =>
             LET u == node[rec.key].user IN
             /\ Of(client["fg"].acc.l, u) /\ Of(client["fg"].ref, u)
             /\ \A p \in Procs : job[p].pc = "refresh" => Of(job[p].sent, u)
             /\ (Caching /\ Fg.pc = "setAcc") \/ Of(ring.acc.l, u)
             /\ Caching \/ Of(ring.ref, u)
       /\ InHand /\ Fg.key \in DOMAIN node => Of(client["fg"].ref, node[Fg.key].user)

\* The panel's Client has the cached refresh token.
ClientInv ==
    kind = "desktop" =>
       /\ Fg.flow = "provision" /\ Place(Fg) \notin {"register", "login"} =>
             client["fg"].ref # 0 /\ client["fg"].acc.l = client["fg"].ref
       /\ Fg.flow \in SigningIn /\ Fg.pc # "login" => client["fg"].ref # 0
       /\ Fg.pc = "refresh" => Fg.sent = client["fg"].ref
       /\ Fg.again => Accepted("fg")
       /\ ~ cracked /\ (IF Fg = Idle THEN screen \notin {"wizard", "opening"}
                        ELSE \/ Fg.flow = "load"
                             \/ Fg.flow = "logout" /\ Place(Fg) \in {"list", "delete"}
                             \/ Fg.flow \in SigningIn /\ Fg.pc = "login")
          => client["fg"].ref = ring.ref \/ ring.acc = NoToken

-----------------------------------------------------------------------------
(* Log-out *)

Needs(x, s) == \E i \in DOMAIN s : s[i] = x
Calm == ~ cracked /\ (kind = "desktop" \/ ~ straggler)

\* What is no longer to be deleted is gone, and nobody writes it again.
Wiping ==
    Fg.pc = "wipe" =>
       /\ Fg.flow # "cancel" /\ kind = "desktop" => Fg.todo # <<"key", "acc", "ref", "rec">>
       /\ Calm =>
             /\ ~ Needs("key", Fg.todo) => ring.key = 0
             /\ ~ Needs("acc", Fg.todo) => ring.acc = NoToken
             /\ ~ Needs("ref", Fg.todo) => ring.ref = 0
             /\ kind = "router" => Bg = Idle \/ Fg.todo = WipeOrder

\* After a log-out only a cycle that has no tokens still runs.
LoggedOut ==
    out.how # "none" =>
       /\ Fg.flow \notin Registering
       /\ Calm => /\ ring = EmptyRing /\ rec = NoRecord /\ Fg = Idle
                  /\ kind = "desktop" => screen = "wizard"
                  /\ Bg = Idle \/ (client["bg"] = NoTokens /\ Bg.pc # "refresh")

\* The device is deleted before anything local is.
Deleted ==
    /\ Fg.flow = "cmdLogout" =>
          /\ rec # NoRecord /\ Fg.key = rec.key
          /\ Fg.pc \in {"revoke", "wipe"} => rec.key \notin DOMAIN node
    /\ Fg.flow = "logout" /\ Trusted =>
          /\ Fg.pc \in {"revoke", "wipe"} => rec.key \notin DOMAIN node
          /\ Place(Fg) = "delete" /\ rec.key \in DOMAIN node => Fg.key = rec.key
    /\ out.how = "cmdLogout" \/ (out.how = "logout" /\ ~ stranger /\ ~ cracked)
          => out.key \notin DOMAIN node

LogoutInv == Wiping /\ LoggedOut /\ Deleted

SessionInv == TypeInv /\ ScreenOK /\ IdentityInv /\ CreditInv /\ OneUser /\ ClientInv /\ LogoutInv

-----------------------------------------------------------------------------
(* Steps of a process *)

SameTask(j, k) ==
    /\ k.flow = j.flow /\ k.u = j.u /\ k.name = j.name /\ k.key = j.key /\ k.ip = j.ip
    /\ k.back = j.back /\ k.sent = j.sent /\ k.todo = j.todo

\* The other process stays where it is.
Other(p) == \A q \in Procs : q # p => job'[q] = job[q]

\* A process that is idle.
LEMMA IdleJob ==
    /\ Idle \in JobType /\ Idle.pc = "idle" /\ Idle.flow = "none" /\ ~ Idle.again
    /\ Place(Idle) = "idle"
<1>1. <<>> \in Seq({"key", "acc", "ref", "rec"})
  OBVIOUS
<1>2. Idle \in JobType
  BY <1>1 DEF Idle, JobType, Steps, Tasks
<1>3. Idle.pc = "idle" /\ Idle.flow = "none"
  BY DEF Idle
<1>4. ~ Idle.again
  BY DEF Idle
<1> QED
  BY <1>2, <1>3, <1>4 DEF Place

\* One process has a new job, the other keeps its own.
LEMMA Moves ==
    ASSUME job \in [Procs -> JobType], NEW p \in Procs, NEW j \in JobType,
           job' = [job EXCEPT ![p] = j]
    PROVE  job' \in [Procs -> JobType] /\ job'[p] = j /\ Other(p)
  BY DEF Other

\* Goes: the next step of the flow.
LEMMA GoesStep ==
    ASSUME job \in [Procs -> JobType], NEW p \in Procs, NEW pc \in Steps, Goes(p, pc)
    PROVE  /\ job' \in [Procs -> JobType] /\ Other(p)
           /\ job'[p].pc = pc /\ ~ job'[p].again /\ SameTask(job[p], job'[p])
<1> DEFINE j == [job[p] EXCEPT !.pc = pc, !.again = FALSE]
<1>1. job' = [job EXCEPT ![p] = j]
  BY DEF Goes
<1>2. j \in JobType /\ j.pc = pc /\ ~ j.again /\ SameTask(job[p], j)
  BY DEF JobType, SameTask
<1> HIDE DEF j
<1> QED
  BY <1>1, <1>2, Moves

\* A refresh is asked for, with the refresh token r.
LEMMA AsksStep ==
    ASSUME job \in [Procs -> JobType], NEW p \in Procs, NEW r \in Nat,
           job' = [job EXCEPT ![p].pc = "refresh", ![p].back = job[p].pc, ![p].sent = r]
    PROVE  /\ job' \in [Procs -> JobType] /\ Other(p)
           /\ job'[p].pc = "refresh" /\ job'[p].back = job[p].pc /\ job'[p].sent = r
           /\ (job'[p].again => job[p].again) /\ job'[p].flow = job[p].flow /\ job'[p].u = job[p].u
           /\ job'[p].name = job[p].name /\ job'[p].key = job[p].key /\ job'[p].ip = job[p].ip
<1> DEFINE j == [job[p] EXCEPT !.pc = "refresh", !.back = job[p].pc, !.sent = r]
<1>1. job' = [job EXCEPT ![p] = j]
  OBVIOUS
<1>2. /\ j \in JobType /\ j.pc = "refresh" /\ j.back = job[p].pc /\ j.sent = r
      /\ j.flow = job[p].flow /\ j.u = job[p].u
      /\ j.name = job[p].name /\ j.key = job[p].key /\ j.ip = job[p].ip
  <2>1. "refresh" \in Steps /\ job[p] \in JobType
    BY DEF Steps
  <2> QED
    BY <2>1 DEF JobType
<1>3. j.again => job[p].again
  BY DEF JobType
<1> HIDE DEF j
<1> QED
  BY <1>1, <1>2, <1>3, Moves

\* A refresh is answered: the call is made again.
LEMMA ReturnsStep ==
    ASSUME job \in [Procs -> JobType], NEW p \in Procs,
           job' = [job EXCEPT ![p].pc = job[p].back, ![p].again = TRUE]
    PROVE  /\ job' \in [Procs -> JobType] /\ Other(p)
           /\ job'[p].pc = job[p].back /\ SameTask(job[p], job'[p])
<1> DEFINE j == [job[p] EXCEPT !.pc = job[p].back, !.again = TRUE]
<1>1. job' = [job EXCEPT ![p] = j]
  OBVIOUS
<1>2. j \in JobType /\ j.pc = job[p].back /\ SameTask(job[p], j)
  BY DEF JobType, SameTask
<1> HIDE DEF j
<1> QED
  BY <1>1, <1>2, Moves

\* Ends: the flow is over.
LEMMA EndsStep ==
    ASSUME job \in [Procs -> JobType], NEW p \in Procs, Ends(p)
    PROVE  job' \in [Procs -> JobType] /\ Other(p) /\ job'[p] = Idle
<1>1. job' = [job EXCEPT ![p] = Idle]
  BY DEF Ends
<1> QED
  BY <1>1, IdleJob, Moves

\* Begins: a flow without parameters.
LEMMA BeginsStep ==
    ASSUME job \in [Procs -> JobType], NEW p \in Procs, NEW pc \in Steps, NEW f \in Tasks,
           Begins(p, pc, f)
    PROVE  /\ job' \in [Procs -> JobType] /\ Other(p)
           /\ job'[p].pc = pc /\ job'[p].flow = f /\ ~ job'[p].again
<1> DEFINE j == [Idle EXCEPT !.pc = pc, !.flow = f]
<1>1. job' = [job EXCEPT ![p] = j]
  BY DEF Begins
<1>2. j \in JobType /\ j.pc = pc /\ j.flow = f /\ ~ j.again
  BY IdleJob DEF JobType
<1> HIDE DEF j
<1> QED
  BY <1>1, <1>2, Moves

\* Starts: a flow with a form's user and name.
LEMMA StartsStep ==
    ASSUME job \in [Procs -> JobType], NEW pc \in Steps, NEW f \in Tasks,
           NEW u \in Users \cup {"none"}, NEW nm \in Names \cup {"none"}, Starts(f, pc, u, nm)
    PROVE  /\ job' \in [Procs -> JobType] /\ Other("fg")
           /\ Fg'.pc = pc /\ Fg'.flow = f /\ ~ Fg'.again /\ Fg'.u = u /\ Fg'.name = nm
<1> DEFINE j == [Idle EXCEPT !.flow = f, !.pc = pc, !.u = u, !.name = nm]
<1>1. job' = [job EXCEPT !["fg"] = j]
  BY DEF Starts
<1>2. j \in JobType /\ j.pc = pc /\ j.flow = f /\ ~ j.again /\ j.u = u /\ j.name = nm
  BY IdleJob DEF JobType
<1> HIDE DEF j
<1> QED
  BY <1>1, <1>2, Moves DEF Procs, Fg

\* One process moves, while no sign-in and no registration is counted.
LEMMA JobsStep ==
    ASSUME JobsOK, UNCHANGED <<kind, keys, owner>>, NEW p \in Procs,
           job' \in [Procs -> JobType], Other(p), job'[p] = Idle \/ Working(job'[p], p)
    PROVE  JobsOK'
<1> SUFFICES ASSUME NEW q \in Procs, job'[q] # Idle PROVE Working(job[q], q)'
  BY DEF JobsOK
<1>1. Working(job'[q], q)
  BY DEF JobsOK, Other
<1> QED
  BY <1>1 DEF Working, Flows

\* The Client of a router's command or cycle ends with it; the panel's stays.
LEMMA ClientKept ==
    ASSUME ServerOK, client \in [Procs -> TokenPair], KeepsClient
    PROVE  /\ client' \in [Procs -> TokenPair]
           /\ kind = "desktop" => client' = client
           /\ \A p \in Procs : client'[p] = client[p] \/ client'[p] = NoTokens
<1>1. NoTokens \in TokenPair
  <2>1. Len(owner) \in Nat
    BY DEF ServerOK
  <2> QED
    BY <2>1 DEF NoTokens, NoToken, TokenPair, Held
<1> QED
  BY <1>1 DEF KeepsClient, Procs

-----------------------------------------------------------------------------
(* Counting the devices left behind *)

\* The devices counted are finitely many, and the recorded one is at most one of them.
LEMMA KnownFinite ==
    ASSUME NodesOK
    PROVE  /\ IsFiniteSet(Known) /\ Cardinality(Known) \in Nat
           /\ IsFiniteSet(Left) /\ Cardinality(Left) \in Nat
           /\ Cardinality(Known) <= Cardinality(Left) + 1
<1>1. Known \in SUBSET (DOMAIN node) /\ Left \in SUBSET Known
  BY DEF Known, Left
<1>2. IsFiniteSet(Known) /\ IsFiniteSet(Left)
  BY <1>1, FS_Subset DEF NodesOK
<1>3. Cardinality(Known) \in Nat /\ Cardinality(Left) \in Nat
  BY <1>2, FS_CardinalityType
<1>4. Cardinality(Left) = IF rec.key \in Known THEN Cardinality(Known) - 1 ELSE Cardinality(Known)
  BY <1>2, FS_RemoveElement DEF Left
<1> QED
  BY <1>2, <1>3, <1>4

\* At most one element more.
LEMMA OneMore ==
    ASSUME NEW S, NEW T, NEW x, IsFiniteSet(S), T \subseteq S \cup {x}
    PROVE  /\ IsFiniteSet(T) /\ Cardinality(T) \in Nat /\ Cardinality(S) \in Nat
           /\ Cardinality(T) <= Cardinality(S) + 1
<1>1. /\ IsFiniteSet(S \cup {x})
      /\ Cardinality(S \cup {x}) = IF x \in S THEN Cardinality(S) ELSE Cardinality(S) + 1
  BY FS_AddElement
<1>2. T \in SUBSET (S \cup {x})
  OBVIOUS
<1>3. IsFiniteSet(T) /\ Cardinality(T) <= Cardinality(S \cup {x})
  BY <1>1, <1>2, FS_Subset
<1>4. Cardinality(T) \in Nat /\ Cardinality(S) \in Nat
  BY <1>3, FS_CardinalityType
<1> QED
  BY <1>1, <1>3, <1>4

\* What a step does to the count.
CreditStep == (Credited => Credited') /\ Cardinality(Left') <= Credit'

\* Two sums that differ in one summand.
LEMMA SumStep ==
    ASSUME NEW a \in Nat, NEW b \in Nat, NEW c \in Nat
    PROVE  /\ a + b \in Nat /\ c + b \in Nat
           /\ c >= a => c + b >= a + b
           /\ c = a + 1 => c + b = a + b + 1
  OBVIOUS

\* A step after which the user has been told more, or as much, and nothing went unsaid.
LEMMA CreditKept ==
    ASSUME SessionInv, told' \in Nat, unsaid' = unsaid
    PROVE  /\ Credit \in Nat /\ Credit' \in Nat
           /\ told' >= told => Credit' >= Credit
           /\ told' = told + 1 => Credit' = Credit + 1
           /\ told' = told => Credit' = Credit
<1>1. told \in Nat /\ unsaid \in Nat
  BY DEF SessionInv, TypeInv, MarksOK
<1>2. PICK c \in Nat : c = told'
  OBVIOUS
<1>3. /\ told + unsaid \in Nat /\ c + unsaid \in Nat
      /\ c >= told => c + unsaid >= told + unsaid
      /\ c = told + 1 => c + unsaid = told + unsaid + 1
  BY <1>1, SumStep
<1>4. Credit = told + unsaid /\ Credit' = c + unsaid
  BY <1>2 DEF Credit
<1> QED
  BY <1>2, <1>3, <1>4, Zenon

\* Nothing is left behind.
LEMMA CreditStays ==
    ASSUME NodesOK, CreditInv, Credit \in Nat, Credit' \in Nat, Credit' >= Credit,
           Known' \subseteq Known, Left' \subseteq Left
    PROVE  CreditStep
<1>1. Known' \in SUBSET Known /\ Left' \in SUBSET Left
  OBVIOUS
<1>2. /\ IsFiniteSet(Known') /\ Cardinality(Known') <= Cardinality(Known)
      /\ IsFiniteSet(Left') /\ Cardinality(Left') <= Cardinality(Left)
  BY <1>1, KnownFinite, FS_Subset
<1>3. Cardinality(Known') \in Nat /\ Cardinality(Left') \in Nat
  BY <1>2, FS_CardinalityType
<1> QED
  BY <1>2, <1>3, KnownFinite DEF CreditStep, Credited, CreditInv

\* One device is left behind, and it is counted.
LEMMA CreditDrops ==
    ASSUME NodesOK, CreditInv, Credit \in Nat, Credit' = Credit + 1, NEW x,
           Known' \subseteq Known \cup {x}, Left' \subseteq Left \cup {x}
    PROVE  CreditStep
<1>1. Cardinality(Known') \in Nat /\ Cardinality(Known') <= Cardinality(Known) + 1
  BY KnownFinite, OneMore
<1>2. Cardinality(Left') \in Nat /\ Cardinality(Left') <= Cardinality(Left) + 1
  BY KnownFinite, OneMore
<1> QED
  BY <1>1, <1>2, KnownFinite DEF CreditStep, Credited, CreditInv

\* One more is counted, whatever it may be.
LEMMA CreditPaid ==
    ASSUME NodesOK, CreditInv, Credit \in Nat, Credit' = Credit + 1, Known' \subseteq Known
    PROVE  Credited' /\ CreditStep
<1>1. Known' \in SUBSET Known /\ Left' \in SUBSET Known
  BY DEF Left
<1>2. /\ IsFiniteSet(Known') /\ Cardinality(Known') <= Cardinality(Known)
      /\ IsFiniteSet(Left') /\ Cardinality(Left') <= Cardinality(Known)
  BY <1>1, KnownFinite, FS_Subset
<1>3. Cardinality(Known') \in Nat /\ Cardinality(Left') \in Nat
  BY <1>2, FS_CardinalityType
<1> QED
  BY <1>2, <1>3, KnownFinite DEF CreditStep, Credited, CreditInv

\* Without a record nothing more is left behind by losing it.
LEMMA NoRecordCredited ==
    ASSUME NodesOK, CreditInv, rec.key \notin DOMAIN node
    PROVE  Credited
<1>1. Left = Known
  BY DEF Left, Known
<1> QED
  BY <1>1 DEF CreditInv, Credited

-----------------------------------------------------------------------------
(* The server's nodes *)

\* Nodes are only removed.
Shrinks == DOMAIN node' \subseteq DOMAIN node /\ \A k \in DOMAIN node' : node'[k] = node[k]

\* Removing nodes keeps what is known of them.
LEMMA ShrinkingNodes ==
    ASSUME NodesOK, Shrinks, kind' = kind, keys \in Nat, keys' \in Nat, keys' >= keys
    PROVE  NodesOK'
<1>1. DOMAIN node' \in SUBSET (DOMAIN node)
  BY DEF Shrinks
<1>2. IsFiniteSet(DOMAIN node')
  BY <1>1, FS_Subset DEF NodesOK
<1>3. ASSUME NEW k \in DOMAIN node'
      PROVE  /\ k \in Nat \ {0} /\ (k <= keys' \/ k > Bound[kind].keys)
             /\ node'[k] \in [name : Names, user : Users, ip : Nat \ {0}]
  BY <1>1 DEF NodesOK, Shrinks
<1>4. ASSUME NEW k \in DOMAIN node', NEW m \in DOMAIN node', k # m
      PROVE  /\ node'[k].ip # node'[m].ip
             /\ node'[k].user # node'[m].user \/ node'[k].name # node'[m].name
  BY <1>1, <1>4 DEF NodesOK, Shrinks
<1> QED
  BY <1>2, <1>3, <1>4 DEF NodesOK

\* A deletion only removes.
LEMMA Removal ==
    ASSUME NEW k, node' = Without(k) \/ node' = node
    PROVE  Shrinks
  BY DEF Shrinks, Without

\* A non-empty set of naturals has a least element.
LEMMA LeastNatural ==
    ASSUME NEW S \in SUBSET Nat, S # {}
    PROVE  \E x \in S : \A y \in S : x <= y
<1> DEFINE Less == {p \in Nat \X Nat : p[1] < p[2]}
<1>1. IsWellFoundedOn(Less, Nat)
  BY NatLessThanWellFounded, Zenon DEF OpToRel
<1>2. PICK x \in S : \A y \in S : ~ (<<y, x>> \in Less)
  BY <1>1, WFMin
<1>3. ASSUME NEW y \in S PROVE x <= y
  <2>1. <<y, x>> \in Nat \X Nat /\ <<y, x>>[1] = y /\ <<y, x>>[2] = x
    OBVIOUS
  <2> QED
    BY <1>2, <2>1
<1> QED
  BY <1>3

\* The server finds a free address: one more than there are nodes cannot all be taken.
LEMMA FreeIpExists ==
    ASSUME NodesOK
    PROVE  FreeIp \in Nat \ {0} /\ \A k \in DOMAIN node : node[k].ip # FreeIp
<1> DEFINE n    == Cardinality(DOMAIN node)
           All  == 1 .. n + 1
           Used == {node[k].ip : k \in DOMAIN node}
           f    == [k \in DOMAIN node |-> node[k].ip]
<1>1. IsFiniteSet(DOMAIN node) /\ n \in Nat
  BY FS_CardinalityType DEF NodesOK
<1>2. IsFiniteSet(Used) /\ Cardinality(Used) <= n
  <2>1. f \in Surjection(DOMAIN node, Used)
    BY DEF Surjection
  <2> QED
    BY <1>1, <2>1, FS_Surjection
<1>3. IsFiniteSet(All) /\ Cardinality(All) = n + 1
  <2>1. 1 \in Int /\ n + 1 \in Int /\ ~ (1 > n + 1) /\ (n + 1) - 1 + 1 = n + 1
    <3> HIDE DEF n
    <3> QED BY <1>1
  <2> QED
    BY <2>1, FS_Interval
<1>4. Cardinality(Used) \in Nat
  BY <1>2, FS_CardinalityType
<1> HIDE DEF n
<1>5. ~ (All \subseteq Used)
  <2> SUFFICES ASSUME All \in SUBSET Used PROVE FALSE
    OBVIOUS
  <2>1. Cardinality(All) <= Cardinality(Used)
    BY <1>2, FS_Subset
  <2> QED
    BY <1>1, <1>2, <1>3, <1>4, <2>1
<1> DEFINE Spare == All \ Used
<1>6. Spare \in SUBSET Nat /\ Spare # {}
  BY <1>1, <1>5
<1>7. PICK i \in Spare : \A y \in Spare : i <= y
  BY <1>6, LeastNatural
<1>8. i \in 1 .. n + 1 /\ \A k \in DOMAIN node : node[k].ip # i
  BY <1>7
<1>9. ASSUME NEW j \in 1 .. i - 1 PROVE \E k \in DOMAIN node : node[k].ip = j
  <2>1. j \in All /\ ~ (i <= j)
    BY <1>1, <1>8
  <2>2. j \notin Spare
    BY <1>7, <2>1
  <2> QED
    BY <2>1, <2>2
<1>10. /\ FreeIp \in 1 .. n + 1
       /\ \A k \in DOMAIN node : node[k].ip # FreeIp
  BY <1>8, <1>9, Zenon DEF FreeIp, n
<1> QED
  BY <1>1, <1>10

\* A registration keeps addresses and names distinct.
LEMMA GrowingNodes ==
    ASSUME NodesOK, NEW k \in Nat \ {0}, NEW nm \in Names, NEW u \in Users,
           k <= keys \/ k > Bound[kind].keys, ~ Taken(nm, u), node' = Registered(k, nm, u),
           kind' = kind, keys' = keys
    PROVE  /\ NodesOK' /\ DOMAIN node' = DOMAIN node \cup {k}
           /\ node'[k] = [name |-> nm, user |-> u, ip |-> FreeIp]
           /\ \A m \in DOMAIN node : m # k => node'[m] = node[m]
<1> DEFINE i == FreeIp
<1>1. i \in Nat \ {0} /\ \A m \in DOMAIN node : node[m].ip # i
  BY FreeIpExists
<1> HIDE DEF i
<1>2. /\ DOMAIN node' = DOMAIN node \cup {k}
      /\ node'[k] = [name |-> nm, user |-> u, ip |-> i]
      /\ \A m \in DOMAIN node : m # k => node'[m] = node[m]
  BY DEF Registered, i
<1>3. IsFiniteSet(DOMAIN node')
  BY <1>2, FS_AddElement DEF NodesOK
<1>4. ASSUME NEW m \in DOMAIN node'
      PROVE  /\ m \in Nat \ {0} /\ (m <= keys \/ m > Bound[kind].keys)
             /\ node'[m] \in [name : Names, user : Users, ip : Nat \ {0}]
  BY <1>1, <1>2 DEF NodesOK
<1>5. ASSUME NEW a \in DOMAIN node', NEW b \in DOMAIN node', a # b
      PROVE  /\ node'[a].ip # node'[b].ip
             /\ node'[a].user # node'[b].user \/ node'[a].name # node'[b].name
  BY <1>1, <1>2, <1>5 DEF NodesOK, Taken
<1> QED
  BY <1>2, <1>3, <1>4, <1>5 DEF NodesOK, i

\* This machine's devices are only removed.
OwnShrinks == \A k \in 0 .. keys : k \in DOMAIN node' => k \in DOMAIN node /\ node'[k] = node[k]

\* Whatever other machines register, this one's devices are only removed.
LEMMA ShrinkingOwn ==
    ASSUME Shrinks
    PROVE  OwnShrinks
  BY DEF Shrinks, OwnShrinks

-----------------------------------------------------------------------------
(* The surroundings *)

\* Nothing local changes.
LEMMA OutsideStep ==
    ASSUME SessionInv, ServerOK', NodesOK', OwnShrinks, epoch' = epoch \/ ~ Fg.again,
           UNCHANGED <<kind, local, ui, client, job, keys, owner, faults, history>>
    PROVE  SessionInv'
<1>1. UNCHANGED <<ring, rec, screen, loops, told, unsaid, cracked, stranger, straggler, out, InHand, Caching>>
  BY DEF local, ui, history, marks, InHand, Caching, Fg, Place
<1>2. LocalOK' /\ MarksOK' /\ JobsOK' /\ keys \in Nat /\ rec.key \in 0 .. keys /\ out.key \in 0 .. keys
  <2>1. LocalOK'
    BY <1>1 DEF SessionInv, TypeInv, LocalOK, TokenPair, Held
  <2>2. MarksOK'
    BY <1>1 DEF SessionInv, TypeInv, MarksOK
  <2>3. JobsOK'
    BY <1>1 DEF SessionInv, TypeInv, JobsOK, Working, Flows
  <2> QED
    BY <2>1, <2>2, <2>3 DEF SessionInv, TypeInv, LocalOK, MarksOK
<1>3. ScreenOK'
  BY <1>1 DEF SessionInv, ScreenOK, Fg, Bg
<1>4. IdentityInv'
  <2>1. Recorded'
    BY <1>1, <1>2 DEF SessionInv, IdentityInv, Recorded, OwnShrinks, Fg, InHand
  <2>2. Bare' /\ Matched'
    BY <1>1 DEF SessionInv, IdentityInv, Bare, Matched, Fg
  <2> QED
    BY <2>1, <2>2 DEF IdentityInv
<1>5. CreditStep
  <2>1. Known' \subseteq Known /\ Left' \subseteq Left
    BY <1>1, <1>2 DEF Known, Left, OwnShrinks, Fg
  <2> QED
    BY <1>1, <1>2, <2>1, CreditKept, CreditStays DEF SessionInv, TypeInv, MarksOK
<1>6. CreditInv' /\ (Trusted' => Trusted)
  BY <1>1, <1>5 DEF SessionInv, CreditInv, CreditStep, Trusted, Fg
<1>7. OneUser'
  BY <1>1, <1>2, <1>6 DEF SessionInv, IdentityInv, Recorded, OneUser, OwnShrinks, Fg, Of
<1>8. ClientInv'
  BY <1>1 DEF SessionInv, ClientInv, Fg, Accepted, Mine, Cl
<1>9. LogoutInv'
  <2>1. Wiping' /\ LoggedOut'
    BY <1>1 DEF SessionInv, LogoutInv, Wiping, LoggedOut, Calm, Fg, Bg, WipeOrder
  <2>2. Deleted'
    BY <1>1, <1>2, <1>6 DEF SessionInv, LogoutInv, Deleted, OwnShrinks, Fg
  <2> QED
    BY <2>1, <2>2 DEF LogoutInv
<1> QED
  BY <1>2, <1>3, <1>4, <1>6, <1>7, <1>8, <1>9 DEF SessionInv, TypeInv

\* Everything around the machine but a power cut.
LEMMA EventsKeep ==
    ASSUME SessionInv,
           \/ Expire \/ GoOffline \/ GoOnline
           \/ \E l \in live : RevokeElsewhere(l)
           \/ \E k \in DOMAIN node : NodeGone(k)
           \/ \E u \in Users, nm \in Names : OtherDevice(u, nm)
    PROVE  SessionInv'
<1>1. /\ ServerOK /\ NodesOK /\ keys \in Nat /\ keys <= Bound[kind].keys /\ events \in Nat
      /\ kind \in Kinds /\ Bound[kind].keys \in Nat
  BY SessionAssumption DEF SessionInv, TypeInv, ServerOK, LocalOK
<1>2. CASE Expire
  <2>1. ServerOK' /\ NodesOK' /\ OwnShrinks /\ ~ Fg.again
    BY <1>1, <1>2 DEF Expire, Event, ServerOK, NodesOK, OwnShrinks, server, Fg
  <2> QED
    BY <1>2, <2>1, OutsideStep DEF Expire, server
<1>3. CASE GoOffline \/ GoOnline
  <2>1. /\ UNCHANGED <<kind, local, ui, client, job, keys, server, epoch, faults, history>>
        /\ events' \in Nat
    BY <1>1, <1>3 DEF GoOffline, GoOnline, Event
  <2>2. online' \in BOOLEAN
    BY <1>3, Zenon DEF GoOffline, GoOnline
  <2>3. ServerOK' /\ NodesOK' /\ OwnShrinks
    BY <1>1, <2>1, <2>2 DEF ServerOK, NodesOK, OwnShrinks, server
  <2> QED
    BY <2>1, <2>3, OutsideStep DEF server
<1>4. CASE \E l \in live : RevokeElsewhere(l)
  <2>1. ServerOK' /\ NodesOK' /\ OwnShrinks
    BY <1>1, <1>4 DEF RevokeElsewhere, Event, ServerOK, NodesOK, OwnShrinks
  <2> QED
    BY <1>4, <2>1, OutsideStep DEF RevokeElsewhere
<1>5. CASE \E k \in DOMAIN node : NodeGone(k)
  <2>1. PICK k \in DOMAIN node : NodeGone(k)
    BY <1>5
  <2>2. Shrinks /\ UNCHANGED <<kind, keys>>
    BY <2>1, Removal DEF NodeGone
  <2>3. NodesOK' /\ OwnShrinks
    BY <1>1, <2>2, ShrinkingNodes, ShrinkingOwn
  <2>4. ServerOK'
    BY <1>1, <2>1 DEF NodeGone, Event, ServerOK
  <2> QED
    BY <2>1, <2>3, <2>4, OutsideStep DEF NodeGone
<1>6. CASE \E u \in Users, nm \in Names : OtherDevice(u, nm)
  <2>1. PICK u \in Users, nm \in Names : OtherDevice(u, nm)
    BY <1>6
  <2> DEFINE k == Bound[kind].keys + events'
  <2>2. k \in Nat \ {0} /\ k > Bound[kind].keys /\ k \notin 0 .. keys
    BY <1>1, <2>1 DEF OtherDevice, Event
  <2>3. ~ Taken(nm, u) /\ node' = Registered(k, nm, u) /\ UNCHANGED <<kind, keys>>
    BY <2>1 DEF OtherDevice
  <2> HIDE DEF k
  <2>4. /\ NodesOK' /\ DOMAIN node' = DOMAIN node \cup {k}
        /\ \A m \in DOMAIN node : m # k => node'[m] = node[m]
    BY <1>1, <2>2, <2>3, GrowingNodes
  <2>5. OwnShrinks
    BY <2>2, <2>4 DEF OwnShrinks
  <2>6. ServerOK'
    BY <1>1, <2>1 DEF OtherDevice, Event, ServerOK
  <2> QED
    BY <2>1, <2>4, <2>5, <2>6, OutsideStep DEF OtherDevice
<1> QED
  BY <1>2, <1>3, <1>4, <1>5, <1>6

\* The machine stops: a registration the server has made and nothing records is counted.
LEMMA PowerKeeps ==
    ASSUME SessionInv, Power
    PROVE  SessionInv'
<1>1. /\ UNCHANGED <<kind, ring, rec, keys, acct, node, live, owner, epoch, online, events,
                     told, cracked, stranger, straggler, out>>
      /\ Fg' = Idle /\ Bg' = Idle /\ ~ loops' /\ faults' # faults /\ faults' \in Nat
      /\ client' = [p \in Procs |-> NoTokens] /\ job' = [p \in Procs |-> Idle]
      /\ screen' = IF kind = "router" THEN "shell" ELSE IF rec = NoRecord THEN "wizard" ELSE "opening"
  <2>1. faults \in Nat
    BY DEF SessionInv, TypeInv, MarksOK
  <2> QED
    BY <2>1 DEF Power, Fault, Fg, Bg, Procs, local, server, world, marks
<1>2. /\ told \in Nat /\ told' = told /\ unsaid' \in Nat
      /\ Credit \in Nat /\ Credit' \in Nat /\ Credit' >= Credit
      /\ (InHand /\ Place(Fg) # "node") \/ (Caching /\ cracked) => Credit' = Credit + 1
  <2>1. /\ unsaid' = unsaid + (IF \E p \in {"fg", "bg"} : Unfinished(p) THEN 1 ELSE 0)
        /\ unsaid \in Nat /\ told \in Nat
    BY DEF Power, SessionInv, TypeInv, MarksOK
  <2>2. (InHand /\ Place(Fg) # "node") \/ (Caching /\ cracked) => Unfinished("fg")
    BY DEF InHand, Caching, Unfinished, Fg, Place, Flow, At, Registering
  <2> QED
    BY <1>1, <2>1, <2>2 DEF Credit
<1>3. Len(owner) \in Nat /\ rec.key \in 0 .. keys /\ (rec = NoRecord => rec.key = 0) /\ 0 \notin DOMAIN node
  BY DEF SessionInv, TypeInv, ServerOK, LocalOK, NodesOK, NoRecord
<1>4. TypeInv'
  <2>1. ServerOK' /\ NodesOK'
    BY <1>1 DEF SessionInv, TypeInv, ServerOK, NodesOK
  <2>2. NoTokens \in TokenPair
    BY <1>3 DEF NoTokens, NoToken, TokenPair, Held
  <2>3. LocalOK'
    BY <1>1, <2>2 DEF SessionInv, TypeInv, LocalOK, TokenPair, Held
  <2>4. MarksOK'
    <3>1. loops' \in BOOLEAN
      BY Zenon DEF Power
    <3> QED
      BY <1>1, <1>2, <3>1 DEF SessionInv, TypeInv, MarksOK
  <2>5. JobsOK'
    BY <1>1, IdleJob DEF JobsOK
  <2> QED
    BY <2>1, <2>3, <2>4, <2>5 DEF TypeInv
<1>5. ~ InHand' /\ ~ Caching' /\ Fg'.flow = "none" /\ Fg'.pc = "idle" /\ ~ Fg'.again /\ Bg'.pc = "idle"
  BY <1>1, IdleJob DEF InHand, Caching, Registering
<1>6. ScreenOK'
  BY <1>1, <1>5 DEF ScreenOK, SigningIn, Lingering
<1>7. IdentityInv'
  BY <1>1, <1>5 DEF SessionInv, IdentityInv, Recorded, Bare, Matched
<1>8. CreditStep /\ (Caching /\ cracked => Credited')
  <2>1. CASE InHand /\ Place(Fg) # "node"
    <3>1. Known' \subseteq Known \cup {Fg.key} /\ Left' \subseteq Left \cup {Fg.key} /\ ~ Caching
      BY <1>1, <2>1 DEF Known, Left, InHand, Caching, Place
    <3> QED
      BY <1>2, <2>1, <3>1, CreditDrops DEF SessionInv, TypeInv
  <2>2. CASE ~ InHand \/ Place(Fg) = "node"
    <3>1. InHand => Fg.key \notin DOMAIN node
      BY <2>2 DEF SessionInv, IdentityInv, Recorded
    <3>2. Known' \subseteq Known /\ Left' \subseteq Left
      BY <1>1, <3>1 DEF Known, Left
    <3>3. Caching => Place(Fg) # "node"
      BY DEF Caching, Place
    <3> QED
      BY <1>2, <2>2, <3>2, <3>3, CreditStays, CreditPaid DEF SessionInv, TypeInv
  <2> QED
    BY <2>1, <2>2
<1>9. CreditInv' /\ (Trusted' => Trusted)
  <2>1. rec = NoRecord => Left' = Known'
    BY <1>1, <1>3 DEF Left, Known
  <2> QED
    BY <1>1, <1>5, <1>8, <2>1 DEF CreditInv, CreditStep, Credited, Trusted, Lingering
<1>10. OneUser'
  <2>1. ASSUME kind = "desktop", Trusted', rec.key \in DOMAIN node
        PROVE  Of(ring.acc.l, node[rec.key].user) /\ Of(ring.ref, node[rec.key].user)
    <3>1. CASE ~ Caching
      BY <1>9, <2>1, <3>1 DEF SessionInv, OneUser
    <3>2. CASE Caching
      <4>1. ~ cracked
        BY <1>1, <1>8, <2>1, <3>2 DEF Trusted
      <4>2. ring.ref = 0 /\ (Fg.pc = "setAcc" => ring.acc = NoToken)
        BY <2>1, <3>2, <4>1 DEF SessionInv, IdentityInv, Bare
      <4>3. Fg.pc # "setAcc" => Of(ring.acc.l, node[rec.key].user)
        BY <1>9, <2>1 DEF SessionInv, OneUser
      <4> QED
        BY <4>2, <4>3 DEF Of, NoToken
    <3> QED
      BY <3>1, <3>2
  <2>2. client'["fg"].acc.l = 0 /\ client'["fg"].ref = 0
    BY <1>1 DEF NoTokens, NoToken, Procs
  <2>3. \A p \in Procs : job'[p].pc = "idle"
    BY <1>1, IdleJob
  <2> QED
    BY <1>1, <1>5, <2>1, <2>2, <2>3 DEF OneUser, Of
<1>11. ClientInv'
  BY <1>1, <1>5, <1>6 DEF ClientInv, SigningIn, ScreenOK
<1>12. LogoutInv'
  BY <1>1, <1>5 DEF SessionInv, LogoutInv, Wiping, LoggedOut, Deleted, Calm, Registering
<1> QED
  BY <1>4, <1>6, <1>7, <1>9, <1>10, <1>11, <1>12 DEF SessionInv

-----------------------------------------------------------------------------
(* The panel's poll and the daemon's cycle *)

\* A wipe begins with everything to delete.
LEMMA WipeNeeds ==
    LET all == <<"key", "acc", "ref", "rec">>
    IN  Needs("key", all) /\ Needs("acc", all) /\ Needs("ref", all) /\ Needs("rec", all)
  BY DEF Needs

\* A step in the background: a poll may renew the panel's access token; a cycle may also write
\* its tokens to the secure store, unless it has none.
LEMMA BackgroundStep ==
    ASSUME SessionInv, Bg # Idle,
           UNCHANGED <<kind, rec, ui, keys, server, world, told, unsaid, stranger, straggler, out>>,
           faults' \in Nat, cracked' \in BOOLEAN, cracked => cracked',
           job' \in [Procs -> JobType], Fg' = Fg, Bg' = Idle \/ Working(Bg', "bg"),
           client' \in [Procs -> TokenPair],
           ring' \in [key : 0 .. keys, acc : Held, ref : 0 .. Len(owner)], ring'.key = ring.key,
           kind = "desktop" =>
              /\ ring' = ring /\ cracked' = cracked /\ client'["fg"].ref = client["fg"].ref
              /\ \/ client'["fg"].acc = client["fg"].acc
                 \/ Bg.pc = "refresh" /\ client'["fg"].acc = [l |-> Bg.sent, e |-> epoch]
              /\ Bg'.pc = "refresh" => Bg'.sent = client["fg"].ref \/ Bg' = Bg,
           kind = "router" /\ client["bg"] = NoTokens /\ Bg.pc # "refresh" =>
              ring' = ring /\ client'["bg"] = NoTokens /\ Bg'.pc # "refresh"
    PROVE  SessionInv'
<1>1. /\ UNCHANGED <<screen, loops, acct, node, live, owner, epoch, online, events, InHand, Caching>>
      /\ kind \in {"desktop", "router"}
  BY SessionAssumption
     DEF ui, server, world, InHand, Caching, Place, SessionInv, TypeInv, ServerOK
<1>2. Bg.pc # "idle" /\ (Bg.pc = "refresh" => Bg.sent \in 1 .. Len(owner))
  BY DEF SessionInv, TypeInv, JobsOK, Working, Placed, Place, Bg, Procs, Idle, AuthCalls
<1>3. kind = "desktop" => screen \notin {"wizard", "opening"} /\ Fg.flow \notin {"provision", "cancel", "load"}
  BY <1>1 DEF SessionInv, ScreenOK
<1>4. TypeInv'
  <2>1. ServerOK' /\ NodesOK'
    BY <1>1 DEF SessionInv, TypeInv, ServerOK, NodesOK
  <2>2. LocalOK'
    BY <1>1 DEF SessionInv, TypeInv, LocalOK, TokenPair, Held
  <2>3. MarksOK'
    BY <1>1 DEF SessionInv, TypeInv, MarksOK
  <2>4. JobsOK'
    BY <1>1, JobsStep DEF SessionInv, TypeInv, Other, Fg, Bg, Procs
  <2> QED
    BY <2>1, <2>2, <2>3, <2>4 DEF TypeInv
<1>5. ScreenOK'
  BY <1>1, <1>3 DEF SessionInv, ScreenOK
<1>6. IdentityInv'
  <2>1. Recorded'
    BY <1>1 DEF SessionInv, IdentityInv, Recorded
  <2>2. Bare' /\ Matched'
    BY <1>1 DEF SessionInv, IdentityInv, Bare, Matched
  <2> QED
    BY <2>1, <2>2 DEF IdentityInv
<1>7. CreditInv' /\ (Trusted' => Trusted)
  <2>1. UNCHANGED <<Known, Left, Credit>>
    BY <1>1 DEF Known, Left, Credit
  <2> QED
    BY <1>1, <2>1 DEF SessionInv, CreditInv, Credited, Trusted
<1>8. OneUser'
  <2> SUFFICES ASSUME kind = "desktop" PROVE OneUser'
    BY DEF OneUser
  <2>1. ASSUME Trusted', rec.key \in DOMAIN node
        PROVE  LET u == node[rec.key].user IN
               /\ Of(client'["fg"].acc.l, u) /\ Of(client'["fg"].ref, u)
               /\ \A p \in Procs : job'[p].pc = "refresh" => Of(job'[p].sent, u)
    <3> DEFINE u == node[rec.key].user
    <3>1. /\ Of(client["fg"].acc.l, u) /\ Of(client["fg"].ref, u)
          /\ Fg.pc = "refresh" => Of(Fg.sent, u)
          /\ Bg.pc = "refresh" => Of(Bg.sent, u)
      BY <1>7, <2>1 DEF SessionInv, OneUser, Fg, Bg, Procs
    <3> HIDE DEF u
    <3>2. Of(client'["fg"].acc.l, u) /\ Of(client'["fg"].ref, u)
      BY <3>1
    <3>3. Fg'.pc = "refresh" => Of(Fg'.sent, u)
      BY <3>1
    <3>4. Bg'.pc = "refresh" => Of(Bg'.sent, u)
      BY <3>1
    <3> QED
      BY <3>2, <3>3, <3>4 DEF u, Fg, Bg, Procs
  <2> QED
    BY <1>1, <1>7, <2>1 DEF SessionInv, OneUser, Of
<1>9. ClientInv'
  BY <1>1, <1>2, <1>3 DEF SessionInv, ClientInv, Accepted, Mine, Cl
<1>10. LogoutInv'
  <2>1. Wiping'
    BY <1>1, WipeNeeds DEF SessionInv, LogoutInv, Wiping, Calm, WipeOrder
  <2>2. LoggedOut'
    BY <1>1, <1>3 DEF SessionInv, LogoutInv, LoggedOut, Calm
  <2>3. Deleted'
    BY <1>1, <1>7 DEF SessionInv, LogoutInv, Deleted
  <2> QED
    BY <2>1, <2>2, <2>3 DEF LogoutInv
<1> QED
  BY <1>4, <1>5, <1>6, <1>7, <1>8, <1>9, <1>10 DEF SessionInv

\* What runs in the background.
LEMMA BackgroundTask ==
    ASSUME SessionInv, Bg.pc # "idle"
    PROVE  /\ Bg # Idle /\ Bg \in JobType /\ Working(Bg, "bg")
           /\ kind = "desktop" => Bg.flow = "poll" /\ Place(Bg) = "list"
           /\ kind = "router" => Bg.flow = "cycle" /\ Place(Bg) \in {"list", "setAcc", "setRef"}
           /\ Bg.flow \in {"poll", "cycle"} /\ kind \in {"desktop", "router"}
<1>1. kind \in {"desktop", "router"} /\ Bg \in JobType /\ (Bg = Idle \/ Working(Bg, "bg"))
  BY SessionAssumption DEF SessionInv, TypeInv, ServerOK, JobsOK, Bg, Procs
<1>2. Bg # Idle
  BY IdleJob
<1> QED
  BY <1>1, <1>2 DEF Working, Flows, Placed, SigningIn, Lingering

\* Its steps tell the user nothing.
LEMMA BackgroundSettles ==
    ASSUME SessionInv, Bg.pc # "idle", Settles("bg")
    PROVE  /\ told' = told /\ client' \in [Procs -> TokenPair]
           /\ kind = "desktop" => client' = client
           /\ client["bg"] = NoTokens => client'["bg"] = NoTokens
<1>1. ~ Abandons("bg") /\ ~ Warns("bg")
  BY BackgroundTask DEF Abandons, Warns, Flow, Bg
<1>2. told \in Nat
  BY DEF SessionInv, TypeInv, MarksOK
<1> QED
  BY <1>1, <1>2, ClientKept DEF Settles, SessionInv, TypeInv, LocalOK, Procs

\* A call is over: the poll is, the cycle caches its tokens.
LEMMA BackgroundTurns ==
    ASSUME SessionInv, Bg.pc # "idle", Settles("bg"),
           Ends("bg") \/ (Bg.flow = "cycle" /\ Goes("bg", "setAcc")),
           UNCHANGED <<kind, local, ui, keys, server, world, marks>>, faults' \in Nat
    PROVE  SessionInv'
<1>1. job \in [Procs -> JobType] /\ "bg" \in Procs /\ "setAcc" \in Steps
  BY DEF SessionInv, TypeInv, JobsOK, Procs, Steps
<1>2. /\ job' \in [Procs -> JobType] /\ Fg' = Fg /\ Bg'.pc # "refresh"
      /\ Bg' = Idle \/ Working(Bg', "bg")
  <2>1. CASE Ends("bg")
    BY <1>1, <2>1, EndsStep, IdleJob DEF Other, Fg, Bg, Procs
  <2>2. CASE Bg.flow = "cycle" /\ Goes("bg", "setAcc")
    <3>1. /\ job' \in [Procs -> JobType] /\ Other("bg")
          /\ Bg'.pc = "setAcc" /\ SameTask(Bg, Bg')
      BY <1>1, <2>2, GoesStep DEF Bg
    <3>2. Working(Bg', "bg")
      BY <2>2, <3>1, BackgroundTask
         DEF SameTask, Working, Placed, Place, Forms, Registering, SigningIn
    <3> QED
      BY <3>1, <3>2 DEF Other, Fg, Procs
  <2> QED
    BY <2>1, <2>2
<1>3. /\ Bg # Idle /\ UNCHANGED <<ring, rec, unsaid, cracked, stranger, straggler, out>>
      /\ ring \in [key : 0 .. keys, acc : Held, ref : 0 .. Len(owner)] /\ cracked \in BOOLEAN
  BY BackgroundTask DEF local, marks, SessionInv, TypeInv, LocalOK, MarksOK
<1> QED
  BY <1>2, <1>3, BackgroundSettles, BackgroundStep

\* An error of a call in the background.
LEMMA BackgroundError ==
    ASSUME SessionInv, Bg.pc # "idle", NEW e, Fails("bg", e)
    PROVE  UNCHANGED ui /\ (Ends("bg") \/ (Bg.flow = "cycle" /\ Goes("bg", "setAcc")))
  BY BackgroundTask
     DEF Fails, FormAgain, LoadFails, LogoutFails, CmdLogoutFails, BackgroundFails, Flow, Bg

\* A 401 on a background call that has a refresh token.
LEMMA BackgroundRejected ==
    ASSUME SessionInv, Rejected("bg")
    PROVE  SessionInv'
<1>1. /\ Bg.pc \in AuthCalls /\ Bg.pc # "idle" /\ Bg.pc # "refresh" /\ faults' \in Nat
      /\ UNCHANGED <<kind, local, keys, server, world, faults, marks>> /\ Settles("bg")
  BY DEF Rejected, AuthCalls, Bg, SessionInv, TypeInv, MarksOK
<1>2. CASE Fails("bg", "expired")
  BY <1>1, <1>2, BackgroundError, BackgroundTurns
<1>3. CASE /\ job' = [job EXCEPT !["bg"].pc = "refresh", !["bg"].back = Bg.pc, !["bg"].sent = Mine("bg").ref]
           /\ UNCHANGED ui /\ Mine("bg").ref # 0
  <2> DEFINE r == Mine("bg").ref
  <2>1. job \in [Procs -> JobType] /\ "bg" \in Procs
    BY DEF SessionInv, TypeInv, JobsOK, Procs
  <2>2. job' = [job EXCEPT !["bg"].pc = "refresh", !["bg"].back = job["bg"].pc, !["bg"].sent = r]
    BY <1>3 DEF Bg
  <2>3. r \in 1 .. Len(owner) /\ Len(owner) \in Nat /\ r \in Nat
    BY <1>3 DEF SessionInv, TypeInv, ServerOK, LocalOK, Mine, Cl, Procs, TokenPair
  <2> HIDE DEF r
  <2>4. /\ job' \in [Procs -> JobType] /\ Other("bg")
        /\ Bg'.pc = "refresh" /\ Bg'.back = Bg.pc /\ Bg'.sent = r /\ Bg'.flow = Bg.flow
    BY <2>1, <2>2, <2>3, AsksStep DEF Bg
  <2>5. Fg' = Fg
    BY <2>4 DEF Other, Fg, Procs
  <2>6. Working(Bg', "bg")
    BY <1>1, <2>3, <2>4, <2>5, BackgroundTask
       DEF Working, Placed, Place, Forms, Registering, SigningIn, AuthCalls
  <2>7. /\ Bg # Idle /\ UNCHANGED <<ring, rec, unsaid, cracked, stranger, straggler, out>>
        /\ ring \in [key : 0 .. keys, acc : Held, ref : 0 .. Len(owner)] /\ cracked \in BOOLEAN
    BY <1>1, BackgroundTask DEF local, marks, SessionInv, TypeInv, LocalOK, MarksOK
  <2>8. kind = "router" => client["bg"] # NoTokens
    BY <1>3 DEF Mine, Cl, NoTokens
  <2>9. kind = "desktop" => Bg'.sent = client["fg"].ref
    BY <2>4 DEF Mine, Cl, r
  <2> QED
    BY <1>1, <1>3, <2>4, <2>5, <2>6, <2>7, <2>8, <2>9, BackgroundSettles, BackgroundStep
<1> QED
  BY <1>2, <1>3 DEF Rejected, Bg

\* A background refresh is answered.
LEMMA BackgroundRefresh ==
    ASSUME SessionInv, Refresh("bg")
    PROVE  SessionInv'
<1>1. Bg.pc = "refresh" /\ UNCHANGED <<kind, local, keys, server, world, marks>> /\ faults \in Nat
  BY DEF Refresh, At, Bg, SessionInv, TypeInv, MarksOK
<1>2. CASE /\ Bg.sent \in live /\ Holds("bg", [Mine("bg") EXCEPT !.acc = [l |-> Bg.sent, e |-> epoch]])
           /\ job' = [job EXCEPT !["bg"].pc = Bg.back, !["bg"].again = TRUE]
           /\ Smooth /\ UNCHANGED <<ui, told>>
  <2> DEFINE a == [l |-> Bg.sent, e |-> epoch]
  <2>1. job \in [Procs -> JobType] /\ "bg" \in Procs
    BY DEF SessionInv, TypeInv, JobsOK, Procs
  <2>2. /\ job' \in [Procs -> JobType] /\ Other("bg")
        /\ Bg'.pc = Bg.back /\ Bg'.flow = Bg.flow
    BY <1>2, <2>1, ReturnsStep DEF Bg, SameTask
  <2>3. Bg.back \in AuthCalls
    BY <1>1, BackgroundTask DEF Working
  <2>4. Fg' = Fg
    BY <2>2 DEF Other, Fg, Procs
  <2>5. Working(Bg', "bg") /\ Bg'.pc # "refresh"
    BY <1>1, <2>2, <2>3, BackgroundTask
       DEF Working, Placed, Place, Forms, Registering, SigningIn, AuthCalls
  <2>6. a \in Held
    BY <1>2 DEF SessionInv, TypeInv, ServerOK, Held
  <2>7. client \in [Procs -> TokenPair] /\ Cl("bg") \in Procs
    BY DEF SessionInv, TypeInv, LocalOK, Cl, Procs
  <2>8. client' = [client EXCEPT ![Cl("bg")] = [Mine("bg") EXCEPT !.acc = a]]
    BY <1>2 DEF Holds
  <2> HIDE DEF a
  <2>9. /\ client' \in [Procs -> TokenPair]
        /\ kind = "desktop" => client'["fg"].ref = client["fg"].ref /\ client'["fg"].acc = a
    BY <2>6, <2>7, <2>8 DEF Mine, Cl, TokenPair, Procs
  <2>10. /\ Bg # Idle /\ UNCHANGED <<ring, rec, unsaid, cracked, stranger, straggler, out, faults>>
         /\ ring \in [key : 0 .. keys, acc : Held, ref : 0 .. Len(owner)] /\ cracked \in BOOLEAN
    BY <1>1, <1>2, BackgroundTask DEF local, marks, SessionInv, TypeInv, LocalOK, MarksOK, Smooth
  <2> QED
    BY <1>1, <1>2, <2>2, <2>4, <2>5, <2>9, <2>10, BackgroundStep DEF a
<1>3. CASE /\ Smooth \/ Fault("net") \/ Fault("server")
           /\ Fails("bg", "expired") /\ Settles("bg")
  <2>1. faults' \in Nat
    BY <1>1, <1>3 DEF Smooth, Fault
  <2> QED
    BY <1>1, <1>3, <2>1, BackgroundError, BackgroundTurns
<1> QED
  BY <1>2, <1>3 DEF Refresh, Bg

\* The cycle caches its tokens, if it has any.
LEMMA BackgroundCache ==
    ASSUME SessionInv, CacheAccess("bg") \/ CacheRefresh("bg")
    PROVE  SessionInv'
<1>1. Bg.pc \in {"setAcc", "setRef"} /\ Bg.pc # "idle" /\ Bg.pc # "refresh" /\ faults \in Nat /\ faults' \in Nat
  BY DEF CacheAccess, CacheRefresh, At, Bg, Smooth, Fault, SessionInv, TypeInv, MarksOK
<1>2. kind = "router" /\ Bg.flow = "cycle" /\ Bg # Idle /\ Bg \in JobType /\ Working(Bg, "bg")
  BY <1>1, BackgroundTask DEF Place
<1>3. /\ UNCHANGED <<kind, rec, keys, server, world, unsaid, stranger, straggler, out>> /\ Settles("bg")
      /\ Persists("bg")
  BY <1>2 DEF CacheAccess, CacheRefresh, Persists, Flow, Bg
<1>4. /\ ring \in [key : 0 .. keys, acc : Held, ref : 0 .. Len(owner)]
      /\ client["bg"] \in TokenPair /\ Mine("bg") = client["bg"] /\ cracked \in BOOLEAN
  BY <1>2 DEF SessionInv, TypeInv, LocalOK, MarksOK, Mine, Cl, Procs
<1>5. cracked' \in BOOLEAN /\ (cracked => cracked')
  BY <1>4, Zenon DEF CacheAccess, CacheRefresh
<1>6. /\ ring' \in [key : 0 .. keys, acc : Held, ref : 0 .. Len(owner)] /\ ring'.key = ring.key
      /\ client["bg"] = NoTokens => ring' = ring
  BY <1>4 DEF CacheAccess, CacheRefresh, TokenPair, NoTokens
<1>7. job \in [Procs -> JobType] /\ "bg" \in Procs /\ "setRef" \in Steps
  BY DEF SessionInv, TypeInv, JobsOK, Procs, Steps
<1>8. /\ job' \in [Procs -> JobType] /\ Fg' = Fg /\ Bg'.pc # "refresh" /\ UNCHANGED ui
      /\ Bg' = Idle \/ Working(Bg', "bg")
  <2>1. CASE CacheAccess("bg")
    <3>1. Goes("bg", "setRef") /\ UNCHANGED ui
      BY <1>3, <2>1 DEF CacheAccess, ui
    <3>2. /\ job' \in [Procs -> JobType] /\ Other("bg")
          /\ Bg'.pc = "setRef" /\ SameTask(Bg, Bg')
      BY <1>7, <3>1, GoesStep DEF Bg
    <3>3. Working(Bg', "bg")
      BY <1>2, <3>2 DEF SameTask, Working, Placed, Place, Forms, Registering, SigningIn
    <3> QED
      BY <3>1, <3>2, <3>3 DEF Other, Fg, Procs
  <2>2. CASE CacheRefresh("bg")
    <3>1. Finished("bg")
      BY <1>3, <2>2 DEF CacheRefresh
    <3>2. Ends("bg") /\ UNCHANGED ui
      BY <1>2, <3>1 DEF Finished, Flow, Bg
    <3> QED
      BY <1>7, <3>2, EndsStep, IdleJob DEF Other, Fg, Bg, Procs
  <2> QED
    BY <2>1, <2>2
<1> QED
  BY <1>1, <1>2, <1>3, <1>5, <1>6, <1>8, BackgroundSettles, BackgroundStep

\* A step of the poll or of the cycle.
LEMMA BackgroundKeeps ==
    ASSUME SessionInv, Step("bg")
    PROVE  SessionInv'
<1>1. Bg.pc # "idle" => Place(Bg) \in {"list", "setAcc", "setRef"}
  BY BackgroundTask
<1>2. faults \in Nat
  BY DEF SessionInv, TypeInv, MarksOK
<1>3. CASE Unreachable("bg") \/ ServerError("bg")
  <2>1. /\ Bg.pc # "idle" /\ Settles("bg") /\ faults' \in Nat
        /\ UNCHANGED <<kind, local, keys, server, world, marks>>
        /\ \E e \in {"unreachable", "server"} : Fails("bg", e)
    BY <1>2, <1>3 DEF Unreachable, ServerError, Fault, Calls, AuthCalls, Bg
  <2> QED
    BY <2>1, BackgroundError, BackgroundTurns
<1>4. CASE ListInBackground("bg")
  <2>1. /\ Bg.pc # "idle" /\ Settles("bg") /\ faults' \in Nat
        /\ UNCHANGED <<kind, local, ui, keys, server, world, marks>>
        /\ Ends("bg") \/ (Bg.flow = "cycle" /\ Goes("bg", "setAcc"))
    BY <1>2, <1>4 DEF ListInBackground, At, Flow, Bg
  <2> QED
    BY <2>1, BackgroundTurns
<1>5. CASE Rejected("bg") \/ Refresh("bg") \/ CacheAccess("bg") \/ CacheRefresh("bg")
  BY <1>5, BackgroundRejected, BackgroundRefresh, BackgroundCache
<1>6. ASSUME \/ CreateAccount("bg") \/ Login("bg") \/ RegisterNode("bg") \/ ServerInfo("bg") \/ Me("bg")
             \/ ListNodes("bg") \/ DeleteNode("bg") \/ Revoke("bg") \/ StoreKey("bg")
             \/ SaveRecord("bg") \/ Wipe("bg")
      PROVE  FALSE
  <2>1. \/ Bg.pc \in {"register", "login", "node", "info", "me", "delete", "revoke", "key", "save", "wipe"}
        \/ Bg.pc = "list" /\ Bg.flow = "logout"
    BY <1>6 DEF CreateAccount, Login, RegisterNode, ServerInfo, Me, ListNodes, DeleteNode, Revoke,
                StoreKey, SaveRecord, Wipe, At, Flow, Bg
  <2> QED
    BY <1>1, <2>1, BackgroundTask DEF Place
<1> QED
  BY <1>3, <1>4, <1>5, <1>6 DEF Step

-----------------------------------------------------------------------------
(* The panel, the wizard and the router's commands *)

\* Sign-ins are only added.
OwnersKept == Len(owner) <= Len(owner') /\ \A l \in 1 .. Len(owner) : owner'[l] = owner[l]

\* The background's task is not about the sign-ins and keys that the foreground adds.
LEMMA ForegroundJobs ==
    ASSUME JobsOK, kind' = kind, Len(owner) \in Nat, Len(owner') \in Nat, Len(owner) <= Len(owner'),
           kind \in {"desktop", "router"},
           job' \in [Procs -> JobType], Bg' = Bg, Fg' = Idle \/ Working(Fg, "fg")'
    PROVE  JobsOK'
<1>1. Bg = Idle \/ Working(Bg, "bg")'
  <2>1. Bg = Idle \/ Working(Bg, "bg")
    BY DEF JobsOK, Bg, Procs
  <2>2. Working(Bg, "bg") => Bg.flow \in {"poll", "cycle"}
    BY DEF Working, Flows
  <2>3. Bg.flow \in {"poll", "cycle"} /\ Placed(Bg) => Place(Bg) \in {"list", "setAcc", "setRef"}
    BY DEF Placed, SigningIn, Lingering
  <2> SUFFICES ASSUME Working(Bg, "bg") PROVE Working(Bg, "bg")'
    BY <2>1
  <2>4. (Bg.flow \in Flows("bg"))' /\ Placed(Bg)'
    BY DEF Working, Flows
  <2>5. Bg'.pc = "refresh" => Bg'.back \in AuthCalls /\ Bg'.sent \in 1 .. Len(owner')
    BY DEF Working
  <2>6. /\ Bg'.flow \in Forms => Bg'.u \in Users
        /\ Bg'.flow \in Registering => Bg'.name \in Names
        /\ Bg'.pc = "wipe" => Bg'.todo \in Stages
    BY DEF Working
  <2>7. Place(Bg') \notin {"register", "login", "key"}
    BY <2>2, <2>3 DEF Working
  <2> QED
    BY <2>4, <2>5, <2>6, <2>7 DEF Working
<1> QED
  BY <1>1 DEF JobsOK, Procs, Fg, Bg

\* Tokens stay tokens.
LEMMA TokensKept ==
    ASSUME Len(owner) \in Nat, Len(owner') \in Nat, Len(owner) <= Len(owner')
    PROVE  /\ 0 .. Len(owner) \subseteq 0 .. Len(owner') /\ Held \subseteq Held'
           /\ TokenPair \subseteq TokenPair'
<1>1. 0 .. Len(owner) \subseteq 0 .. Len(owner')
  OBVIOUS
<1>2. Held \subseteq Held'
  BY <1>1 DEF Held
<1> QED
  BY <1>1, <1>2 DEF TokenPair

\* This machine's devices are only removed, but for the one that is being registered.
OwnKept == \A k \in 0 .. keys : k \in DOMAIN node' =>
              \/ k \in DOMAIN node /\ node'[k] = node[k]
              \/ InHand /\ Place(Fg) = "node" /\ k = Fg.key

\* The foreground has a new access token.
Renewed == Fg.pc = "refresh" /\ client'["fg"].acc = [l |-> Fg.sent, e |-> epoch]

\* The device is registered, under the name and the account of the task.
Enrolled ==
    Fg.key \in DOMAIN node' =>
       /\ node'[Fg.key].name = Fg'.name /\ node'[Fg.key].ip = Fg'.ip
       /\ kind = "desktop" => Of(client["fg"].ref, node'[Fg.key].user)

\* Nothing but the foreground's task changes, what the user sees and has been told, and the server.
Frame ==
    /\ UNCHANGED <<kind, ring, rec, keys, epoch, unsaid, cracked, stranger, straggler, out>> /\ OwnersKept
    /\ ServerOK' /\ NodesOK' /\ OwnKept
    /\ screen' \in {"wizard", "shell", "opening", "panel", "blocked"} \cup Prompts
    /\ loops' \in BOOLEAN /\ faults' \in Nat /\ told' \in Nat /\ told' >= told
    /\ client' \in [Procs -> TokenPair]
    /\ kind = "desktop" => client'["fg"].ref = client["fg"].ref /\ (client'["fg"].acc = client["fg"].acc \/ Renewed)
    /\ job' \in [Procs -> JobType] /\ Bg' = Bg
    /\ Fg' = Idle \/ (owner' = owner /\ Working(Fg', "fg"))

\* The panel's Client has been given the cached tokens and has not been signed in anew.
Restored ==
    IF Fg = Idle THEN screen \notin {"wizard", "opening"}
    ELSE \/ Fg.flow = "load"
         \/ Fg.flow = "logout" /\ Place(Fg) \in {"list", "delete"}
         \/ Fg.flow \in SigningIn /\ Fg.pc = "login"

\* How a task may go on without touching the secure store or the record.
GoesOn ==
    /\ ~ Caching /\ ~ Caching' /\ (out.how = "none" \/ ~ Calm)
    /\ Fg'.flow \in Registering => Fg'.flow = Fg.flow /\ Fg.pc \notin {"setAcc", "setRef"}
    /\ InHand' => /\ InHand /\ Fg'.key = Fg.key /\ Fg'.name = Fg.name
                  /\ \/ OwnShrinks /\ Fg'.ip = Fg.ip /\ (Place(Fg) = "node" <=> Place(Fg') = "node")
                     \/ Enrolled /\ Place(Fg') # "node"
    /\ InHand /\ ~ InHand' => told' = told + 1
    /\ Fg'.flow \in Lingering => Fg.flow \in Lingering \/ (told' = told + 1 /\ ~ InHand)
    /\ screen' = "wizard" => screen = "wizard"
    /\ kind = "desktop" /\ Fg'.pc = "refresh" => Fg'.sent = client["fg"].ref
    /\ Fg'.again => Fg.again \/ Renewed
    /\ Fg'.flow = "provision" /\ Place(Fg') \notin {"register", "login"} =>
          Place(Fg) \notin {"register", "login"}
    /\ Fg'.flow \in SigningIn => Fg'.pc = "login"
    /\ kind = "desktop" /\ Restored' => Restored
    /\ Fg'.pc = "wipe" =>
          Fg'.todo = IF Fg'.flow = "cancel" THEN <<"key", "acc", "ref", "rec">> ELSE WipeOrder

\* The part of Deleted that is about the task.
Deleting ==
    /\ Fg.flow = "cmdLogout" =>
          /\ rec # NoRecord /\ Fg.key = rec.key
          /\ Fg.pc \in {"revoke", "wipe"} => rec.key \notin DOMAIN node
    /\ Fg.flow = "logout" /\ Trusted =>
          /\ Fg.pc \in {"revoke", "wipe"} => rec.key \notin DOMAIN node
          /\ Place(Fg) = "delete" /\ rec.key \in DOMAIN node => Fg.key = rec.key

\* The wipe of the desktop's log-out begins with everything to delete, too.
LEMMA WipeOrderNeeds ==
    /\ Needs("key", WipeOrder) /\ Needs("acc", WipeOrder) /\ Needs("ref", WipeOrder)
    /\ kind = "desktop" => WipeOrder # <<"key", "acc", "ref", "rec">>
    /\ kind # "desktop" => WipeOrder = <<"key", "acc", "ref", "rec">>
<1> DEFINE b == <<"acc", "ref", "key", "rec">>
<1>1. Needs("key", b) /\ Needs("acc", b) /\ Needs("ref", b)
  BY DEF Needs
<1>2. b # <<"key", "acc", "ref", "rec">>
  OBVIOUS
<1> QED
  BY <1>1, <1>2, WipeNeeds DEF WipeOrder

\* The count of what is left behind while a task goes on.
LEMMA ForegroundCredit ==
    ASSUME SessionInv, Frame, GoesOn
    PROVE  /\ CreditStep /\ CreditInv' /\ (Trusted' => Trusted)
<1>1. /\ told \in Nat /\ told' \in Nat /\ told' >= told /\ UNCHANGED <<kind, rec, keys, unsaid, cracked, stranger>>
      /\ unsaid \in Nat
  BY DEF SessionInv, TypeInv, MarksOK, Frame
<1>2. CreditStep /\ (told' = told + 1 /\ ~ InHand => Credited')
  <2>1. CASE InHand /\ ~ InHand'
    <3>1. Known' \subseteq Known \cup {Fg.key} /\ Left' \subseteq Left \cup {Fg.key}
      BY <1>1, <2>1 DEF Known, Left, Frame, OwnKept
    <3> QED
      BY <1>1, <2>1, <3>1, CreditKept, CreditDrops DEF SessionInv, TypeInv, GoesOn
  <2>2. CASE ~ InHand \/ InHand'
    <3>1. Known' \subseteq Known /\ Left' \subseteq Left
      BY <1>1, <2>2 DEF Known, Left, Frame, OwnKept, GoesOn
    <3> QED
      BY <1>1, <2>2, <3>1, CreditKept, CreditStays, CreditPaid DEF SessionInv, TypeInv
  <2> QED
    BY <2>1, <2>2
<1> QED
  BY <1>1, <1>2 DEF SessionInv, CreditInv, CreditStep, GoesOn, Trusted

\* What runs in the foreground.
LEMMA ForegroundTask ==
    ASSUME SessionInv, Fg.pc # "idle"
    PROVE  /\ Fg # Idle /\ Fg \in JobType /\ Working(Fg, "fg") /\ (out.how = "none" \/ ~ Calm)
           /\ Fg.flow # "none" /\ Fg.flow # "poll" /\ kind \in {"desktop", "router"}
<1>1. kind \in {"desktop", "router"} /\ Fg \in JobType /\ (Fg = Idle \/ Working(Fg, "fg"))
  BY SessionAssumption DEF SessionInv, TypeInv, ServerOK, JobsOK, Fg, Procs
<1>2. Fg # Idle
  BY IdleJob
<1>3. out.how = "none" \/ ~ Calm
  BY <1>2 DEF SessionInv, LogoutInv, LoggedOut
<1> QED
  BY <1>1, <1>2, <1>3 DEF Working, Flows, SigningIn, Lingering

\* A task that goes on without touching the secure store or the record.
LEMMA ForegroundStep ==
    ASSUME SessionInv, Frame, GoesOn, ScreenOK', Deleting'
    PROVE  SessionInv'
<1>1. /\ UNCHANGED <<kind, ring, rec, keys, epoch, cracked, stranger, straggler, out, Calm>>
      /\ Fg' = job'["fg"] /\ Bg' = Bg /\ rec.key \in 0 .. keys /\ out.key \in 0 .. keys
      /\ 0 \notin DOMAIN node /\ Len(owner) \in Nat /\ Len(owner') \in Nat /\ Len(owner) <= Len(owner')
  BY DEF Frame, Fg, Calm, SessionInv, TypeInv, ServerOK, LocalOK, MarksOK, NodesOK, OwnersKept
<1>2. TypeInv'
  <2>1. ServerOK' /\ NodesOK'
    BY DEF Frame
  <2>2. LocalOK'
    <3>1. ring \in [key : 0 .. keys, acc : Held', ref : 0 .. Len(owner')]
      BY <1>1, TokensKept DEF SessionInv, TypeInv, LocalOK
    <3>2. client' \in [Procs -> TokenPair']
      BY <1>1, TokensKept DEF Frame
    <3> QED
      BY <1>1, <3>1, <3>2 DEF SessionInv, TypeInv, LocalOK
  <2>3. MarksOK'
    BY <1>1 DEF SessionInv, TypeInv, MarksOK, Frame
  <2>4. JobsOK'
    <3>1. Fg' = Idle \/ Working(Fg, "fg")'
      BY <1>1 DEF Frame, Working, Flows
    <3>2. kind \in {"desktop", "router"}
      BY SessionAssumption DEF SessionInv, TypeInv, ServerOK
    <3> QED
      BY <1>1, <3>1, <3>2, ForegroundJobs DEF SessionInv, TypeInv, Frame
  <2> QED
    BY <2>1, <2>2, <2>3, <2>4 DEF TypeInv
<1>3. IdentityInv'
  <2>1. Recorded'
    <3>1. rec.key \in DOMAIN node' => node'[rec.key].name = rec.name /\ node'[rec.key].ip = rec.ip
      BY <1>1 DEF SessionInv, IdentityInv, Recorded, Frame, OwnKept
    <3>2. InHand' => Fg'.key = ring.key /\ Fg'.key = keys /\ keys # 0 /\ rec.key # keys
      BY DEF SessionInv, IdentityInv, Recorded, GoesOn
    <3>3. InHand' /\ Place(Fg') # "node" /\ Fg'.key \in DOMAIN node' =>
             node'[Fg'.key].name = Fg'.name /\ node'[Fg'.key].ip = Fg'.ip
      <4>1. keys \in 0 .. keys
        BY DEF SessionInv, TypeInv, LocalOK
      <4> QED
        BY <4>1, <3>2 DEF SessionInv, IdentityInv, Recorded, GoesOn, OwnShrinks, Enrolled
    <3>4. InHand' /\ Place(Fg') = "node" => Fg'.key \notin DOMAIN node'
      <4>1. keys \in 0 .. keys
        BY DEF SessionInv, TypeInv, LocalOK
      <4> QED
        BY <4>1, <3>2 DEF SessionInv, IdentityInv, Recorded, GoesOn, OwnShrinks
    <3> QED
      BY <1>1, <3>1, <3>2, <3>3, <3>4 DEF Recorded
  <2>2. Bare' /\ Matched'
    BY <1>1 DEF SessionInv, IdentityInv, Bare, Matched, GoesOn, Registering
  <2> QED
    BY <2>1, <2>2 DEF IdentityInv
<1>4. OneUser'
  <2> SUFFICES ASSUME kind = "desktop" PROVE OneUser'
    BY <1>1 DEF OneUser
  <2>1. ASSUME Trusted', rec.key \in DOMAIN node'
        PROVE  LET u == node'[rec.key].user IN
               /\ Of(client'["fg"].acc.l, u) /\ Of(client'["fg"].ref, u)
               /\ \A p \in Procs : job'[p].pc = "refresh" => Of(job'[p].sent, u)
               /\ Of(ring.acc.l, u) /\ Of(ring.ref, u)
    <3> DEFINE u == node[rec.key].user
    <3>1. rec.key \in DOMAIN node /\ node'[rec.key].user = u
      BY <1>1, <2>1 DEF Frame, OwnKept, SessionInv, IdentityInv, Recorded
    <3>2. /\ Of(client["fg"].acc.l, u) /\ Of(client["fg"].ref, u)
          /\ (Bg.pc = "refresh" => Of(Bg.sent, u)) /\ (Fg.pc = "refresh" => Of(Fg.sent, u))
          /\ Of(ring.acc.l, u) /\ Of(ring.ref, u)
      BY <2>1, <3>1, ForegroundCredit DEF SessionInv, OneUser, Fg, Bg, Procs, GoesOn
    <3> HIDE DEF u
    <3>3. Fg'.pc = "refresh" => Of(Fg'.sent, u)
      BY <3>2 DEF GoesOn
    <3> QED
      <4>1. Of(client'["fg"].acc.l, u) /\ Of(client'["fg"].ref, u)
        BY <3>2 DEF Frame, Renewed
      <4> QED
        BY <1>1, <3>1, <3>2, <3>3, <4>1 DEF Frame, Fg, Bg, Procs
  <2>2. ASSUME InHand', Fg'.key \in DOMAIN node'
        PROVE  Of(client'["fg"].ref, node'[Fg'.key].user)
    <3>1. InHand /\ Fg'.key = Fg.key /\ Fg.key \in 0 .. keys
      BY <2>2 DEF GoesOn, SessionInv, IdentityInv, Recorded, TypeInv, LocalOK
    <3> QED
      BY <2>2, <3>1 DEF SessionInv, OneUser, Frame, GoesOn, OwnShrinks, Enrolled
  <2>3. ASSUME NEW l \in 0 .. Len(owner), NEW u, Of(l, u) PROVE l # 0 => owner'[l] = u
    BY <1>1, <2>3 DEF Frame, OwnersKept, Of
  <2>4. /\ client'["fg"].acc.l \in 0 .. Len(owner) /\ client'["fg"].ref \in 0 .. Len(owner)
        /\ ring.acc.l \in 0 .. Len(owner) /\ ring.ref \in 0 .. Len(owner)
    BY DEF Frame, TokenPair, Held, Procs, SessionInv, TypeInv, LocalOK
  <2>5. \A p \in Procs : job'[p].pc = "refresh" => job'[p].sent \in 0 .. Len(owner)
    <3>1. Bg.pc = "refresh" => Bg.sent \in 0 .. Len(owner)
      BY <1>1, IdleJob DEF SessionInv, TypeInv, JobsOK, Working, Bg, Procs
    <3>2. Fg'.pc = "refresh" => Fg'.sent \in 0 .. Len(owner)
      BY <1>1, IdleJob DEF Frame, Working
    <3> QED
      BY <1>1, <3>1, <3>2 DEF Procs, Bg
  <2> QED
    BY <1>1, <2>1, <2>2, <2>3, <2>4, <2>5 DEF OneUser, Of
<1>5. ClientInv'
  <2>1. Renewed /\ kind = "desktop" => client'["fg"].acc.l = client["fg"].ref /\ client'["fg"].acc.e = epoch /\ Fg.sent # 0
    BY ForegroundTask DEF SessionInv, ClientInv, Renewed, Working
  <2> SUFFICES ASSUME kind = "desktop" PROVE ClientInv'
    BY <1>1 DEF ClientInv
  <2>2. /\ client'["fg"].ref = client["fg"].ref
        /\ client'["fg"].acc = client["fg"].acc \/ Renewed
    BY DEF Frame
  <2>3. Fg'.flow = "provision" /\ Place(Fg') \notin {"register", "login"} =>
          client'["fg"].ref # 0 /\ client'["fg"].acc.l = client'["fg"].ref
    BY <2>1, <2>2 DEF SessionInv, ClientInv, GoesOn, Registering
  <2>4. /\ Fg'.flow \in SigningIn /\ Fg'.pc # "login" => client'["fg"].ref # 0
        /\ Fg'.pc = "refresh" => Fg'.sent = client'["fg"].ref
    BY <2>2 DEF GoesOn
  <2>5. Fg'.again => Accepted("fg")'
    <3>1. Fg.again => client["fg"].acc.l # 0 /\ client["fg"].acc.e = epoch
      BY DEF SessionInv, ClientInv, Accepted, Mine, Cl
    <3>2. Fg'.again => client'["fg"].acc.l # 0 /\ client'["fg"].acc.e = epoch
      BY <2>1, <2>2, <3>1 DEF GoesOn, Renewed
    <3> QED
      BY <1>1, <3>2 DEF Accepted, Mine, Cl
  <2>6. ~ cracked /\ Restored' => client'["fg"].ref = ring.ref \/ ring.acc = NoToken
    BY <2>2 DEF SessionInv, ClientInv, GoesOn, Restored
  <2> QED
    BY <1>1, <2>3, <2>4, <2>5, <2>6 DEF ClientInv, Restored
<1>6. LogoutInv'
  <2>1. Wiping'
    <3>1. Fg'.pc = "wipe" => Needs("key", Fg'.todo) /\ Needs("acc", Fg'.todo) /\ Needs("ref", Fg'.todo)
      BY WipeNeeds, WipeOrderNeeds DEF GoesOn
    <3>2. UNCHANGED WipeOrder
      BY <1>1 DEF WipeOrder
    <3>3. kind = "router" => WipeOrder = <<"key", "acc", "ref", "rec">>
      BY DEF WipeOrder
    <3> QED
      BY <1>1, <3>1, <3>2, <3>3, WipeOrderNeeds DEF Wiping, GoesOn
  <2>2. LoggedOut'
    BY <1>1 DEF SessionInv, LogoutInv, LoggedOut, GoesOn, Registering
  <2>3. Deleted'
    BY <1>1 DEF SessionInv, LogoutInv, LoggedOut, Deleted, Deleting, Frame, OwnKept, InHand
  <2> QED
    BY <2>1, <2>2, <2>3 DEF LogoutInv
<1> QED
  BY <1>2, <1>3, <1>4, <1>5, <1>6, ForegroundCredit DEF SessionInv

\* What a step tells the user.
LEMMA ForegroundSettles ==
    ASSUME SessionInv, Settles("fg")
    PROVE  /\ told \in Nat /\ told' \in Nat /\ told' >= told
           /\ client' \in [Procs -> TokenPair] /\ (kind = "desktop" => client' = client)
           /\ \A p \in Procs : client'[p] = client[p] \/ client'[p] = NoTokens
           /\ Fg' = Idle /\ Fg.flow \in Registering /\ Place(Fg) \in {"node", "info", "save", "setAcc"}
                => told' = told + 1
           /\ Fg' = Idle /\ Fg.flow \in Registering /\ Fg.pc = "setRef" /\ faults' # faults
                => told' = told + 1
           /\ Fg.flow = "logout" /\ Fg'.flow = "lingering logout" => told' = told + 1
<1>1. told \in Nat /\ told' = told + (IF Abandons("fg") \/ Warns("fg") THEN 1 ELSE 0)
  BY DEF SessionInv, TypeInv, MarksOK, Settles
<1>2. /\ Fg' = Idle /\ Fg.flow \in Registering /\ Place(Fg) \in {"node", "info", "save", "setAcc"}
           => Abandons("fg")
      /\ Fg' = Idle /\ Fg.flow \in Registering /\ Fg.pc = "setRef" /\ faults' # faults => Abandons("fg")
      /\ Fg.flow = "logout" /\ Fg'.flow = "lingering logout" => Warns("fg")
  BY DEF Abandons, Warns, Flow, At, Fg, Place, Registering
<1>3. /\ client' \in [Procs -> TokenPair] /\ (kind = "desktop" => client' = client)
      /\ \A p \in Procs : client'[p] = client[p] \/ client'[p] = NoTokens
  BY ClientKept DEF SessionInv, TypeInv, LocalOK, Settles
<1>4. told' \in Nat /\ told' >= told /\ (Abandons("fg") \/ Warns("fg") => told' = told + 1)
  BY <1>1
<1> QED
  BY <1>1, <1>2, <1>3, <1>4

\* The foreground's step leaves the secure store, the record and the marks alone.
Outer ==
    /\ UNCHANGED <<kind, local, keys, epoch, marks>> /\ OwnersKept
    /\ ServerOK' /\ NodesOK' /\ OwnKept /\ faults' \in Nat

\* A task ends.
LEMMA ForegroundEnds ==
    ASSUME SessionInv, Outer, Settles("fg"), Ends("fg"), Fg.pc \notin {"idle", "setAcc", "setRef"},
           screen' \in {"wizard", "shell", "opening", "panel", "blocked"} \cup Prompts, loops' \in BOOLEAN,
           kind = "desktop" /\ screen' # "wizard" => Restored,
           screen' = "wizard" => screen = "wizard" /\ UNCHANGED loops,
           kind = "router" => screen' = "shell",
           kind = "desktop" => screen' \notin {"shell", "opening"}
    PROVE  SessionInv'
<1>1. job' \in [Procs -> JobType] /\ Bg' = Bg /\ Fg' = Idle
  <2>1. job \in [Procs -> JobType] /\ "fg" \in Procs
    BY DEF SessionInv, TypeInv, JobsOK, Procs
  <2> QED
    BY <2>1, EndsStep DEF Other, Fg, Bg, Procs
<1>2. UNCHANGED <<ring, rec, unsaid, cracked, stranger, straggler, out>>
  BY DEF Outer, local, marks
<1>3. Frame
  BY <1>1, <1>2, ForegroundSettles DEF Frame, Outer
<1>4. /\ Fg'.flow = "none" /\ Fg'.pc = "idle" /\ ~ Fg'.again /\ Place(Fg') = "idle"
      /\ ~ InHand' /\ ~ Caching' /\ ~ Caching
  <2>1. Fg'.flow = "none" /\ Fg'.pc = "idle" /\ ~ Fg'.again /\ Place(Fg') = "idle"
    BY <1>1, IdleJob
  <2> QED
    BY <2>1 DEF InHand, Caching, Registering
<1>5. ScreenOK'
  <2>1. kind = "desktop" /\ screen' # "wizard" => screen # "wizard"
    BY ForegroundTask DEF Restored, SessionInv, ScreenOK, SigningIn
  <2>2. kind \in {"desktop", "router"} /\ UNCHANGED kind
    BY ForegroundTask DEF Outer
  <2> QED
    BY <1>1, <1>2, <1>4, <2>1, <2>2 DEF ScreenOK, SessionInv, SigningIn, Lingering
<1>6. Deleting'
  BY <1>4 DEF Deleting
<1>7. GoesOn
  BY <1>1, <1>4, ForegroundTask, ForegroundSettles
     DEF GoesOn, InHand, Registering, SigningIn, Lingering, Restored
<1> QED
  BY <1>3, <1>5, <1>6, <1>7, ForegroundStep

\* A task goes on in the same window.
LEMMA ForegroundGoes ==
    ASSUME SessionInv, Outer, Settles("fg"), UNCHANGED <<ui, owner>>, job' \in [Procs -> JobType], Other("fg"),
           Fg.pc \notin {"idle", "setAcc", "setRef"}, Working(Fg', "fg"), GoesOn,
           (Trusted' => Trusted) => Deleting',
           \/ Fg'.flow = Fg.flow
           \/ Fg.flow = "logout" /\ Fg'.flow = "lingering logout"
    PROVE  SessionInv'
<1>1. UNCHANGED <<kind, ring, rec, screen, loops, unsaid, cracked, stranger, straggler, out>> /\ Bg' = Bg
  BY DEF Outer, local, marks, ui, Other, Bg, Procs
<1>2. Frame
  BY <1>1, ForegroundSettles DEF Frame, Outer, SessionInv, TypeInv, MarksOK
<1>3. ScreenOK'
  BY <1>1 DEF ScreenOK, SessionInv, Lingering
<1> QED
  BY <1>2, <1>3, ForegroundCredit, ForegroundStep

\* An error that leaves the flow where it was, or ends it.
LEMMA ForegroundFails ==
    ASSUME SessionInv, Outer, Settles("fg"), Fg.pc \in Calls \cup {"refresh", "save"},
           NEW e, Fails("fg", e), owner' = owner \/ Fg.pc = "login"
    PROVE  SessionInv'
<1>1. Fg.pc \notin {"idle", "setAcc", "setRef", "wipe", "revoke"} /\ "fg" \in Procs /\ job \in [Procs -> JobType]
  BY DEF Calls, AuthCalls, Procs, SessionInv, TypeInv, JobsOK
<1>2. /\ Working(Fg, "fg") /\ Fg \in JobType /\ kind \in {"desktop", "router"}
      /\ out.how = "none" \/ ~ Calm
  BY <1>1, ForegroundTask
<1>3. /\ screen \in {"wizard", "shell", "opening", "panel", "blocked"} \cup Prompts /\ loops \in BOOLEAN
      /\ ScreenOK /\ Fg.flow # "poll"
  BY <1>1, ForegroundTask DEF SessionInv, TypeInv, MarksOK
<1>4. CASE FormAgain("fg")
  <2>1. /\ Ends("fg") /\ UNCHANGED <<screen, loops>>
        /\ Fg.flow \in {"provision", "cmdLogin", "cmdRegister"} \cup SigningIn
    BY <1>4 DEF FormAgain, Flow, ui, Fg, SigningIn
  <2>2. /\ kind = "desktop" /\ Fg.flow = "provision" => screen = "wizard"
        /\ kind = "desktop" /\ Fg.flow \in SigningIn => screen \in Prompts
        /\ kind = "desktop" => Fg.flow \notin {"cmdLogin", "cmdRegister"}
        /\ kind = "router" => screen = "shell"
    BY <1>2, <1>3 DEF ScreenOK, SigningIn, Prompts, Working, Flows, Lingering
  <2>3. Fg.flow \in SigningIn => Restored
    BY <1>1, <1>2, ForegroundTask DEF Restored, Working, Placed, Place, SigningIn, Lingering, AuthCalls
  <2> QED
    BY <1>1, <1>2, <1>3, <2>1, <2>2, <2>3, ForegroundEnds DEF Prompts
<1>5. CASE LoadFails("fg", e)
  <2>1. Ends("fg") /\ Fg.flow = "load" /\ screen' \in {"prompt", "panel"}
    BY <1>5 DEF LoadFails, Flow, Fg
  <2>2. loops' \in BOOLEAN
    BY <1>5, Zenon DEF LoadFails
  <2>3. Restored /\ kind = "desktop"
    BY <1>1, <1>2, <2>1, ForegroundTask DEF Restored, Working, Flows
  <2> QED
    BY <1>1, <2>1, <2>2, <2>3, ForegroundEnds DEF Prompts
<1>6. CASE LogoutFails("fg", e)
  <2>1. Fg.flow = "logout" /\ kind = "desktop" /\ Restored /\ Place(Fg) \in {"list", "delete"}
    BY <1>1, <1>2, <1>6, ForegroundTask DEF LogoutFails, Flow, Fg, Restored, Working, Flows, Placed, Place,
       SigningIn, Lingering, AuthCalls
  <2>2. CASE Ends("fg") /\ screen' \in {"blocked", "prompt to log out"} /\ UNCHANGED loops
    BY <1>1, <1>3, <2>1, <2>2, ForegroundEnds DEF Prompts
  <2>3. CASE /\ job' = [job EXCEPT !["fg"].pc = "list", !["fg"].again = FALSE, !["fg"].tries = @ + 1]
             /\ UNCHANGED ui
    <3> DEFINE n == Fg.tries + 1
               j == [Fg EXCEPT !.pc = "list", !.again = FALSE, !.tries = n]
    <3>0. n \in Nat
      BY <1>2 DEF JobType
    <3>1. job' = [job EXCEPT !["fg"] = j]
      BY <2>3 DEF Fg
    <3> HIDE DEF n
    <3>2. j \in JobType /\ j.pc = "list" /\ ~ j.again /\ SameTask(Fg, j)
      <4>1. "list" \in Steps
        BY DEF Steps
      <4> QED
        BY <1>2, <3>0, <4>1 DEF JobType, SameTask
    <3> HIDE DEF j
    <3>3. job' \in [Procs -> JobType] /\ Fg' = j /\ Other("fg")
      BY <1>1, <3>1, <3>2, Moves DEF Fg
    <3>4. Fg'.pc = "list" /\ ~ Fg'.again /\ SameTask(Fg, Fg') /\ Place(Fg') = "list" /\ Fg'.flow = "logout"
      BY <2>1, <3>2, <3>3 DEF Place, SameTask
    <3>5. Working(Fg', "fg")
      BY <1>2, <2>1, <3>4 DEF Working, Placed, Forms, Registering, SigningIn, Lingering
    <3>6. GoesOn
      BY <1>1, <1>2, <2>1, <2>3, <3>4
         DEF GoesOn, InHand, Caching, Registering, SigningIn, Lingering, Restored, ui
    <3>7. Deleting'
      BY <3>4 DEF Deleting
    <3> QED
      BY <1>1, <2>1, <2>3, <3>3, <3>4, <3>5, <3>6, <3>7, ForegroundGoes DEF Place
  <2>4. CASE /\ job' = [job EXCEPT !["fg"].pc = "revoke", !["fg"].flow = "lingering logout"]
             /\ UNCHANGED ui
    <3> DEFINE j == [Fg EXCEPT !.pc = "revoke", !.flow = "lingering logout"]
    <3>1. job' = [job EXCEPT !["fg"] = j]
      BY <2>4 DEF Fg
    <3>2. j \in JobType /\ j.pc = "revoke" /\ j.flow = "lingering logout"
      <4>1. "revoke" \in Steps /\ "lingering logout" \in Tasks
        BY DEF Steps, Tasks
      <4> QED
        BY <1>2, <4>1 DEF JobType
    <3>3. j.again => Fg.again
      BY <1>2 DEF JobType
    <3> HIDE DEF j
    <3>4. job' \in [Procs -> JobType] /\ Fg' = j /\ Other("fg")
      BY <1>1, <3>1, <3>2, Moves DEF Fg
    <3>5. Fg'.pc = "revoke" /\ (Fg'.again => Fg.again) /\ Place(Fg') = "revoke" /\ Fg'.flow = "lingering logout"
      BY <3>2, <3>3, <3>4 DEF Place
    <3>6. Working(Fg', "fg")
      BY <1>2, <2>1, <3>5 DEF Working, Flows, Placed, Forms, Registering, SigningIn, Lingering
    <3>7. GoesOn
      <4>1. Fg' # Idle
        BY <3>5, IdleJob
      <4> QED
        BY <1>1, <1>2, <2>1, <2>4, <3>5, <4>1, ForegroundSettles
           DEF GoesOn, InHand, Caching, Registering, SigningIn, Restored, ui
    <3>8. Deleting'
      BY <3>5 DEF Deleting
    <3> QED
      BY <1>1, <2>1, <2>4, <3>4, <3>5, <3>6, <3>7, <3>8, ForegroundGoes DEF Place
  <2> QED
    BY <1>6, <2>2, <2>3, <2>4 DEF LogoutFails
<1>7. CASE CmdLogoutFails("fg")
  <2>1. Fg.flow = "cmdLogout" /\ kind = "router" /\ Place(Fg) = "delete" /\ UNCHANGED ui
    BY <1>1, <1>2, <1>7 DEF CmdLogoutFails, Flow, Fg, Working, Flows, Placed, Place,
       SigningIn, Lingering, AuthCalls
  <2>2. CASE Ends("fg")
    BY <1>1, <1>3, <2>1, <2>2, ForegroundEnds DEF ui, ScreenOK
  <2>3. CASE job' = [job EXCEPT !["fg"].again = FALSE, !["fg"].tries = @ + 1, !["fg"].pc = "delete"]
    <3> DEFINE n == Fg.tries + 1
               j == [Fg EXCEPT !.again = FALSE, !.tries = n, !.pc = "delete"]
    <3>0. n \in Nat
      BY <1>2 DEF JobType
    <3>1. job' = [job EXCEPT !["fg"] = j]
      BY <2>3 DEF Fg
    <3> HIDE DEF n
    <3>2. j \in JobType /\ j.pc = "delete" /\ ~ j.again /\ SameTask(Fg, j)
      <4>1. "delete" \in Steps
        BY DEF Steps
      <4> QED
        BY <1>2, <3>0, <4>1 DEF JobType, SameTask
    <3> HIDE DEF j
    <3>3. job' \in [Procs -> JobType] /\ Fg' = j /\ Other("fg")
      BY <1>1, <3>1, <3>2, Moves DEF Fg
    <3>4. /\ Fg'.pc = "delete" /\ ~ Fg'.again /\ Place(Fg') = "delete" /\ Fg'.flow = "cmdLogout"
          /\ Fg'.key = Fg.key
      BY <2>1, <3>2, <3>3 DEF Place, SameTask
    <3>5. Working(Fg', "fg")
      BY <1>2, <2>1, <3>4 DEF Working, Flows, Placed, Forms, Registering, SigningIn, Lingering
    <3>6. GoesOn
      BY <1>1, <1>2, <2>1, <3>4
         DEF GoesOn, InHand, Caching, Registering, SigningIn, Lingering, Restored, ui
    <3>7. Deleting'
      BY <2>1, <3>4 DEF Deleting, SessionInv, LogoutInv, Deleted, Outer, local
    <3> QED
      BY <1>1, <2>1, <3>3, <3>4, <3>5, <3>6, <3>7, ForegroundGoes DEF Place
  <2> QED
    BY <1>7, <2>2, <2>3 DEF CmdLogoutFails
<1>8. CASE BackgroundFails("fg")
  <2>1. Fg.flow = "cycle" /\ kind = "router" /\ UNCHANGED ui /\ Goes("fg", "setAcc") /\ "setAcc" \in Steps
    BY <1>2, <1>3, <1>8 DEF BackgroundFails, Flow, Fg, Working, Flows, SigningIn, Lingering, Steps
  <2>2. /\ job' \in [Procs -> JobType] /\ Other("fg")
        /\ Fg'.pc = "setAcc" /\ ~ Fg'.again /\ Place(Fg') = "setAcc" /\ Fg'.flow = "cycle"
    BY <1>1, <2>1, GoesStep DEF Fg, Place, SameTask
  <2>3. Working(Fg', "fg")
    BY <1>2, <2>1, <2>2 DEF Working, Flows, Placed, Forms, Registering, SigningIn, Lingering
  <2>4. GoesOn
    BY <1>1, <1>2, <2>1, <2>2
       DEF GoesOn, InHand, Caching, Registering, SigningIn, Lingering, Restored, ui
  <2>5. Deleting'
    BY <2>2 DEF Deleting
  <2> QED
    <3>1. Fg.pc # "login"
      BY <1>1, <1>2, <2>1 DEF Working, Placed, Place, SigningIn, Lingering
    <3> QED
      BY <1>1, <2>1, <2>2, <2>3, <2>4, <2>5, <3>1, ForegroundGoes
<1> QED
  BY <1>4, <1>5, <1>6, <1>7, <1>8 DEF Fails

\* A call that changes nothing on the server.
LEMMA NothingElse ==
    ASSUME SessionInv, UNCHANGED <<kind, local, keys, server, world, marks>>, faults' \in Nat
    PROVE  Outer /\ owner' = owner
<1>1. UNCHANGED <<kind, acct, node, live, owner, epoch, online, events, keys>>
  BY DEF server, world
<1>2. ServerOK' /\ NodesOK'
  BY <1>1 DEF SessionInv, TypeInv, ServerOK, NodesOK
<1>3. OwnersKept /\ OwnKept
  <2>1. Len(owner) \in Nat
    BY DEF SessionInv, TypeInv, ServerOK
  <2> QED
    BY <1>1, <2>1 DEF OwnersKept, OwnKept
<1> QED
  BY <1>1, <1>2, <1>3 DEF Outer

\* The task in the foreground goes to its next step, without more to do.
LEMMA ForegroundNext ==
    ASSUME SessionInv, Outer, Settles("fg"), UNCHANGED <<ui, owner>>, NEW pc \in Steps, Goes("fg", pc),
           Fg.pc \notin {"idle", "key", "setAcc", "setRef", "refresh"}, pc \notin {"refresh", "wipe"},
           Placed([Fg EXCEPT !.pc = pc]),
           pc \in {"register", "login", "key"} => Fg.pc = "register",
           Fg.flow \in Registering => pc \in {"login", "info", "save"},
           Fg.flow \in SigningIn => pc = "login",
           InHand => pc \in {"info", "save"} /\ Fg.pc = "info",
           Fg.pc \in {"register", "login"} => pc \in {"register", "login", "setAcc"},
           Fg.flow = "logout" => pc = "revoke",
           Fg.flow = "cmdLogout" => pc = "revoke" /\ rec.key \notin DOMAIN node',
           Fg.flow = "logout" /\ Trusted => rec.key \notin DOMAIN node'
    PROVE  SessionInv'
<1>1. /\ job \in [Procs -> JobType] /\ "fg" \in Procs
      /\ Working(Fg, "fg") /\ Fg \in JobType /\ Fg # Idle /\ kind \in {"desktop", "router"}
      /\ out.how = "none" \/ ~ Calm
  BY ForegroundTask DEF SessionInv, TypeInv, JobsOK, Procs
<1>2. /\ job' \in [Procs -> JobType] /\ Other("fg")
      /\ Fg'.pc = pc /\ ~ Fg'.again /\ SameTask(Fg, Fg')
  BY <1>1, GoesStep DEF Fg
<1>3. /\ Fg'.flow = Fg.flow /\ Fg'.u = Fg.u /\ Fg'.name = Fg.name /\ Fg'.key = Fg.key /\ Fg'.ip = Fg.ip
      /\ Place(Fg') = pc /\ Place(Fg) = Fg.pc
  BY <1>2 DEF SameTask, Place
<1>4. Working(Fg', "fg")
  <2>1. Placed(Fg')
    <3> DEFINE j == [Fg EXCEPT !.pc = pc]
    <3>1. j.flow = Fg.flow /\ Place(j) = pc
      BY <1>1 DEF JobType, Place
    <3>2. Placed(j)
      OBVIOUS
    <3> HIDE DEF j
    <3> QED
      BY <1>3, <3>1, <3>2 DEF Placed
  <2> QED
    BY <1>1, <1>2, <1>3, <2>1 DEF Working, Registering
<1>5. Fg' # Idle
  BY <1>1, <1>3, ForegroundTask, IdleJob
<1>6. InHand' <=> InHand
  <2>1. InHand' => InHand
    BY <1>1, <1>2, <1>3 DEF InHand, Registering, Working, Placed, SigningIn, Lingering
  <2>2. InHand => InHand'
    BY <1>3 DEF InHand
  <2> QED
    BY <2>1, <2>2
<1>7. GoesOn
  <2>1. ~ Caching /\ ~ Caching'
    BY <1>2, <1>3 DEF Caching, Registering
  <2>2. InHand' => /\ InHand /\ Fg'.key = Fg.key /\ Fg'.name = Fg.name
                   /\ OwnShrinks /\ Fg'.ip = Fg.ip /\ (Place(Fg) = "node" => Place(Fg') = "node")
    BY <1>3, <1>6 DEF Outer, OwnKept, OwnShrinks
  <2>3. /\ kind = "desktop" /\ Restored' => Restored
    BY <1>1, <1>2, <1>3, <1>5 DEF Restored, Working, Placed, SigningIn, Lingering
  <2>4. screen' = screen
    BY DEF ui
  <2> QED
    BY <1>1, <1>2, <1>3, <1>6, <2>1, <2>2, <2>3, <2>4 DEF GoesOn, Registering
<1>8. (Trusted' => Trusted) => Deleting'
  BY <1>2, <1>3 DEF Deleting, SessionInv, LogoutInv, Deleted, Outer, local
<1> QED
  BY <1>1, <1>2, <1>3, <1>4, <1>7, <1>8, ForegroundGoes

\* An error of a call, or the answer of a read.
LEMMA ForegroundReads ==
    ASSUME SessionInv,
           \/ Unreachable("fg") \/ ServerError("fg") \/ ServerInfo("fg") \/ Me("fg") \/ ListInBackground("fg")
    PROVE  SessionInv'
<1>1. /\ UNCHANGED <<kind, local, keys, server, world, marks>> /\ faults' \in Nat /\ Settles("fg")
      /\ faults \in Nat
  BY DEF SessionInv, TypeInv, MarksOK, Unreachable, ServerError, ServerInfo, Me, ListInBackground, Fault
<1>2. Outer /\ owner' = owner
  BY <1>1, NothingElse
<1>3. CASE Unreachable("fg") \/ ServerError("fg")
  <2>1. Fg.pc \in Calls /\ \E e \in {"unreachable", "server"} : Fails("fg", e)
    BY <1>3 DEF Unreachable, ServerError, Fg
  <2> QED
    BY <1>1, <1>2, <2>1, ForegroundFails
<1>4. CASE ServerInfo("fg")
  <2>1. Fg.pc = "info" /\ Goes("fg", "save") /\ UNCHANGED ui /\ "save" \in Steps
    BY <1>4 DEF ServerInfo, At, Fg, Steps
  <2>2. Fg.flow \in Registering /\ Fg \in JobType
    BY <2>1, ForegroundTask DEF Working, Placed, Place, Registering, SigningIn, Lingering
  <2>3. Placed([Fg EXCEPT !.pc = "save"])
    BY <2>2 DEF JobType, Placed, Place, Registering
  <2> QED
    BY <1>1, <1>2, <2>1, <2>2, <2>3, ForegroundNext DEF Registering, SigningIn
<1>5. CASE Me("fg")
  <2>1. Fg.pc = "me" /\ Ends("fg") /\ screen' = "panel"
    BY <1>5 DEF Me, At, Fg
  <2>2. loops' \in BOOLEAN
    BY <1>5, Zenon DEF Me
  <2>3. Fg.flow = "load" /\ Fg # Idle /\ kind = "desktop"
    BY <2>1, ForegroundTask DEF Working, Flows, Placed, Place, SigningIn, Lingering
  <2> QED
    BY <1>1, <1>2, <2>1, <2>2, <2>3, ForegroundEnds DEF Restored
<1>6. CASE ListInBackground("fg")
  <2>1. Fg.pc = "list" /\ Fg.flow \in {"poll", "cycle"} /\ UNCHANGED ui /\ "setAcc" \in Steps
    BY <1>6 DEF ListInBackground, At, Flow, Fg, Steps
  <2>2. Fg.flow = "cycle" /\ Fg \in JobType
    BY <2>1, ForegroundTask
  <2>3. Goes("fg", "setAcc")
    BY <1>6, <2>2 DEF ListInBackground, Flow, Fg
  <2>4. Placed([Fg EXCEPT !.pc = "setAcc"]) /\ ~ InHand
    BY <2>2 DEF JobType, Placed, Place, InHand, Registering
  <2> QED
    BY <1>1, <1>2, <2>1, <2>2, <2>3, <2>4, ForegroundNext DEF Registering, SigningIn
<1> QED
  BY <1>3, <1>4, <1>5, <1>6

\* A 401 on the foreground's call.
LEMMA ForegroundRejected ==
    ASSUME SessionInv, Rejected("fg")
    PROVE  SessionInv'
<1>1. /\ Fg.pc \in AuthCalls /\ faults' \in Nat /\ faults' = faults
      /\ UNCHANGED <<kind, local, keys, server, world, marks>> /\ Settles("fg")
  BY DEF Rejected, Fg, SessionInv, TypeInv, MarksOK
<1>2. Outer /\ owner' = owner
  BY <1>1, NothingElse
<1>3. CASE Fails("fg", "expired")
  BY <1>1, <1>2, <1>3, ForegroundFails DEF Calls
<1>4. CASE /\ job' = [job EXCEPT !["fg"].pc = "refresh", !["fg"].back = Fg.pc, !["fg"].sent = Mine("fg").ref]
           /\ UNCHANGED ui /\ Mine("fg").ref # 0
  <2> DEFINE r == Mine("fg").ref
  <2>1. job \in [Procs -> JobType] /\ "fg" \in Procs /\ Fg.pc \notin {"idle", "setAcc", "setRef", "refresh", "wipe", "revoke"}
    BY <1>1 DEF SessionInv, TypeInv, JobsOK, Procs, AuthCalls
  <2>2. job' = [job EXCEPT !["fg"].pc = "refresh", !["fg"].back = job["fg"].pc, !["fg"].sent = r]
    BY <1>4 DEF Fg
  <2>3. r \in 1 .. Len(owner) /\ Len(owner) \in Nat /\ r \in Nat /\ r = client["fg"].ref
    BY <1>4 DEF SessionInv, TypeInv, ServerOK, LocalOK, Mine, Cl, Procs, TokenPair
  <2> HIDE DEF r
  <2>4. /\ job' \in [Procs -> JobType] /\ Other("fg")
        /\ Fg'.pc = "refresh" /\ Fg'.back = Fg.pc /\ Fg'.sent = r /\ Fg'.flow = Fg.flow
        /\ Fg'.u = Fg.u /\ Fg'.name = Fg.name /\ Fg'.key = Fg.key /\ Fg'.ip = Fg.ip
        /\ Fg'.again => Fg.again
    BY <2>1, <2>2, <2>3, AsksStep DEF Fg
  <2>5. Place(Fg') = Fg.pc /\ Place(Fg) = Fg.pc
    BY <2>1, <2>4 DEF Place
  <2>6. Working(Fg, "fg") /\ Fg # Idle /\ (out.how = "none" \/ ~ Calm)
    BY <2>1, ForegroundTask
  <2>7. Working(Fg', "fg")
    <3>1. Placed(Fg')
      BY <2>4, <2>5, <2>6 DEF Working, Placed
    <3> QED
      BY <1>1, <2>1, <2>3, <2>4, <2>5, <2>6, <3>1 DEF Working
  <2>8. GoesOn
    <3>1. ~ Caching /\ ~ Caching' /\ (InHand' <=> InHand)
      BY <2>1, <2>4, <2>5 DEF Caching, InHand
    <3>2. OwnShrinks
      BY <1>1 DEF OwnShrinks, server
    <3>3. screen' = screen /\ Fg' # Idle
      BY <1>4, <2>4, IdleJob DEF ui
    <3>4. Restored' => Restored
      BY <2>1, <2>4, <2>5, <2>6, <3>3 DEF Restored
    <3>5. Fg.flow \notin SigningIn
      BY <1>1, <2>1, <2>5, <2>6 DEF Working, Placed, SigningIn, Lingering, AuthCalls
    <3> QED
      BY <2>1, <2>3, <2>4, <2>5, <2>6, <3>1, <3>2, <3>3, <3>4, <3>5 DEF GoesOn
  <2>9. (Trusted' => Trusted) => Deleting'
    <3>1. node' = node /\ rec' = rec
      BY <1>1 DEF server, local
    <3> QED
      BY <2>4, <2>5, <3>1 DEF Deleting, SessionInv, LogoutInv, Deleted
  <2> QED
    BY <1>1, <1>2, <1>4, <2>1, <2>4, <2>7, <2>8, <2>9, ForegroundGoes
<1> QED
  BY <1>3, <1>4 DEF Rejected, Fg

\* The foreground's refresh is answered.
LEMMA ForegroundRefresh ==
    ASSUME SessionInv, Refresh("fg")
    PROVE  SessionInv'
<1>1. Fg.pc = "refresh" /\ UNCHANGED <<kind, local, keys, server, world, marks>> /\ faults \in Nat
  BY DEF Refresh, At, Fg, SessionInv, TypeInv, MarksOK
<1>2. CASE /\ Fg.sent \in live /\ Holds("fg", [Mine("fg") EXCEPT !.acc = [l |-> Fg.sent, e |-> epoch]])
           /\ job' = [job EXCEPT !["fg"].pc = Fg.back, !["fg"].again = TRUE]
           /\ Smooth /\ UNCHANGED <<ui, told>>
  <2> DEFINE a == [l |-> Fg.sent, e |-> epoch]
  <2>1. job \in [Procs -> JobType] /\ "fg" \in Procs
    BY DEF SessionInv, TypeInv, JobsOK, Procs
  <2>2. /\ job' \in [Procs -> JobType] /\ Other("fg")
        /\ Fg'.pc = Fg.back /\ SameTask(Fg, Fg')
    BY <1>2, <2>1, ReturnsStep DEF Fg
  <2>3. /\ Fg.back \in AuthCalls /\ Working(Fg, "fg") /\ Fg # Idle /\ (out.how = "none" \/ ~ Calm)
    BY <1>1, ForegroundTask DEF Working
  <2>4. /\ Bg' = Bg /\ Fg'.pc \notin {"idle", "setAcc", "setRef", "refresh", "wipe", "revoke"}
        /\ Place(Fg') = Place(Fg) /\ Place(Fg) = Fg.back
        /\ Fg'.flow = Fg.flow /\ Fg'.u = Fg.u /\ Fg'.name = Fg.name /\ Fg'.key = Fg.key /\ Fg'.ip = Fg.ip
    BY <1>1, <2>2, <2>3 DEF Other, Bg, Procs, Place, AuthCalls, SameTask
  <2>5. Working(Fg', "fg")
    <3>1. Placed(Fg')
      BY <2>3, <2>4 DEF Working, Placed
    <3> QED
      BY <2>3, <2>4, <3>1 DEF Working
  <2>6. a \in Held
    BY <1>2 DEF SessionInv, TypeInv, ServerOK, Held
  <2>7. client \in [Procs -> TokenPair] /\ Cl("fg") = "fg"
    BY DEF SessionInv, TypeInv, LocalOK, Cl
  <2>8. client' = [client EXCEPT !["fg"] = [client["fg"] EXCEPT !.acc = a]]
    BY <1>2, <2>7 DEF Holds, Mine
  <2> HIDE DEF a
  <2>9. client' \in [Procs -> TokenPair] /\ client'["fg"].ref = client["fg"].ref /\ client'["fg"].acc = a
    BY <2>6, <2>7, <2>8 DEF TokenPair, Procs
  <2>10. Renewed
    BY <1>1, <2>9 DEF Renewed, a
  <2>11. Outer /\ owner' = owner /\ node' = node /\ UNCHANGED <<ring, rec, screen, loops, told, unsaid, cracked, stranger, straggler, out>>
    BY <1>1, <1>2, NothingElse DEF Smooth, server, local, marks, ui
  <2>12. Frame
    BY <1>1, <2>2, <2>4, <2>5, <2>9, <2>10, <2>11 DEF Frame, Outer, SessionInv, TypeInv, MarksOK
  <2>13. GoesOn
    <3>1. ~ Caching /\ ~ Caching' /\ (InHand' <=> InHand)
      BY <1>1, <2>4 DEF Caching, InHand
    <3>2. OwnShrinks
      BY <2>11 DEF OwnShrinks
    <3>3. Fg' # Idle
      BY <2>4, IdleJob
    <3>4. Fg.flow \notin SigningIn
      BY <2>3, <2>4 DEF Working, Placed, SigningIn, Lingering, AuthCalls
    <3>5. Restored' => Restored
      BY <2>3, <2>4, <3>3, <3>4 DEF Restored
    <3> QED
      BY <1>1, <2>3, <2>4, <2>10, <2>11, <3>1, <3>2, <3>4, <3>5 DEF GoesOn
  <2>14. ScreenOK'
    BY <1>1, <2>4, <2>11 DEF SessionInv, ScreenOK
  <2>15. Deleting'
    BY <2>4, <2>11, <2>12, <2>13, ForegroundCredit DEF Deleting, SessionInv, LogoutInv, Deleted
  <2> QED
    BY <2>12, <2>13, <2>14, <2>15, ForegroundStep
<1>3. CASE /\ Smooth \/ Fault("net") \/ Fault("server")
           /\ Fails("fg", "expired") /\ Settles("fg")
  <2>1. faults' \in Nat
    BY <1>1, <1>3 DEF Smooth, Fault
  <2> QED
    BY <1>1, <1>3, <2>1, NothingElse, ForegroundFails
<1> QED
  BY <1>2, <1>3 DEF Refresh, Fg

\* An account is created.
LEMMA ForegroundCreates ==
    ASSUME SessionInv, CreateAccount("fg")
    PROVE  SessionInv'
<1>1. /\ Fg.pc = "register" /\ Settles("fg") /\ faults \in Nat
      /\ UNCHANGED <<kind, local, keys, node, live, owner, world, marks>>
  BY DEF CreateAccount, At, Fg, SessionInv, TypeInv, MarksOK
<1>2. Fg.flow \in {"provision", "cmdLogin"} /\ Fg \in JobType /\ Fg.u \in Users
  BY <1>1, ForegroundTask DEF Working, Placed, Place, Forms, SigningIn, Lingering
<1>3. /\ acct' = acct \/ acct' = acct \cup {Fg.u}
      /\ Smooth \/ Fault("net")
  BY DEF CreateAccount, Fg
<1>4. faults' \in Nat /\ acct' \subseteq Users
  BY <1>1, <1>2, <1>3 DEF Smooth, Fault, SessionInv, TypeInv, ServerOK
<1>5. Outer /\ owner' = owner
  <2>1. ServerOK' /\ NodesOK' /\ Len(owner) \in Nat
    BY <1>1, <1>4 DEF SessionInv, TypeInv, ServerOK, NodesOK, world
  <2> QED
    BY <1>1, <1>4, <2>1 DEF Outer, OwnersKept, OwnKept, world
<1>6. CASE \E e \in {"unreachable", "taken"} : Fails("fg", e)
  BY <1>1, <1>5, <1>6, ForegroundFails DEF Calls
<1>7. CASE Goes("fg", "login") /\ UNCHANGED ui
  <2>1. "login" \in Steps /\ Placed([Fg EXCEPT !.pc = "login"]) /\ ~ InHand
    BY <1>1, <1>2 DEF Steps, JobType, Placed, Place, InHand, Registering
  <2> QED
    BY <1>1, <1>2, <1>5, <1>7, <2>1, ForegroundNext
<1> QED
  BY <1>6, <1>7 DEF CreateAccount

\* The server answers as the account of the foreground's access token.
LEMMA ForegroundAccount ==
    ASSUME SessionInv, Answered("fg")
    PROVE  /\ UserOf("fg") = owner[client["fg"].acc.l] /\ UserOf("fg") \in Users
           /\ client["fg"].acc.l # 0
<1>1. client["fg"].acc.l \in 1 .. Len(owner) /\ UserOf("fg") = owner[client["fg"].acc.l] /\ Len(owner) \in Nat
  BY DEF Answered, Accepted, UserOf, Mine, Cl, SessionInv, TypeInv, ServerOK, LocalOK, TokenPair, Held, Procs
<1>2. owner \in Seq(Users)
  BY DEF SessionInv, TypeInv, ServerOK
<1> QED
  BY <1>1, <1>2

\* The device is registered, or its name is taken.
LEMMA ForegroundRegisters ==
    ASSUME SessionInv, RegisterNode("fg")
    PROVE  SessionInv'
<1>1. /\ Fg.pc = "node" /\ Settles("fg") /\ faults \in Nat /\ Answered("fg")
      /\ UNCHANGED <<kind, local, keys, acct, live, owner, world, marks>>
  BY DEF RegisterNode, At, Fg, SessionInv, TypeInv, MarksOK
<1>2. /\ Fg.flow \in Registering /\ Fg \in JobType /\ Fg.name \in Names /\ Working(Fg, "fg")
      /\ out.how = "none" \/ ~ Calm
  BY <1>1, ForegroundTask DEF Working, Placed, Place, Registering, SigningIn, Lingering
<1>3. InHand /\ Place(Fg) = "node" /\ Fg.key = keys /\ keys \in Nat \ {0} /\ rec.key # keys
  BY <1>1, <1>2 DEF InHand, Place, SessionInv, IdentityInv, Recorded, TypeInv, LocalOK
<1> DEFINE u == UserOf("fg")
<1>4. u \in Users
  BY <1>1, ForegroundAccount
<1>5. NodesOK /\ ServerOK' /\ Len(owner) \in Nat /\ epoch' = epoch
  BY <1>1 DEF SessionInv, TypeInv, ServerOK, world
<1>6. CASE /\ Taken(Fg.name, u) /\ Fails("fg", "taken") /\ Smooth /\ UNCHANGED node
  <2>1. UNCHANGED <<kind, local, keys, server, world, marks>> /\ faults' \in Nat
    BY <1>1, <1>6 DEF server, Smooth
  <2> QED
    BY <1>1, <1>6, <2>1, NothingElse, ForegroundFails DEF Calls, AuthCalls
<1>7. CASE ~ Taken(Fg.name, u) /\ node' = Registered(Fg.key, Fg.name, u)
  <2> HIDE DEF u
  <2>1. /\ NodesOK' /\ DOMAIN node' = DOMAIN node \cup {Fg.key}
        /\ node'[Fg.key] = [name |-> Fg.name, user |-> u, ip |-> FreeIp]
        /\ \A m \in DOMAIN node : m # Fg.key => node'[m] = node[m]
    <3>1. /\ Fg.key \in Nat \ {0} /\ (Fg.key <= keys \/ Fg.key > Bound[kind].keys)
          /\ kind' = kind /\ keys' = keys
      BY <1>1, <1>3
    <3>2. ~ Taken(Fg.name, u) /\ node' = Registered(Fg.key, Fg.name, u)
      BY <1>7
    <3> QED
      BY <1>2, <1>4, <1>5, <3>1, <3>2, GrowingNodes
  <2>2. Outer \/ faults' \notin Nat
    BY <1>1, <1>3, <1>5, <2>1 DEF Outer, OwnersKept, OwnKept
  <2>3. CASE Fault("net") /\ Fails("fg", "unreachable")
    <3>1. faults' \in Nat
      BY <1>1, <2>3 DEF Fault
    <3> QED
      BY <1>1, <2>2, <2>3, <3>1, ForegroundFails DEF Calls, AuthCalls
  <2>4. CASE /\ Smooth /\ UNCHANGED ui
             /\ job' = [job EXCEPT !["fg"].pc = "info", !["fg"].again = FALSE, !["fg"].ip = FreeIp]
    <3> DEFINE i == FreeIp
               j == [Fg EXCEPT !.pc = "info", !.again = FALSE, !.ip = i]
    <3>1. i \in Nat
      BY <1>5, FreeIpExists
    <3>2. job' = [job EXCEPT !["fg"] = j]
      BY <2>4 DEF Fg
    <3>3. node'[Fg.key].name = Fg.name /\ node'[Fg.key].ip = i /\ node'[Fg.key].user = u
      BY <2>1
    <3> HIDE DEF i
    <3>4. /\ j \in JobType /\ j.pc = "info" /\ ~ j.again /\ j.ip = i
          /\ j.flow = Fg.flow /\ j.key = Fg.key /\ j.name = Fg.name /\ j.u = Fg.u
      <4>1. "info" \in Steps
        BY DEF Steps
      <4> QED
        BY <1>2, <3>1, <4>1 DEF JobType
    <3> HIDE DEF j
    <3>5. job' \in [Procs -> JobType] /\ Fg' = j /\ Other("fg")
      <4>1. job \in [Procs -> JobType] /\ "fg" \in Procs
        BY DEF SessionInv, TypeInv, JobsOK, Procs
      <4> QED
        BY <3>2, <3>4, <4>1, Moves DEF Fg
    <3>6. /\ Fg'.pc = "info" /\ ~ Fg'.again /\ Place(Fg') = "info" /\ Fg'.ip = i
          /\ Fg'.flow = Fg.flow /\ Fg'.key = Fg.key /\ Fg'.name = Fg.name /\ Fg'.u = Fg.u
      BY <3>4, <3>5 DEF Place
    <3>7. Working(Fg', "fg")
      <4>1. Placed(Fg')
        BY <1>2, <3>6 DEF Placed, Registering
      <4> QED
        BY <1>2, <3>6, <4>1 DEF Working
    <3>8. Enrolled
      <4>1. kind = "desktop" => Fg.flow = "provision"
        BY <1>2 DEF Working, Flows, Registering, SigningIn, Lingering
      <4>2. kind = "desktop" => client["fg"].acc.l = client["fg"].ref
        BY <1>3, <4>1 DEF SessionInv, ClientInv
      <4>3. u = owner[client["fg"].acc.l]
        BY <1>1, ForegroundAccount DEF u
      <4> QED
        BY <3>3, <3>6, <4>2, <4>3 DEF Enrolled, Of
    <3>9. GoesOn
      <4>1. InHand' /\ ~ Caching /\ ~ Caching'
        BY <1>1, <1>2, <3>6 DEF InHand, Caching
      <4>2. screen' = screen /\ Fg' # Idle
        BY <2>4, <3>6, IdleJob DEF ui
      <4>3. ~ Restored' /\ Fg.flow \notin SigningIn /\ Fg.flow \notin Lingering
        BY <1>2, <3>6, <4>2 DEF Restored, Registering, SigningIn, Lingering
      <4> QED
        BY <1>1, <1>2, <1>3, <3>6, <3>8, <4>1, <4>2, <4>3 DEF GoesOn
    <3>10. Deleting'
      BY <1>2, <3>6 DEF Deleting, Registering
    <3>11. Outer
      BY <1>1, <2>2, <2>4 DEF Smooth
    <3> QED
      BY <1>1, <2>4, <3>5, <3>6, <3>7, <3>9, <3>10, <3>11, ForegroundGoes
  <2> QED
    BY <1>1, <1>7, <2>3, <2>4 DEF RegisterNode, Fg, u, Registered, Taken
<1> QED
  BY <1>6, <1>7 DEF RegisterNode, Fg

\* A log-out that may be trusted speaks for the account of the recorded device.
LEMMA LogoutAccount ==
    ASSUME SessionInv, Answered("fg"), Fg.flow = "logout", Trusted, rec.key \in DOMAIN node,
           kind = "desktop"
    PROVE  /\ node[rec.key].user = UserOf("fg")
           /\ node[rec.key].name = rec.name /\ node[rec.key].ip = rec.ip
<1>1. Of(client["fg"].acc.l, node[rec.key].user)
  BY DEF SessionInv, OneUser
<1> QED
  BY <1>1, ForegroundAccount DEF Of, SessionInv, IdentityInv, Recorded

\* The log-out finds its device among the account's.
LEMMA ForegroundLists ==
    ASSUME SessionInv, ListNodes("fg")
    PROVE  SessionInv'
<1>1. /\ Fg.pc = "list" /\ Fg.flow = "logout" /\ Answered("fg") /\ Settles("fg") /\ faults' = faults
      /\ UNCHANGED <<kind, local, ui, keys, server, world, marks>> /\ faults \in Nat
  BY DEF ListNodes, At, Flow, Fg, SessionInv, TypeInv, MarksOK
<1>2. /\ Fg \in JobType /\ Working(Fg, "fg") /\ kind = "desktop" /\ (out.how = "none" \/ ~ Calm)
      /\ Place(Fg) = "list"
  BY <1>1, ForegroundTask DEF Working, Flows, Place
<1>3. Outer /\ UNCHANGED <<ui, owner, node, rec>>
  BY <1>1, NothingElse DEF server, local
<1>4. NodesOK
  BY DEF SessionInv, TypeInv
<1>5. Trusted /\ rec.key \in DOMAIN node =>
         rec.key \in ThisMachine("fg") /\ \A k \in ThisMachine("fg") : k = rec.key
  BY <1>1, <1>2, <1>4, LogoutAccount DEF ThisMachine, NodesOK
<1>6. CASE ThisMachine("fg") = {} /\ Goes("fg", "revoke")
  <2>1. "revoke" \in Steps /\ Placed([Fg EXCEPT !.pc = "revoke"]) /\ ~ InHand
    BY <1>1, <1>2 DEF Steps, JobType, Placed, Place, InHand, Registering
  <2>2. Trusted => rec.key \notin DOMAIN node'
    BY <1>3, <1>5, <1>6
  <2> QED
    BY <1>1, <1>3, <1>6, <2>1, <2>2, ForegroundNext DEF Registering, SigningIn
<1>7. CASE \E k \in ThisMachine("fg") :
             job' = [job EXCEPT !["fg"].pc = "delete", !["fg"].again = FALSE, !["fg"].key = k]
  <2>1. PICK k \in ThisMachine("fg") :
             job' = [job EXCEPT !["fg"].pc = "delete", !["fg"].again = FALSE, !["fg"].key = k]
    BY <1>7
  <2> DEFINE j == [Fg EXCEPT !.pc = "delete", !.again = FALSE, !.key = k]
  <2>2. job' = [job EXCEPT !["fg"] = j]
    BY <2>1 DEF Fg
  <2>3. k \in Nat
    BY <1>4 DEF ThisMachine, NodesOK
  <2>4. /\ j \in JobType /\ j.pc = "delete" /\ ~ j.again /\ j.key = k
        /\ j.flow = Fg.flow /\ j.name = Fg.name /\ j.u = Fg.u
    <3>1. "delete" \in Steps
      BY DEF Steps
    <3> QED
      BY <1>2, <2>3, <3>1 DEF JobType
  <2> HIDE DEF j
  <2>5. job' \in [Procs -> JobType] /\ Fg' = j /\ Other("fg")
    <3>1. job \in [Procs -> JobType] /\ "fg" \in Procs
      BY DEF SessionInv, TypeInv, JobsOK, Procs
    <3> QED
      BY <2>2, <2>4, <3>1, Moves DEF Fg
  <2>6. /\ Fg'.pc = "delete" /\ ~ Fg'.again /\ Place(Fg') = "delete" /\ Fg'.key = k
        /\ Fg'.flow = "logout"
    BY <1>1, <2>4, <2>5 DEF Place
  <2>7. Working(Fg', "fg")
    BY <1>2, <2>6 DEF Working, Flows, Placed, Forms, Registering, SigningIn, Lingering
  <2>8. GoesOn
    <3>1. screen' = screen /\ Fg' # Idle
      BY <1>1, <2>6, IdleJob DEF ui
    <3>2. Restored
      BY <1>1, <1>2, ForegroundTask DEF Restored
    <3> QED
      BY <1>1, <1>2, <2>6, <3>1, <3>2
         DEF GoesOn, InHand, Caching, Registering, SigningIn, Lingering
  <2>9. (Trusted' => Trusted) => Deleting'
    BY <1>3, <1>5, <2>6 DEF Deleting
  <2> QED
    BY <1>1, <1>3, <2>5, <2>6, <2>7, <2>8, <2>9, ForegroundGoes
<1> QED
  BY <1>6, <1>7 DEF ListNodes

\* The log-out deletes its device.
LEMMA ForegroundDeletes ==
    ASSUME SessionInv, DeleteNode("fg")
    PROVE  SessionInv'
<1> DEFINE k    == Fg.key
           mine == k \in DOMAIN node /\ node[k].user = UserOf("fg")
<1>1. /\ Fg.pc = "delete" /\ Answered("fg") /\ Settles("fg") /\ faults \in Nat
      /\ UNCHANGED <<kind, local, keys, acct, live, owner, world, marks>>
  BY DEF DeleteNode, At, Fg, SessionInv, TypeInv, MarksOK
<1>2. /\ Fg \in JobType /\ Fg.flow \in {"logout", "cmdLogout"} /\ kind \in {"desktop", "router"}
      /\ (kind = "desktop" => Fg.flow = "logout") /\ (kind = "router" => Fg.flow = "cmdLogout")
      /\ Place(Fg) = "delete"
  BY <1>1, ForegroundTask DEF Working, Flows, Placed, Place, SigningIn, Lingering
<1>3. /\ node' = Without(k) \/ node' = node
      /\ Smooth \/ Fault("net")
      /\ \/ mine /\ node' = Without(k) /\ Goes("fg", "revoke") /\ UNCHANGED ui
         \/ ~ mine /\ node' = node /\ kind = "desktop" /\ Goes("fg", "revoke") /\ UNCHANGED ui
         \/ \E e \in {"unreachable", "gone"} : Fails("fg", e)
  BY DEF DeleteNode, Fg
<1>4. faults' \in Nat
  BY <1>1, <1>3 DEF Smooth, Fault
<1>5. Outer /\ UNCHANGED <<owner, rec>>
  <2>1. Shrinks
    BY <1>3, Removal
  <2>2. NodesOK' /\ OwnKept
    BY <1>1, <2>1, ShrinkingNodes, ShrinkingOwn DEF SessionInv, TypeInv, LocalOK, OwnKept, OwnShrinks
  <2>3. ServerOK' /\ Len(owner) \in Nat /\ epoch' = epoch
    BY <1>1 DEF SessionInv, TypeInv, ServerOK, world
  <2> QED
    BY <1>1, <1>4, <2>2, <2>3 DEF Outer, OwnersKept, local
<1>6. CASE \E e \in {"unreachable", "gone"} : Fails("fg", e)
  BY <1>1, <1>5, <1>6, ForegroundFails DEF Calls, AuthCalls
<1>7. CASE /\ Goes("fg", "revoke") /\ UNCHANGED ui
           /\ \/ mine /\ node' = Without(k)
              \/ ~ mine /\ node' = node /\ kind = "desktop"
  <2>1. "revoke" \in Steps /\ Placed([Fg EXCEPT !.pc = "revoke"]) /\ ~ InHand
    BY <1>1, <1>2 DEF Steps, JobType, Placed, Place, InHand, Registering
  <2>2. Fg.flow = "cmdLogout" => k = rec.key
    BY DEF SessionInv, LogoutInv, Deleted
  <2>3. Fg.flow = "logout" /\ Trusted /\ rec.key \in DOMAIN node => k = rec.key
    BY <1>2 DEF SessionInv, LogoutInv, Deleted
  <2>4. Fg.flow = "logout" /\ Trusted /\ rec.key \in DOMAIN node => mine
    BY <1>1, <1>2, <2>3, LogoutAccount
  <2>5. node' = Without(k) => DOMAIN node' = DOMAIN node \ {k}
    BY DEF Without
  <2> HIDE DEF k, mine
  <2>6. Fg.flow = "cmdLogout" => rec.key \notin DOMAIN node'
    BY <1>2, <1>7, <2>2, <2>5
  <2>7. Fg.flow = "logout" /\ Trusted => rec.key \notin DOMAIN node'
    BY <1>7, <2>3, <2>4, <2>5
  <2> QED
    BY <1>1, <1>2, <1>5, <1>7, <2>1, <2>6, <2>7, ForegroundNext DEF Registering, SigningIn
<1> QED
  BY <1>3, <1>6, <1>7

\* One deletion of those that are left.
StageFacts(s) ==
    /\ s \in Seq({"key", "acc", "ref", "rec"}) /\ Head(s) \in {"key", "acc", "ref", "rec"}
    /\ Len(s) = 1 => s = <<"rec">> /\ Head(s) = "rec"
    /\ Len(s) # 1 => /\ Tail(s) \in Stages /\ Head(s) # "rec"
                     /\ Tail(s) # <<"key", "acc", "ref", "rec">> /\ Tail(s) # <<"acc", "ref", "key", "rec">>
                     /\ \A x \in {"key", "acc", "ref"} : Needs(x, s) => x = Head(s) \/ Needs(x, Tail(s))

\* A stage that has another one as its tail.
LEMMA StageFrom ==
    ASSUME NEW s \in Seq({"key", "acc", "ref", "rec"}), NEW t \in Stages, NEW h \in {"key", "acc", "ref"},
           Head(s) = h, Tail(s) = t, Len(s) # 1,
           t # <<"key", "acc", "ref", "rec">>, t # <<"acc", "ref", "key", "rec">>,
           \A x \in {"key", "acc", "ref"} : Needs(x, s) => x = h \/ Needs(x, t)
    PROVE  StageFacts(s)
  BY DEF StageFacts

\* Every stage but the last leads to another one.
LEMMA StageStep ==
    \A s \in Stages : StageFacts(s)
<1>1. StageFacts(<<"key", "acc", "ref", "rec">>)
  <2> DEFINE s == <<"key", "acc", "ref", "rec">>
             t == <<"acc", "ref", "rec">>
  <2>1. s \in Seq({"key", "acc", "ref", "rec"}) /\ Head(s) = "key" /\ Len(s) # 1
    OBVIOUS
  <2>2. Tail(s) = t
    OBVIOUS
  <2>3. t \in Stages /\ t # <<"key", "acc", "ref", "rec">> /\ t # <<"acc", "ref", "key", "rec">>
    BY DEF Stages
  <2>4. \A x \in {"key", "acc", "ref"} : Needs(x, s) => x = "key" \/ Needs(x, t)
    BY DEF Needs
  <2>5. StageFacts(s)
    <3> HIDE DEF s, t
    <3> QED
      BY <2>1, <2>2, <2>3, <2>4, StageFrom
  <2> QED
    BY <2>5
<1>2. StageFacts(<<"acc", "ref", "rec">>)
  <2> DEFINE s == <<"acc", "ref", "rec">>
             t == <<"ref", "rec">>
  <2>1. s \in Seq({"key", "acc", "ref", "rec"}) /\ Head(s) = "acc" /\ Len(s) # 1
    OBVIOUS
  <2>2. Tail(s) = t
    OBVIOUS
  <2>3. t \in Stages /\ t # <<"key", "acc", "ref", "rec">> /\ t # <<"acc", "ref", "key", "rec">>
    BY DEF Stages
  <2>4. \A x \in {"key", "acc", "ref"} : Needs(x, s) => x = "acc" \/ Needs(x, t)
    BY DEF Needs
  <2>5. StageFacts(s)
    <3> HIDE DEF s, t
    <3> QED
      BY <2>1, <2>2, <2>3, <2>4, StageFrom
  <2> QED
    BY <2>5
<1>3. StageFacts(<<"ref", "rec">>)
  <2> DEFINE s == <<"ref", "rec">>
             t == <<"rec">>
  <2>1. s \in Seq({"key", "acc", "ref", "rec"}) /\ Head(s) = "ref" /\ Len(s) # 1
    OBVIOUS
  <2>2. Tail(s) = t
    OBVIOUS
  <2>3. t \in Stages /\ t # <<"key", "acc", "ref", "rec">> /\ t # <<"acc", "ref", "key", "rec">>
    BY DEF Stages
  <2>4. \A x \in {"key", "acc", "ref"} : Needs(x, s) => x = "ref" \/ Needs(x, t)
    BY DEF Needs
  <2>5. StageFacts(s)
    <3> HIDE DEF s, t
    <3> QED
      BY <2>1, <2>2, <2>3, <2>4, StageFrom
  <2> QED
    BY <2>5
<1>4. StageFacts(<<"rec">>)
  <2>1. <<"rec">> \in Seq({"key", "acc", "ref", "rec"}) /\ Head(<<"rec">>) = "rec" /\ Len(<<"rec">>) = 1
    OBVIOUS
  <2> QED
    BY <2>1 DEF StageFacts
<1>5. StageFacts(<<"acc", "ref", "key", "rec">>)
  <2> DEFINE s == <<"acc", "ref", "key", "rec">>
             t == <<"ref", "key", "rec">>
  <2>1. s \in Seq({"key", "acc", "ref", "rec"}) /\ Head(s) = "acc" /\ Len(s) # 1
    OBVIOUS
  <2>2. Tail(s) = t
    OBVIOUS
  <2>3. t \in Stages /\ t # <<"key", "acc", "ref", "rec">> /\ t # <<"acc", "ref", "key", "rec">>
    BY DEF Stages
  <2>4. \A x \in {"key", "acc", "ref"} : Needs(x, s) => x = "acc" \/ Needs(x, t)
    BY DEF Needs
  <2>5. StageFacts(s)
    <3> HIDE DEF s, t
    <3> QED
      BY <2>1, <2>2, <2>3, <2>4, StageFrom
  <2> QED
    BY <2>5
<1>6. StageFacts(<<"ref", "key", "rec">>)
  <2> DEFINE s == <<"ref", "key", "rec">>
             t == <<"key", "rec">>
  <2>1. s \in Seq({"key", "acc", "ref", "rec"}) /\ Head(s) = "ref" /\ Len(s) # 1
    OBVIOUS
  <2>2. Tail(s) = t
    OBVIOUS
  <2>3. t \in Stages /\ t # <<"key", "acc", "ref", "rec">> /\ t # <<"acc", "ref", "key", "rec">>
    BY DEF Stages
  <2>4. \A x \in {"key", "acc", "ref"} : Needs(x, s) => x = "ref" \/ Needs(x, t)
    BY DEF Needs
  <2>5. StageFacts(s)
    <3> HIDE DEF s, t
    <3> QED
      BY <2>1, <2>2, <2>3, <2>4, StageFrom
  <2> QED
    BY <2>5
<1>7. StageFacts(<<"key", "rec">>)
  <2> DEFINE s == <<"key", "rec">>
             t == <<"rec">>
  <2>1. s \in Seq({"key", "acc", "ref", "rec"}) /\ Head(s) = "key" /\ Len(s) # 1
    OBVIOUS
  <2>2. Tail(s) = t
    OBVIOUS
  <2>3. t \in Stages /\ t # <<"key", "acc", "ref", "rec">> /\ t # <<"acc", "ref", "key", "rec">>
    BY DEF Stages
  <2>4. \A x \in {"key", "acc", "ref"} : Needs(x, s) => x = "key" \/ Needs(x, t)
    BY DEF Needs
  <2>5. StageFacts(s)
    <3> HIDE DEF s, t
    <3> QED
      BY <2>1, <2>2, <2>3, <2>4, StageFrom
  <2> QED
    BY <2>5
<1> QED
  BY <1>1, <1>2, <1>3, <1>4, <1>5, <1>6, <1>7 DEF Stages

\* The refresh token is revoked, if the server can be reached.
LEMMA ForegroundRevokes ==
    ASSUME SessionInv, Revoke("fg")
    PROVE  SessionInv'
<1>1. /\ Fg.pc = "revoke" /\ Settles("fg") /\ faults \in Nat /\ UNCHANGED ui
      /\ job' = [job EXCEPT !["fg"].pc = "wipe", !["fg"].todo = WipeOrder]
      /\ UNCHANGED <<kind, local, keys, acct, node, owner, world, marks>>
  BY DEF Revoke, At, Fg, SessionInv, TypeInv, MarksOK
<1>2. faults' \in Nat /\ live' \subseteq live
  BY <1>1 DEF Revoke, Smooth, Fault
<1>3. Outer /\ UNCHANGED <<owner, rec, node>>
  <2>1. ServerOK' /\ NodesOK' /\ Len(owner) \in Nat /\ epoch' = epoch
    BY <1>1, <1>2 DEF SessionInv, TypeInv, ServerOK, NodesOK, world
  <2> QED
    BY <1>1, <1>2, <2>1 DEF Outer, OwnersKept, OwnKept, local
<1>4. /\ Fg \in JobType /\ Working(Fg, "fg") /\ Fg.flow \in {"logout", "cmdLogout"} \cup Lingering
      /\ out.how = "none" \/ ~ Calm
  BY <1>1, ForegroundTask DEF Working, Placed, Place, SigningIn, Lingering
<1> DEFINE w == WipeOrder
           j == [Fg EXCEPT !.pc = "wipe", !.todo = w]
<1>5. w \in Stages /\ w \in Seq({"key", "acc", "ref", "rec"})
  <2>1. w \in Stages
    BY DEF WipeOrder, Stages
  <2> HIDE DEF w
  <2> QED
    BY <2>1, StageStep DEF StageFacts
<1>6. job' = [job EXCEPT !["fg"] = j]
  BY <1>1 DEF Fg
<1> HIDE DEF w
<1>7. /\ j \in JobType /\ j.pc = "wipe" /\ j.todo = w
      /\ j.flow = Fg.flow /\ j.key = Fg.key /\ j.name = Fg.name /\ j.u = Fg.u
  <2>1. "wipe" \in Steps
    BY DEF Steps
  <2> QED
    BY <1>4, <1>5, <2>1 DEF JobType
<1>8. j.again => Fg.again
  BY <1>4 DEF JobType
<1> HIDE DEF j
<1>9. job' \in [Procs -> JobType] /\ Fg' = j /\ Other("fg")
  <2>1. job \in [Procs -> JobType] /\ "fg" \in Procs
    BY DEF SessionInv, TypeInv, JobsOK, Procs
  <2> QED
    BY <1>6, <1>7, <2>1, Moves DEF Fg
<1>10. /\ Fg'.pc = "wipe" /\ Place(Fg') = "wipe" /\ Fg'.todo = WipeOrder /\ (Fg'.again => Fg.again)
       /\ Fg'.flow = Fg.flow /\ Fg'.key = Fg.key /\ Fg'.name = Fg.name /\ Fg'.u = Fg.u
  BY <1>7, <1>8, <1>9 DEF Place, w
<1>11. Working(Fg', "fg")
  <2>1. Placed(Fg')
    BY <1>4, <1>10 DEF Placed, Lingering
  <2> QED
    BY <1>4, <1>5, <1>10, <2>1 DEF Working, w
<1>12. GoesOn
  <2>1. screen' = screen /\ Fg' # Idle
    BY <1>1, <1>10, IdleJob DEF ui
  <2>2. ~ Restored'
    BY <1>4, <1>10, <2>1 DEF Restored, SigningIn, Lingering
  <2>3. /\ ~ InHand /\ ~ InHand' /\ ~ Caching /\ ~ Caching'
        /\ Fg.flow \notin Registering /\ Fg.flow \notin SigningIn /\ Fg.flow # "cancel" /\ Fg.flow # "provision"
    BY <1>4, <1>10 DEF InHand, Caching, Registering, SigningIn, Lingering
  <2> QED
    BY <1>4, <1>10, <2>1, <2>2, <2>3 DEF GoesOn
<1>13. (Trusted' => Trusted) => Deleting'
  BY <1>1, <1>3, <1>10 DEF Deleting, SessionInv, LogoutInv, Deleted
<1> QED
  BY <1>1, <1>3, <1>9, <1>10, <1>11, <1>12, <1>13, ForegroundGoes

\* A sign-in is answered.
LEMMA ForegroundSignsIn ==
    ASSUME SessionInv, Login("fg")
    PROVE  SessionInv'
<1> DEFINE l == Len(owner) + 1
<1>1. /\ Fg.pc = "login" /\ faults \in Nat /\ told \in Nat
      /\ UNCHANGED <<kind, local, keys, acct, node, world, cracked, straggler, out>>
  BY DEF Login, At, Fg, SessionInv, TypeInv, MarksOK
<1>2. /\ Fg.flow \in Forms /\ Fg \in JobType /\ Fg.u \in Users /\ Working(Fg, "fg")
      /\ kind \in {"desktop", "router"} /\ (out.how = "none" \/ ~ Calm) /\ Place(Fg) = "login"
  BY <1>1, ForegroundTask DEF Working, Placed, Place, Forms, SigningIn, Lingering
<1>3. /\ owner \in Seq(Users) /\ Len(owner) \in Nat /\ Len(owner) < Bound[kind].logins
      /\ Bound[kind].logins \in Nat /\ epoch \in Nat
  BY <1>2, SessionAssumption DEF SessionInv, TypeInv, ServerOK, Working
<1>4. CASE Fails("fg", "auth") /\ Smooth /\ Settles("fg") /\ UNCHANGED <<live, owner, unsaid, stranger>>
  <2>1. UNCHANGED <<kind, local, keys, server, world, marks>> /\ faults' \in Nat
    BY <1>1, <1>4 DEF server, marks, Smooth
  <2> QED
    BY <1>1, <1>4, <2>1, NothingElse, ForegroundFails DEF Calls
<1>5. ASSUME owner' = Append(owner, Fg.u), live' = live \cup {l}
      PROVE  /\ ServerOK' /\ NodesOK' /\ OwnersKept
             /\ Len(owner') = l /\ l \in Nat /\ l # 0 /\ owner'[l] = Fg.u
  <2>1. owner' \in Seq(Users) /\ Len(owner') = l /\ l \in Nat /\ l # 0 /\ owner'[l] = Fg.u
    BY <1>2, <1>3, <1>5
  <2>2. OwnersKept
    BY <1>3, <1>5 DEF OwnersKept
  <2>3. live \subseteq 1 .. Len(owner)
    BY DEF SessionInv, TypeInv, ServerOK
  <2>4. live' \subseteq 1 .. Len(owner') /\ Len(owner') <= Bound[kind].logins
    <3>1. live' = live \cup {l}
      BY <1>5
    <3>2. l <= Bound[kind].logins
      BY <1>3
    <3>3. 1 .. Len(owner) \subseteq 1 .. l /\ l \in 1 .. l
      BY <1>3
    <3> HIDE DEF l
    <3> QED
      BY <2>1, <2>3, <3>1, <3>2, <3>3
  <2>5. ServerOK' /\ NodesOK'
    BY <1>1, <2>1, <2>4 DEF SessionInv, TypeInv, ServerOK, NodesOK, world
  <2> QED
    BY <2>1, <2>2, <2>5
<1>6. CASE /\ owner' = Append(owner, Fg.u) /\ live' = live \cup {l}
           /\ Fault("net") /\ Fails("fg", "unreachable") /\ Settles("fg") /\ UNCHANGED <<unsaid, stranger>>
  <2>1. faults' \in Nat /\ UNCHANGED marks /\ OwnKept /\ epoch' = epoch
    BY <1>1, <1>6 DEF Fault, marks, OwnKept, world
  <2>2. Outer
    BY <1>1, <1>5, <1>6, <2>1 DEF Outer
  <2> QED
    BY <1>1, <1>6, <2>2, ForegroundFails DEF Calls
<1>7. CASE /\ owner' = Append(owner, Fg.u) /\ live' = live \cup {l}
           /\ Smooth /\ Holds("fg", [acc |-> [l |-> l, e |-> epoch], ref |-> l])
           /\ Goes("fg", AfterLogin("fg")) /\ UNCHANGED ui
           /\ stranger' = (stranger \/ Foreign("fg")) /\ told' = told
           /\ unsaid' = unsaid + (IF Foreign("fg") THEN 1 ELSE 0)
  <2>1. /\ ServerOK' /\ NodesOK' /\ OwnersKept
        /\ Len(owner') = l /\ l \in Nat /\ l # 0 /\ owner'[l] = Fg.u /\ Len(owner) <= Len(owner')
    BY <1>3, <1>5, <1>7
  <2>2. /\ UNCHANGED <<kind, ring, rec, screen, loops, keys, node, epoch, faults, cracked, straggler, out>>
        /\ rec.key \in 0 .. keys /\ 0 \notin DOMAIN node
    BY <1>1, <1>7 DEF local, ui, world, Smooth, SessionInv, TypeInv, LocalOK, NodesOK
  <2> DEFINE t == [acc |-> [l |-> l, e |-> epoch], ref |-> l]
  <2>3. client' = [client EXCEPT !["fg"] = t]
    BY <1>7 DEF Holds, Cl
  <2>4. t \in TokenPair' /\ t.ref = l /\ t.acc.l = l
    <3> HIDE DEF l
    <3> QED
      BY <1>3, <2>1 DEF TokenPair, Held
  <2> HIDE DEF t
  <2>5. client \in [Procs -> TokenPair'] /\ ring \in [key : 0 .. keys, acc : Held', ref : 0 .. Len(owner')]
    BY <1>3, <2>1, TokensKept DEF SessionInv, TypeInv, LocalOK
  <2>6. /\ client' \in [Procs -> TokenPair'] /\ client'["fg"].ref = l /\ client'["fg"].acc.l = l
        /\ client'["bg"] = client["bg"]
    BY <2>3, <2>4, <2>5 DEF Procs
  <2> HIDE DEF l
  <2>7. /\ stranger' \in BOOLEAN /\ (stranger => stranger') /\ (Foreign("fg") => stranger')
        /\ stranger \in BOOLEAN
    <3>1. stranger \in BOOLEAN
      BY DEF SessionInv, TypeInv, MarksOK
    <3>2. stranger' \in BOOLEAN
      BY <1>7, Zenon
    <3> QED
      BY <1>7, <3>1, <3>2
  <2>8. /\ told' \in Nat /\ unsaid' \in Nat
        /\ Credit \in Nat /\ Credit' \in Nat /\ Credit' >= Credit /\ (Foreign("fg") => Credit' = Credit + 1)
    <3>1. unsaid \in Nat /\ told \in Nat
      BY DEF SessionInv, TypeInv, MarksOK
    <3> QED
      BY <1>7, <3>1 DEF Credit
  <2> DEFINE pc == IF Fg.flow = "provision" THEN "key" ELSE "setAcc"
  <2>9. pc \in Steps /\ Goes("fg", pc) /\ pc \in {"key", "setAcc"}
    BY <1>7 DEF AfterLogin, Flow, Fg, Steps
  <2>10. /\ job' \in [Procs -> JobType] /\ Other("fg")
         /\ Fg'.pc = pc /\ ~ Fg'.again /\ SameTask(Fg, Fg')
    <3>1. job \in [Procs -> JobType] /\ "fg" \in Procs
      BY DEF SessionInv, TypeInv, JobsOK, Procs
    <3> HIDE DEF pc
    <3> QED
      BY <2>9, <3>1, GoesStep DEF Fg
  <2>11. /\ Bg' = Bg /\ Fg'.flow = Fg.flow /\ Fg'.u = Fg.u /\ Fg'.name = Fg.name /\ Place(Fg') = pc
         /\ Fg'.pc \in {"key", "setAcc"} /\ Fg' # Idle
         /\ Fg'.pc = IF Fg.flow = "provision" THEN "key" ELSE "setAcc"
    BY <2>10, IdleJob DEF Other, Bg, Procs, SameTask, Place
  <2> HIDE DEF pc
  <2>12. ~ InHand /\ ~ InHand' /\ ~ Caching /\ ~ Caching'
    BY <1>1, <1>2, <2>10, <2>11 DEF InHand, Caching
  <2>13. TypeInv'
    <3>1. LocalOK'
      BY <2>2, <2>5, <2>6 DEF SessionInv, TypeInv, LocalOK
    <3>2. MarksOK'
      BY <2>2, <2>7, <2>8 DEF SessionInv, TypeInv, MarksOK
    <3>3. Working(Fg, "fg")'
      <4>1. Placed(Fg)'
        BY <1>2, <2>10, <2>11 DEF Placed, Forms, SigningIn
      <4>2. Place(Fg') \notin {"register", "login"}
        BY <2>10, <2>11
      <4> QED
        BY <1>2, <2>2, <2>11, <4>1, <4>2 DEF Working, Flows
    <3>4. JobsOK'
      BY <1>2, <1>3, <2>1, <2>2, <2>10, <2>11, <3>3, ForegroundJobs DEF SessionInv, TypeInv
    <3> QED
      BY <2>1, <3>1, <3>2, <3>4 DEF TypeInv
  <2>14. ScreenOK'
    BY <2>2, <2>11 DEF SessionInv, ScreenOK
  <2>15. IdentityInv'
    <3>1. Recorded' /\ Matched'
      BY <2>2, <2>12 DEF SessionInv, IdentityInv, Recorded, Matched
    <3>2. Fg'.flow # "cmdRegister"
      BY <1>2, <2>11 DEF Forms, SigningIn
    <3>3. Bare'
      BY <2>2, <2>12, <3>2 DEF SessionInv, IdentityInv, Bare
    <3> QED
      BY <3>1, <3>3 DEF IdentityInv
  <2>16. CreditStep /\ (Foreign("fg") => Credited')
    <3>1. Known' = Known /\ Left' = Left
      BY <2>2, <2>12 DEF Known, Left
    <3> QED
      BY <1>1, <2>8, <3>1, CreditStays, CreditPaid DEF SessionInv, TypeInv
  <2>17. CreditInv' /\ (Trusted' => Trusted /\ ~ Foreign("fg"))
    BY <2>2, <2>7, <2>11, <2>12, <2>16 DEF SessionInv, CreditInv, CreditStep, Trusted
  <2>18. OneUser'
    <3> SUFFICES ASSUME kind = "desktop", Trusted', rec.key \in DOMAIN node
                 PROVE  LET u == node[rec.key].user IN
                        /\ Fg.u = u
                        /\ \A p \in Procs : job'[p].pc = "refresh" => (Of(job[p].sent, u))'
                        /\ (Of(ring.acc.l, u))' /\ (Of(ring.ref, u))'
      BY <2>1, <2>2, <2>6, <2>12 DEF OneUser, Of
    <3> DEFINE u == node[rec.key].user
    <3>1. Fg.flow # "provision"
      <4> SUFFICES ASSUME Fg.flow = "provision" PROVE FALSE
        OBVIOUS
      <4>1. screen = "wizard"
        BY DEF SessionInv, ScreenOK
      <4>2. Credited'
        BY <2>12, <2>16, <4>1 DEF SessionInv, CreditInv, CreditStep
      <4>3. ~ cracked
        BY <2>2, <4>2 DEF Trusted
      <4> QED
        BY <2>2, <2>12, <4>1, <4>3 DEF SessionInv, IdentityInv, Bare, NoRecord
    <3>2. Fg.u = u
      <4>1. Fg.flow \in SigningIn
        BY <1>2, <3>1 DEF Working, Flows, Forms, SigningIn, Lingering
      <4> QED
        BY <2>17, <4>1 DEF Foreign, Flow, Fg, SigningIn
    <3>3. Of(ring.acc.l, u) /\ Of(ring.ref, u) /\ (Bg.pc = "refresh" => Of(Bg.sent, u))
      BY <2>12, <2>17 DEF SessionInv, OneUser, Bg, Procs
    <3> HIDE DEF u
    <3>4. ASSUME NEW k \in 0 .. Len(owner), Of(k, u) PROVE k # 0 => owner'[k] = u
      BY <1>3, <2>1, <3>4 DEF OwnersKept, Of
    <3>5. /\ ring.acc.l \in 0 .. Len(owner) /\ ring.ref \in 0 .. Len(owner)
          /\ Bg.pc = "refresh" => Bg.sent \in 0 .. Len(owner)
      <4>1. Bg.pc = "refresh" => Bg.sent \in 1 .. Len(owner)
        BY IdleJob DEF SessionInv, TypeInv, JobsOK, Working, Bg, Procs
      <4> QED
        BY <4>1 DEF SessionInv, TypeInv, LocalOK, Held
    <3>6. node' = node /\ rec' = rec /\ u' = u
      BY <2>2 DEF u
    <3>7. \A p \in Procs : job'[p].pc = "refresh" => job'[p] = Bg
      BY <2>11 DEF Procs, Fg, Bg
    <3> QED
      BY <2>2, <3>2, <3>3, <3>4, <3>5, <3>6, <3>7 DEF Of, u
  <2>19. ClientInv'
    <3>1. Fg'.flow \notin {"load", "logout"} /\ Fg'.pc # "login" /\ Fg'.pc # "refresh"
      BY <1>2, <2>11 DEF Forms, SigningIn
    <3> QED
      BY <2>1, <2>6, <2>10, <2>11, <3>1 DEF ClientInv
  <2>20. LogoutInv'
    <3>1. Wiping'
      BY <2>11 DEF Wiping
    <3>2. LoggedOut'
      BY <1>2, <2>2, <2>11 DEF SessionInv, LogoutInv, LoggedOut, Calm
    <3>3. Fg'.flow \notin {"logout", "cmdLogout"}
      BY <1>2, <2>11 DEF Forms, SigningIn
    <3>4. Deleted'
      BY <2>2, <2>7, <3>3 DEF SessionInv, LogoutInv, Deleted
    <3> QED
      BY <3>1, <3>2, <3>4 DEF LogoutInv
  <2> QED
    BY <2>13, <2>14, <2>15, <2>17, <2>18, <2>19, <2>20 DEF SessionInv
<1> QED
  BY <1>4, <1>6, <1>7 DEF Login, Fg

\* A task that registers runs in the wizard, or as a command; nothing has been logged out since.
LEMMA RegisteringTask ==
    ASSUME SessionInv, Fg.flow \in Registering
    PROVE  /\ Fg \in JobType /\ Working(Fg, "fg") /\ Fg.name \in Names /\ out.how = "none" /\ Fg # Idle
           /\ kind \in {"desktop", "router"}
           /\ kind = "desktop" => Fg.flow = "provision" /\ screen = "wizard" /\ Bg = Idle
           /\ kind = "router" => Fg.flow = "cmdRegister"
<1>1. Fg.pc # "idle"
  <2>1. Fg = Idle \/ Working(Fg, "fg")
    BY DEF SessionInv, TypeInv, JobsOK, Fg, Procs
  <2>2. Fg # Idle
    BY IdleJob DEF Registering
  <2> QED
    BY <2>1, <2>2 DEF Working, Placed, Place, Registering, SigningIn, Lingering
<1>2. /\ Fg \in JobType /\ Working(Fg, "fg") /\ kind \in {"desktop", "router"} /\ Fg # Idle
  BY <1>1, ForegroundTask
<1>3. out.how = "none"
  BY DEF SessionInv, LogoutInv, LoggedOut
<1>4. /\ kind = "desktop" => Fg.flow = "provision"
      /\ kind = "router" => Fg.flow = "cmdRegister"
  BY <1>2 DEF Working, Flows, Registering, SigningIn, Lingering
<1>5. kind = "desktop" => screen = "wizard" /\ Bg = Idle
  BY <1>4 DEF SessionInv, ScreenOK
<1> QED
  BY <1>2, <1>3, <1>4, <1>5 DEF Working

\* A key pair is generated and stored.
LEMMA ForegroundKey ==
    ASSUME SessionInv, StoreKey("fg")
    PROVE  SessionInv'
<1> DEFINE n == keys + 1
<1>1. /\ Fg.pc = "key" /\ faults \in Nat /\ told \in Nat /\ keys' = n /\ Settles("fg")
      /\ UNCHANGED <<kind, rec, server, world, unsaid, stranger, straggler, out>>
      /\ Place(Fg) = "key"
  BY DEF StoreKey, At, Fg, SessionInv, TypeInv, MarksOK, Place
<1>2. /\ Fg.flow \in Registering
  BY <1>1, ForegroundTask DEF Working, Placed, Registering, SigningIn, Lingering
<1>3. /\ keys \in Nat /\ n \in 1 .. Bound[kind].keys /\ n > keys /\ Bound[kind].keys \in Nat
      /\ 0 .. keys \subseteq 0 .. n /\ n \notin DOMAIN node /\ n \in Nat \ {0}
      /\ rec.key \in 0 .. keys /\ rec.key # n /\ 0 \notin DOMAIN node
  <2>1. keys \in 0 .. Bound[kind].keys /\ kind \in Kinds /\ rec.key \in 0 .. keys
    BY DEF SessionInv, TypeInv, LocalOK, ServerOK
  <2>2. Bound[kind].keys \in Nat /\ keys < Bound[kind].keys
    BY <1>1, <1>2, <2>1, RegisteringTask, SessionAssumption DEF Working
  <2>3. n \notin DOMAIN node /\ 0 \notin DOMAIN node
    BY <2>1, <2>2 DEF SessionInv, TypeInv, NodesOK
  <2> QED
    BY <2>1, <2>2, <2>3
<1>4. /\ UNCHANGED <<acct, node, live, owner, epoch, online, events>>
      /\ ring \in [key : 0 .. keys, acc : Held, ref : 0 .. Len(owner)]
  BY <1>1 DEF server, world, SessionInv, TypeInv, LocalOK
<1>5. rec = NoRecord \/ (kind = "desktop" /\ cracked)
  <2>1. ~ Caching
    BY <1>1 DEF Caching
  <2> QED
    BY <1>1, <1>2, <2>1, RegisteringTask DEF SessionInv, IdentityInv, Bare
<1>6. job \in [Procs -> JobType] /\ "fg" \in Procs /\ "node" \in Steps
  BY DEF SessionInv, TypeInv, JobsOK, Procs, Steps
<1> HIDE DEF n
\* What both outcomes have in common.
<1>7. ASSUME ring' \in [key : 0 .. n, acc : Held, ref : 0 .. Len(owner)], UNCHANGED ui,
             ring'.acc = ring.acc, ring'.ref = ring.ref,
             faults' \in Nat, cracked' \in BOOLEAN, cracked => cracked',
             job' \in [Procs -> JobType], Bg' = Bg,
             Fg' = Idle \/ (Working(Fg, "fg")' /\ Fg'.flow = Fg.flow /\ Fg'.pc = "node" /\ (Fg'.again => Fg.again)),
             Fg' = Idle => ring'.key = ring.key,
             Fg' # Idle => ring'.key = n /\ Fg'.key = n
      PROVE  SessionInv'
  <2>1. /\ UNCHANGED <<screen, loops>> /\ told' \in Nat /\ told' >= told
        /\ client' \in [Procs -> TokenPair] /\ (kind = "desktop" => client' = client)
    BY <1>1, <1>7, ForegroundSettles DEF ui
  <2>2. TypeInv'
    <3>1. ServerOK'
      BY <1>1, <1>4 DEF SessionInv, TypeInv, ServerOK
    <3>2. NodesOK'
      BY <1>1, <1>3, <1>4, ShrinkingNodes DEF SessionInv, TypeInv, Shrinks
    <3>3. LocalOK'
      <4>1. rec.key \in 0 .. n /\ rec \in [key : 0 .. n, name : Names \cup {"none"}, ip : Nat]
        BY <1>3 DEF SessionInv, TypeInv, LocalOK
      <4> QED
        BY <1>1, <1>3, <1>4, <1>7, <2>1, <4>1 DEF SessionInv, TypeInv, LocalOK, TokenPair, Held
    <3>4. MarksOK'
      <4>1. out \in [how : Tasks, key : 0 .. n]
        BY <1>3 DEF SessionInv, TypeInv, MarksOK
      <4> QED
        BY <1>1, <1>7, <2>1, <4>1 DEF SessionInv, TypeInv, MarksOK
    <3>5. JobsOK'
      BY <1>1, <1>2, <1>4, <1>7, <3>1, RegisteringTask, ForegroundJobs DEF SessionInv, TypeInv, ServerOK
    <3> QED
      BY <3>1, <3>2, <3>3, <3>4, <3>5 DEF TypeInv
  <2>3. /\ Fg' = Idle => Fg'.flow = "none" /\ Fg'.pc = "idle" /\ ~ Fg'.again
        /\ ~ Caching /\ ~ Caching' /\ ~ InHand /\ (InHand' => Fg' # Idle)
        /\ Fg' # Idle => Place(Fg') = "node"
    BY <1>1, <1>7, IdleJob DEF Caching, InHand, Registering, Place
  <2>4. ScreenOK'
    BY <1>1, <1>7, <2>1, <2>3 DEF SessionInv, ScreenOK, SigningIn, Lingering
  <2>5. IdentityInv'
    <3>1. Recorded'
      BY <1>1, <1>3, <1>4, <1>7, <2>3 DEF SessionInv, IdentityInv, Recorded
    <3>2. Bare'
      BY <1>1, <1>2, <1>5, <1>7, <2>1, <2>3, RegisteringTask DEF SessionInv, IdentityInv, Bare
    <3>3. Matched'
      BY <1>1, <1>5, <1>7, <1>2, RegisteringTask DEF SessionInv, IdentityInv, Matched
    <3> QED
      BY <3>1, <3>2, <3>3 DEF IdentityInv
  <2>6. CreditStep
    <3>1. Known' \subseteq Known /\ Left' \subseteq Left
      <4>1. \A k \in DOMAIN node : k \in 1 .. n => k \in 1 .. keys
        BY <1>3 DEF n
      <4> QED
        BY <1>1, <1>4, <2>3, <4>1 DEF Known, Left
    <3> QED
      BY <1>1, <2>1, <3>1, CreditKept, CreditStays DEF SessionInv, TypeInv
  <2>7. CreditInv' /\ (Trusted' => Trusted)
    <3>1. Fg'.flow \notin Lingering
      BY <1>2, <1>7, <2>3 DEF Registering, Lingering
    <3> QED
      BY <1>1, <1>7, <2>1, <2>3, <2>6, <3>1 DEF SessionInv, CreditInv, CreditStep, Trusted
  <2>8. OneUser'
    <3>1. \A p \in Procs : job'[p].pc = "refresh" => p = "bg" /\ job'[p] = Bg
      BY <1>7, <2>3 DEF Procs, Fg, Bg
    <3>2. InHand' => Fg'.key \notin DOMAIN node'
      BY <1>3, <1>4, <1>7, <2>3
    <3> QED
      BY <1>1, <1>4, <1>7, <2>1, <2>3, <2>7, <3>1, <3>2 DEF SessionInv, OneUser, Of, Bg, Procs
  <2>9. ClientInv'
    <3> SUFFICES ASSUME kind = "desktop" PROVE ClientInv'
      BY <1>1 DEF ClientInv
    <3>1. client' = client /\ epoch' = epoch /\ screen' = "wizard" /\ Fg.flow = "provision" /\ screen = "wizard"
      BY <1>2, <1>4, <2>1, RegisteringTask
    <3>2. /\ Fg' # Idle => client["fg"].ref # 0 /\ client["fg"].acc.l = client["fg"].ref
          /\ Fg'.again => Accepted("fg")
      BY <1>1, <1>7, <2>3, <3>1 DEF SessionInv, ClientInv
    <3>3. Fg'.again => Accepted("fg")'
      BY <1>1, <3>1, <3>2 DEF Accepted, Mine, Cl
    <3> QED
      BY <1>7, <2>3, <3>1, <3>2, <3>3 DEF ClientInv, SigningIn
  <2>10. LogoutInv'
    <3>1. out.how = "none" /\ out' = out
      BY <1>1, <1>2, RegisteringTask
    <3>2. Fg'.pc # "wipe" /\ Fg'.flow \notin {"logout", "cmdLogout"}
      BY <1>2, <1>7, <2>3 DEF Registering
    <3> QED
      BY <3>1, <3>2 DEF LogoutInv, Wiping, LoggedOut, Deleted
  <2> QED
    BY <2>2, <2>4, <2>5, <2>7, <2>8, <2>9, <2>10 DEF SessionInv
<1>8. CASE /\ Smooth /\ ring' = [ring EXCEPT !.key = n] /\ UNCHANGED <<ui, cracked>>
           /\ job' = [job EXCEPT !["fg"].pc = "node", !["fg"].key = n]
  <2> DEFINE j == [Fg EXCEPT !.pc = "node", !.key = n]
  <2>1. job' = [job EXCEPT !["fg"] = j]
    BY <1>8 DEF Fg
  <2>2. /\ j \in JobType /\ j.pc = "node" /\ j.key = n
        /\ j.flow = Fg.flow /\ j.name = Fg.name /\ j.u = Fg.u
    BY <1>2, <1>3, <1>6, RegisteringTask DEF JobType
  <2>3. j.again => Fg.again
    BY <1>2, RegisteringTask DEF JobType
  <2> HIDE DEF j
  <2>4. job' \in [Procs -> JobType] /\ Fg' = j /\ Other("fg")
    BY <1>6, <2>1, <2>2, Moves DEF Fg
  <2>5. Working(Fg, "fg")'
    <3>1. Placed(Fg)' /\ Place(Fg') = "node"
      BY <1>2, <2>2, <2>4 DEF Placed, Place, Registering
    <3> QED
      BY <1>1, <1>2, <2>2, <2>4, <3>1, RegisteringTask DEF Working, Flows
  <2>6. faults' \in Nat /\ cracked' \in BOOLEAN /\ (cracked => cracked')
    BY <1>1, <1>8 DEF Smooth, SessionInv, TypeInv, MarksOK
  <2>7. /\ ring' \in [key : 0 .. n, acc : Held, ref : 0 .. Len(owner)]
        /\ ring'.acc = ring.acc /\ ring'.ref = ring.ref /\ ring'.key = n
    BY <1>3, <1>4, <1>8
  <2>8. Bg' = Bg /\ Fg' # Idle
    BY <2>2, <2>4, IdleJob DEF Other, Bg, Procs
  <2> QED
    BY <1>7, <1>8, <2>2, <2>3, <2>4, <2>5, <2>6, <2>7, <2>8
<1>9. CASE Fault("cache") /\ Fails("fg", "local") /\ cracked' = TRUE /\ UNCHANGED ring
  <2>1. Ends("fg") /\ UNCHANGED ui
    BY <1>2, <1>9 DEF Fails, FormAgain, LoadFails, LogoutFails, CmdLogoutFails, BackgroundFails, Flow, Fg, Registering
  <2>2. job' \in [Procs -> JobType] /\ Fg' = Idle /\ Bg' = Bg
    BY <1>6, <2>1, EndsStep DEF Other, Fg, Bg, Procs
  <2>3. faults' \in Nat
    BY <1>1, <1>9 DEF Fault
  <2>4. cracked' \in BOOLEAN /\ cracked'
    BY <1>9, Zenon
  <2>5. ring' = ring /\ ring \in [key : 0 .. n, acc : Held, ref : 0 .. Len(owner)]
    BY <1>3, <1>4, <1>9
  <2> QED
    BY <1>7, <2>1, <2>2, <2>3, <2>4, <2>5
<1> QED
  BY <1>8, <1>9 DEF StoreKey, n

\* The record is saved.
LEMMA ForegroundRecord ==
    ASSUME SessionInv, SaveRecord("fg")
    PROVE  SessionInv'
<1>1. /\ Fg.pc = "save" /\ Place(Fg) = "save" /\ faults \in Nat /\ told \in Nat /\ Settles("fg")
      /\ UNCHANGED <<kind, ring, keys, server, world, marks>>
  BY DEF SaveRecord, At, Fg, SessionInv, TypeInv, MarksOK, Place
<1>2. Fg.flow \in Registering
  BY <1>1, ForegroundTask DEF Working, Placed, Registering, SigningIn, Lingering
<1>3. CASE Fault("save") /\ Fails("fg", "local") /\ UNCHANGED rec
  <2>1. UNCHANGED <<kind, local, keys, server, world, marks>> /\ faults' \in Nat
    BY <1>1, <1>3 DEF local, Fault
  <2> QED
    BY <1>1, <1>3, <2>1, NothingElse, ForegroundFails
<1>4. CASE /\ Smooth /\ rec' = [key |-> Fg.key, name |-> Fg.name, ip |-> Fg.ip]
           /\ Goes("fg", "setAcc") /\ UNCHANGED ui
  <2>1. /\ UNCHANGED <<screen, loops, acct, node, live, owner, epoch, online, events, faults,
                       unsaid, cracked, stranger, straggler, out>>
    BY <1>1, <1>4 DEF ui, server, world, marks, Smooth
  <2>2. /\ job' \in [Procs -> JobType] /\ Bg' = Bg /\ Fg'.pc = "setAcc" /\ ~ Fg'.again
        /\ SameTask(Fg, Fg')
    <3>1. job \in [Procs -> JobType] /\ "fg" \in Procs /\ "setAcc" \in Steps
      BY DEF SessionInv, TypeInv, JobsOK, Procs, Steps
    <3> QED
      BY <1>4, <3>1, GoesStep DEF Other, Fg, Bg, Procs
  <2>3. /\ Fg'.flow = Fg.flow /\ Fg'.u = Fg.u /\ Fg'.name = Fg.name /\ Place(Fg') = "setAcc" /\ Fg' # Idle
    BY <2>2, IdleJob DEF SameTask, Place
  <2>4. /\ InHand /\ ~ InHand' /\ ~ Caching /\ (Fg.flow = "provision" => Caching')
    BY <1>1, <1>2, <2>2, <2>3 DEF InHand, Caching
  <2>5. /\ Fg.key = ring.key /\ Fg.key = keys /\ keys \in Nat \ {0}
        /\ Fg.key \in DOMAIN node => node[Fg.key].name = Fg.name /\ node[Fg.key].ip = Fg.ip
    BY <1>1, <2>4 DEF SessionInv, IdentityInv, Recorded, TypeInv, LocalOK
  <2>6. /\ told' \in Nat /\ told' >= told
        /\ client' \in [Procs -> TokenPair] /\ (kind = "desktop" => client' = client)
    BY <1>1, ForegroundSettles
  <2>7. /\ rec' \in [key : 0 .. keys, name : Names \cup {"none"}, ip : Nat]
        /\ rec'.key = Fg.key /\ rec'.name = Fg.name /\ rec'.ip = Fg.ip /\ rec' # NoRecord
    <3>1. Fg.name \in Names /\ Fg.ip \in Nat
      BY <1>2, RegisteringTask DEF JobType
    <3> QED
      BY <1>4, <2>5, <3>1 DEF NoRecord
  <2>8. TypeInv'
    <3>1. ServerOK' /\ NodesOK'
      BY <1>1, <2>1 DEF SessionInv, TypeInv, ServerOK, NodesOK
    <3>2. LocalOK'
      BY <1>1, <2>1, <2>5, <2>6, <2>7 DEF SessionInv, TypeInv, LocalOK, TokenPair, Held
    <3>3. MarksOK'
      BY <1>1, <2>1, <2>6 DEF SessionInv, TypeInv, MarksOK
    <3>4. Working(Fg, "fg")'
      <4>1. Placed(Fg)'
        BY <1>2, <2>2, <2>3 DEF Placed, Registering
      <4> QED
        BY <1>1, <1>2, <2>1, <2>2, <2>3, <4>1, RegisteringTask DEF Working, Flows
    <3>5. JobsOK'
      BY <1>1, <1>2, <2>1, <2>2, <3>1, <3>4, RegisteringTask, ForegroundJobs DEF SessionInv, TypeInv, ServerOK
    <3> QED
      BY <3>1, <3>2, <3>3, <3>5 DEF TypeInv
  <2>9. ScreenOK'
    BY <1>1, <2>1, <2>2, <2>3, <2>7 DEF SessionInv, ScreenOK
  <2>10. rec = NoRecord \/ (kind = "desktop" /\ cracked)
    BY <1>1, <1>2, <2>4, RegisteringTask DEF SessionInv, IdentityInv, Bare
  <2>11. IdentityInv'
    <3>1. Recorded'
      BY <2>1, <2>4, <2>5, <2>7 DEF Recorded
    <3>2. Bare'
      <4>1. kind = "desktop" /\ ~ cracked => ring.acc = NoToken /\ ring.ref = 0
        BY <2>10 DEF SessionInv, IdentityInv, Bare
      <4> QED
        BY <1>1, <1>2, <2>1, <2>2, <2>3, <2>4, <2>7, <4>1, RegisteringTask DEF Bare
    <3>3. Matched'
      BY <1>1, <2>5, <2>7 DEF Matched
    <3> QED
      BY <3>1, <3>2, <3>3 DEF IdentityInv
  <2>12. CreditInv'
    <3>1. Credited
      <4>1. kind = "desktop" => Credited
        BY <1>2, <2>4, RegisteringTask DEF SessionInv, CreditInv
      <4>2. rec = NoRecord => Credited
        BY NoRecordCredited DEF SessionInv, TypeInv, NodesOK, NoRecord
      <4> QED
        BY <2>10, <4>1, <4>2
    <3>2. Left' \in SUBSET Known
      BY <1>1, <2>1, <2>4, <2>7 DEF Left, Known
    <3>3. IsFiniteSet(Left') /\ Cardinality(Left') <= Cardinality(Known) /\ Cardinality(Known) \in Nat
      BY <3>2, KnownFinite, FS_Subset DEF SessionInv, TypeInv
    <3>4. Cardinality(Left') \in Nat
      BY <3>3, FS_CardinalityType
    <3>5. Cardinality(Left') <= Credit'
      BY <2>1, <2>6, <3>1, <3>3, <3>4, CreditKept DEF Credited
    <3>6. Fg'.flow \notin Lingering
      BY <1>2, <2>3 DEF Registering, Lingering
    <3> QED
      BY <1>1, <1>2, <2>4, <3>5, <3>6, RegisteringTask DEF CreditInv
  <2>13. OneUser'
    <3> SUFFICES ASSUME kind = "desktop" PROVE OneUser'
      BY <1>1 DEF OneUser
    <3>1. Caching' /\ Bg = Idle /\ client' = client
      BY <1>2, <2>4, <2>6, RegisteringTask
    <3>2. client["fg"].acc.l = client["fg"].ref
      BY <1>1, <1>2, RegisteringTask DEF SessionInv, ClientInv
    <3>3. Fg.key \in DOMAIN node => Of(client["fg"].ref, node[Fg.key].user)
      BY <2>4 DEF SessionInv, OneUser
    <3>4. \A p \in Procs : job'[p].pc # "refresh"
      BY <2>2, <3>1, IdleJob DEF Procs, Fg, Bg
    <3> QED
      BY <2>1, <2>2, <2>4, <2>7, <3>1, <3>2, <3>3, <3>4 DEF OneUser, Of
  <2>14. ClientInv'
    <3> SUFFICES ASSUME kind = "desktop" PROVE ClientInv'
      BY <1>1 DEF ClientInv
    <3>1. client' = client /\ Fg.flow = "provision"
      BY <1>2, <2>6, RegisteringTask
    <3>2. client["fg"].ref # 0 /\ client["fg"].acc.l = client["fg"].ref
      BY <1>1, <3>1 DEF SessionInv, ClientInv
    <3> QED
      BY <2>2, <2>3, <3>1, <3>2 DEF ClientInv, SigningIn
  <2>15. LogoutInv'
    <3>1. out.how = "none" /\ out' = out
      BY <1>2, <2>1, RegisteringTask
    <3>2. Fg'.flow \notin {"logout", "cmdLogout"}
      BY <1>2, <2>3 DEF Registering
    <3> QED
      BY <2>2, <3>1, <3>2 DEF LogoutInv, Wiping, LoggedOut, Deleted
  <2> QED
    BY <2>8, <2>9, <2>11, <2>12, <2>13, <2>14, <2>15 DEF SessionInv
<1> QED
  BY <1>3, <1>4 DEF SaveRecord, Fg

\* The tokens are written to the secure store, or fail to be.
LEMMA CacheStep ==
    ASSUME SessionInv, Fg.pc \in {"setAcc", "setRef"}, Settles("fg"),
           UNCHANGED <<kind, rec, keys, server, world, unsaid, stranger, straggler, out>>,
           faults' \in Nat, cracked' \in BOOLEAN, cracked => cracked',
           ring' \in [key : 0 .. keys, acc : Held, ref : 0 .. Len(owner)], ring'.key = ring.key,
           job' \in [Procs -> JobType], Other("fg"), Fg' = Idle \/ Working(Fg', "fg"),
           ~ Fg'.again, Fg'.pc \in {"idle", "setRef", "list"},
           \/ Fg'.flow = "none"
           \/ Fg'.flow = Fg.flow /\ Fg.pc = "setAcc" /\ Fg'.pc = "setRef"
           \/ Fg'.flow = "logout" /\ Fg'.pc = "list",
           screen' \in {"wizard", "shell", "opening", "panel", "blocked"} \cup Prompts, loops' \in BOOLEAN,
           ScreenOK',
           kind = "desktop" =>
              /\ ring'.acc = ring.acc \/ ring'.acc = client["fg"].acc
              /\ ring'.ref = ring.ref \/ ring'.ref = client["fg"].ref
              /\ screen' = "wizard" => screen = "wizard"
              /\ Caching /\ ~ Caching' =>
                    \/ told' = told + 1 /\ cracked'
                    \/ screen' # "wizard" /\ Fg.pc = "setRef" /\ ring'.ref = client["fg"].ref
              /\ Caching' => ring'.acc = client["fg"].acc /\ ring'.ref = ring.ref
              /\ ~ cracked' /\ Restored' => ring'.ref = client["fg"].ref
    PROVE  SessionInv'
<1>1. /\ UNCHANGED <<acct, node, live, owner, epoch, online, events>> /\ Bg' = Bg
      /\ told \in Nat /\ told' \in Nat /\ told' >= told
      /\ client' \in [Procs -> TokenPair] /\ (kind = "desktop" => client' = client)
  BY ForegroundSettles DEF server, world, Other, Bg, Procs
<1>2. /\ Working(Fg, "fg") /\ Fg # Idle /\ kind \in {"desktop", "router"} /\ (out.how = "none" \/ ~ Calm)
  BY ForegroundTask
<1>3. kind = "desktop" => Caching \/ Fg.flow \in SigningIn
  BY <1>2 DEF Working, Flows, Placed, Place, Caching, SigningIn, Lingering
<1>4. kind = "desktop" => rec # NoRecord /\ (screen = "wizard" <=> Caching)
  <2>1. kind = "desktop" /\ Caching => rec # NoRecord /\ screen = "wizard"
    BY DEF SessionInv, IdentityInv, Bare, ScreenOK, Caching
  <2>2. kind = "desktop" /\ Fg.flow \in SigningIn => rec # NoRecord /\ screen # "wizard"
    BY DEF SessionInv, ScreenOK, SigningIn
  <2> QED
    BY <1>3, <2>1, <2>2 DEF Caching, SigningIn
<1>5. ~ InHand /\ ~ InHand' /\ (Caching' => Fg'.pc = "setRef" /\ Caching)
  BY DEF InHand, Caching, Registering, Place
<1>6. TypeInv'
  <2>1. ServerOK' /\ NodesOK'
    BY <1>1 DEF SessionInv, TypeInv, ServerOK, NodesOK
  <2>2. LocalOK'
    BY <1>1 DEF SessionInv, TypeInv, LocalOK, TokenPair, Held
  <2>3. MarksOK'
    BY <1>1 DEF SessionInv, TypeInv, MarksOK
  <2>4. JobsOK'
    BY <1>1, JobsStep DEF SessionInv, TypeInv, Fg, Procs
  <2> QED
    BY <2>1, <2>2, <2>3, <2>4 DEF TypeInv
<1>7. IdentityInv'
  <2>1. Recorded' /\ Matched'
    BY <1>1, <1>5 DEF SessionInv, IdentityInv, Recorded, Matched
  <2>2. Bare'
    <3>1. Caching' => rec' # NoRecord
      BY <1>5 DEF SessionInv, IdentityInv, Bare
    <3>2. Fg'.flow = "cmdRegister" /\ Fg'.pc \notin {"setAcc", "setRef"} => rec' = NoRecord
      OBVIOUS
    <3>3. ASSUME kind = "desktop", ~ cracked'
          PROVE  /\ screen' = "wizard" /\ ~ Caching' => rec' = NoRecord
                 /\ rec' = NoRecord \/ (Caching' /\ Fg'.pc = "setAcc") => ring'.acc = NoToken
                 /\ rec' = NoRecord \/ Caching' => ring'.ref = 0
      BY <1>4, <1>5, <3>3 DEF SessionInv, IdentityInv, Bare
    <3> QED
      BY <3>1, <3>2, <3>3 DEF Bare
  <2> QED
    BY <2>1, <2>2 DEF IdentityInv
<1>8. CreditStep /\ (told' = told + 1 => Credited')
  <2>1. Known' = Known /\ Left' = Left
    BY <1>1, <1>5 DEF Known, Left
  <2> QED
    BY <1>1, <2>1, CreditKept, CreditStays, CreditPaid DEF SessionInv, TypeInv
<1>9. CreditInv' /\ (Trusted' => Trusted)
  <2>1. Fg'.flow \notin Lingering
    <3>1. Fg.flow \notin Lingering
      BY <1>2 DEF Lingering, SigningIn, Working, Placed, Place
    <3> QED
      BY <3>1 DEF Lingering
  <2>2. kind = "desktop" /\ screen' = "wizard" /\ ~ Caching' => Credited'
    BY <1>4, <1>8
  <2> QED
    BY <1>8, <2>1, <2>2 DEF CreditInv, CreditStep, Trusted
<1>10. OneUser'
  <2> SUFFICES ASSUME kind = "desktop", Trusted', rec.key \in DOMAIN node
               PROVE  LET u == node[rec.key].user IN
                      /\ Of(client["fg"].acc.l, u) /\ Of(client["fg"].ref, u)
                      /\ \A p \in Procs : job'[p].pc = "refresh" => Of(job'[p].sent, u)
                      /\ Of(ring'.acc.l, u) /\ (Caching' \/ Of(ring'.ref, u))
    BY <1>1, <1>5 DEF OneUser, Of
  <2> DEFINE u == node[rec.key].user
  <2>1. /\ Of(client["fg"].acc.l, u) /\ Of(client["fg"].ref, u)
        /\ Bg.pc = "refresh" => Of(Bg.sent, u)
        /\ (Caching /\ Fg.pc = "setAcc") \/ Of(ring.acc.l, u)
        /\ Caching \/ Of(ring.ref, u)
    BY <1>9 DEF SessionInv, OneUser, Bg, Procs
  <2> HIDE DEF u
  <2>2. \A p \in Procs : job'[p].pc = "refresh" => job'[p] = Bg
    BY <1>1 DEF Procs, Fg, Bg
  <2>3. Of(ring'.acc.l, u) /\ (Caching' \/ Of(ring'.ref, u))
    <3>1. CASE ~ Caching
      BY <2>1, <3>1
    <3>2. CASE Caching'
      BY <2>1, <3>2
    <3>3. CASE Caching /\ ~ Caching'
      <4>1. ~ (told' = told + 1 /\ cracked')
        BY <1>8 DEF Trusted
      <4> QED
        BY <2>1, <3>3, <4>1
    <3> QED
      BY <3>1, <3>2, <3>3
  <2> QED
    BY <2>1, <2>2, <2>3 DEF u
<1>11. ClientInv'
  <2> SUFFICES ASSUME kind = "desktop" PROVE ClientInv'
    BY DEF ClientInv
  <2>1. Fg'.flow = "provision" => Fg.flow = "provision"
    OBVIOUS
  <2>2. Fg'.flow = "provision" => client["fg"].ref # 0 /\ client["fg"].acc.l = client["fg"].ref
    BY <2>1 DEF SessionInv, ClientInv, Place
  <2>3. Fg'.flow \in SigningIn => client["fg"].ref # 0
    BY DEF SessionInv, ClientInv, SigningIn
  <2>4. ~ cracked' /\ Restored' => client'["fg"].ref = ring'.ref
    BY <1>1
  <2> QED
    BY <1>1, <2>2, <2>3, <2>4 DEF ClientInv, Restored
<1>12. LogoutInv'
  <2>1. Wiping'
    BY DEF Wiping
  <2>2. LoggedOut'
    <3>1. Calm' => Calm
      BY DEF Calm
    <3>2. out.how # "none" => Fg'.flow \notin Registering
      BY DEF SessionInv, LogoutInv, LoggedOut, Registering
    <3> QED
      BY <1>2, <3>1, <3>2 DEF LoggedOut
  <2>3. Deleted'
    <3>1. Fg'.flow # "cmdLogout" /\ (Fg'.flow = "logout" => Fg'.pc = "list" /\ Place(Fg') = "list")
      BY <1>2 DEF Working, Placed, Place, Lingering, SigningIn
    <3> QED
      BY <1>1, <3>1 DEF SessionInv, LogoutInv, Deleted
  <2> QED
    BY <2>1, <2>2, <2>3 DEF LogoutInv
<1> QED
  BY <1>6, <1>7, <1>9, <1>10, <1>11, <1>12 DEF SessionInv

\* The access token, then the refresh token.
LEMMA ForegroundCaches ==
    ASSUME SessionInv, CacheAccess("fg") \/ CacheRefresh("fg")
    PROVE  SessionInv'
<1>1. /\ Fg.pc \in {"setAcc", "setRef"} /\ Fg.pc # "idle" /\ Settles("fg") /\ faults \in Nat /\ faults' \in Nat
      /\ UNCHANGED <<kind, rec, keys, server, world, unsaid, stranger, straggler, out>>
  BY DEF CacheAccess, CacheRefresh, At, Fg, Smooth, Fault, SessionInv, TypeInv, MarksOK
<1>2. /\ Working(Fg, "fg") /\ Fg # Idle /\ Fg \in JobType /\ kind \in {"desktop", "router"}
      /\ job \in [Procs -> JobType] /\ "fg" \in Procs /\ "setRef" \in Steps
      /\ Place(Fg) = Fg.pc
  BY <1>1, ForegroundTask DEF SessionInv, TypeInv, JobsOK, Procs, Steps, Place
<1>3. /\ Fg.flow \in {"provision", "cmdRegister", "cmdLogin", "cycle"} \cup SigningIn
      /\ kind = "desktop" => Fg.flow \in {"provision"} \cup SigningIn
      /\ kind = "router" => Fg.flow \in {"cmdRegister", "cmdLogin", "cycle"}
  BY <1>1, <1>2 DEF Working, Flows, Placed, SigningIn, Lingering
<1>4. /\ ring \in [key : 0 .. keys, acc : Held, ref : 0 .. Len(owner)] /\ Mine("fg") = client["fg"]
      /\ client["fg"] \in TokenPair /\ cracked \in BOOLEAN /\ loops \in BOOLEAN
      /\ screen \in {"wizard", "shell", "opening", "panel", "blocked"} \cup Prompts
  BY DEF SessionInv, TypeInv, LocalOK, MarksOK, Mine, Cl, Procs
<1>5. cracked' \in BOOLEAN /\ (cracked => cracked')
  BY <1>4, Zenon DEF CacheAccess, CacheRefresh
<1>6. /\ ring' \in [key : 0 .. keys, acc : Held, ref : 0 .. Len(owner)] /\ ring'.key = ring.key
      /\ ring'.acc = ring.acc \/ ring'.acc = client["fg"].acc
      /\ ring'.ref = ring.ref \/ ring'.ref = client["fg"].ref
  BY <1>4 DEF CacheAccess, CacheRefresh, TokenPair
<1>7. kind = "desktop" => /\ Fg.flow = "provision" => screen = "wizard" /\ client["fg"].acc.l # 0
                          /\ Fg.flow = "signin" => screen = "prompt"
                          /\ Fg.flow = "signin then log out" => screen = "prompt to log out"
                          /\ client["fg"].ref # 0
  BY <1>1, <1>2, <1>3 DEF SessionInv, ScreenOK, ClientInv, SigningIn
<1>8. CASE Goes("fg", "setRef") /\ UNCHANGED ui /\ CacheAccess("fg")
  <2>1. /\ job' \in [Procs -> JobType] /\ Other("fg")
        /\ Fg'.pc = "setRef" /\ ~ Fg'.again /\ SameTask(Fg, Fg')
    BY <1>2, <1>8, GoesStep DEF Fg
  <2>2. /\ Fg'.flow = Fg.flow /\ Fg'.u = Fg.u /\ Fg'.name = Fg.name /\ Place(Fg') = "setRef" /\ Fg.pc = "setAcc"
        /\ UNCHANGED <<screen, loops>> /\ Fg' # Idle /\ Bg' = Bg
    BY <1>8, <2>1, IdleJob DEF SameTask, Place, CacheAccess, At, Fg, ui, Other, Bg, Procs
  <2>3. Working(Fg', "fg")
    <3>1. Placed(Fg')
      BY <1>3, <2>1, <2>2 DEF Placed, SigningIn
    <3> QED
      BY <1>2, <2>1, <2>2, <3>1 DEF Working
  <2>4. ScreenOK'
    BY <1>1, <2>2 DEF SessionInv, ScreenOK
  <2>5. ~ Restored' /\ (Caching <=> Caching')
    BY <1>1, <1>3, <2>1, <2>2 DEF Restored, Caching, SigningIn
  <2>6. Caching' => ring'.acc = client["fg"].acc /\ ring'.ref = ring.ref
    <3> SUFFICES ASSUME Caching' PROVE ring'.acc = client["fg"].acc /\ ring'.ref = ring.ref
      OBVIOUS
    <3>1. Fg.flow = "provision" /\ kind = "desktop"
      BY <1>2, <1>3, <2>2 DEF Caching
    <3>2. ~ Fails("fg", "local") /\ ~ Persists("fg")
      <4>1. Fails("fg", "local") => Ends("fg")
        BY <3>1 DEF Fails, FormAgain, LoadFails, LogoutFails, CmdLogoutFails, BackgroundFails, Flow, Fg
      <4>2. ~ Ends("fg")
        BY <1>2, <2>2, EndsStep DEF Fg
      <4> QED
        BY <3>1, <4>1, <4>2 DEF Persists, Flow, Fg
    <3>3. ring' = IF client["fg"].acc = NoToken THEN ring ELSE [ring EXCEPT !.acc = client["fg"].acc]
      BY <1>4, <1>8, <3>2 DEF CacheAccess
    <3>4. client["fg"].acc # NoToken
      BY <1>7, <3>1 DEF NoToken
    <3> QED
      BY <1>4, <3>3, <3>4
  <2> QED
    BY <1>1, <1>4, <1>5, <1>6, <2>1, <2>2, <2>3, <2>4, <2>5, <2>6, CacheStep
\* A flow that stops here.
<1>9. ASSUME Ends("fg"), screen' \in {"wizard", "shell", "opening", "panel", "blocked"} \cup Prompts,
             loops' \in BOOLEAN,
             kind = "router" => screen' = screen,
             kind = "desktop" /\ ~ cracked' => ring'.ref = client["fg"].ref /\ Fg.pc = "setRef",
             kind = "desktop" /\ Fg.flow = "provision" =>
                \/ cracked' /\ UNCHANGED ui /\ told' = told + 1
                \/ screen' = "opening" /\ loops' = loops /\ ring'.ref = client["fg"].ref /\ Fg.pc = "setRef",
             kind = "desktop" /\ Fg.flow # "provision" => UNCHANGED ui \/ screen' = "panel"
      PROVE  SessionInv'
  <2>1. job' \in [Procs -> JobType] /\ Other("fg") /\ Fg' = Idle /\ Bg' = Bg
    BY <1>2, <1>9, EndsStep DEF Other, Fg, Bg, Procs
  <2>2. Fg'.flow = "none" /\ Fg'.pc = "idle" /\ ~ Fg'.again /\ ~ Caching'
    BY <2>1, IdleJob DEF Caching
  <2>3. ScreenOK'
    <3>1. kind = "router" => screen = "shell"
      BY DEF SessionInv, ScreenOK
    <3>2. kind = "desktop" =>
             /\ screen' # "shell" /\ (screen' \in {"wizard", "opening"} => ~ loops' /\ Bg' = Idle)
             /\ screen' = "wizard" \/ rec # NoRecord
      <4> SUFFICES ASSUME kind = "desktop"
                   PROVE  /\ screen' # "shell" /\ (screen' \in {"wizard", "opening"} => ~ loops' /\ Bg' = Idle)
                          /\ screen' = "wizard" \/ rec # NoRecord
        OBVIOUS
      <4>1. CASE Fg.flow = "provision"
        <5>1. Caching
          BY <1>1, <4>1 DEF Caching
        <5>2. screen = "wizard" /\ ~ loops /\ Bg = Idle /\ rec # NoRecord
          BY <1>7, <4>1, <5>1 DEF SessionInv, ScreenOK, IdentityInv, Bare
        <5> QED
          BY <1>9, <2>1, <4>1, <5>2 DEF ui
      <4>2. CASE Fg.flow # "provision"
        <5>1. screen \in {"prompt", "prompt to log out"} /\ rec # NoRecord
          BY <1>3, <1>7, <4>2 DEF SessionInv, ScreenOK, SigningIn
        <5> QED
          BY <1>9, <4>2, <5>1 DEF ui
      <4> QED
        BY <4>1, <4>2
    <3> QED
      BY <1>1, <1>2, <1>9, <2>2, <3>1, <3>2 DEF ScreenOK, SigningIn, Lingering
  <2>4. kind = "desktop" =>
          /\ screen' = "wizard" => screen = "wizard"
          /\ Caching => \/ told' = told + 1 /\ cracked'
                        \/ screen' # "wizard" /\ Fg.pc = "setRef" /\ ring'.ref = client["fg"].ref
    BY <1>7, <1>9, <1>3 DEF Caching, ui, SigningIn
  <2> QED
    BY <1>1, <1>4, <1>5, <1>6, <1>9, <2>1, <2>2, <2>3, <2>4, CacheStep
<1>10. CASE Fails("fg", "local") /\ Fault("cache") /\ cracked' = TRUE /\ ~ Persists("fg")
  <2>1. Fg.flow \notin {"cycle", "cmdLogin"} /\ Ends("fg") /\ UNCHANGED ui /\ faults' # faults
    <3>1. Fg.flow \in {"provision", "cmdRegister"} \cup SigningIn
      BY <1>3, <1>10 DEF Persists, Flow, Fg
    <3>2. faults' # faults
      BY <1>1, <1>10 DEF Fault
    <3>3. Ends("fg") /\ UNCHANGED ui
      BY <1>10, <3>1 DEF Fails, FormAgain, LoadFails, LogoutFails, CmdLogoutFails, BackgroundFails,
                         Flow, Fg, SigningIn
    <3> QED
      BY <3>1, <3>2, <3>3 DEF SigningIn
  <2>2. Fg' = Idle
    BY <1>2, <2>1, EndsStep DEF Fg
  <2>3. Fg.flow = "provision" => told' = told + 1
    BY <1>1, <1>2, <2>1, <2>2, ForegroundSettles DEF Registering
  <2>4. cracked'
    BY <1>10
  <2>5. UNCHANGED <<screen, loops>>
    BY <2>1 DEF ui
  <2>6. screen' \in {"wizard", "shell", "opening", "panel", "blocked"} \cup Prompts /\ loops' \in BOOLEAN
    BY <1>4, <2>5
  <2> QED
    BY <1>9, <2>1, <2>3, <2>4, <2>5, <2>6
<1>11. CASE /\ Fg.pc = "setRef" /\ Finished("fg")
            /\ Persists("fg") \/ ring' = IF Mine("fg").ref = 0 THEN ring ELSE [ring EXCEPT !.ref = Mine("fg").ref]
  <2>1. kind = "desktop" => ring'.ref = client["fg"].ref
    <3>1. kind = "desktop" => ~ Persists("fg")
      BY <1>3 DEF Persists, Flow, Fg, SigningIn
    <3> QED
      BY <1>4, <1>7, <1>11, <3>1
  <2>2. CASE Fg.flow \in {"cycle", "cmdLogin", "cmdRegister"}
    <3>1. Ends("fg") /\ UNCHANGED <<screen, loops>> /\ kind = "router"
      BY <1>2, <1>3, <1>11, <2>2 DEF Finished, Flow, Fg, ui, SigningIn
    <3> QED
      BY <1>4, <1>9, <3>1
  <2>3. CASE Fg.flow = "provision"
    <3>1. Ends("fg") /\ screen' = "opening" /\ loops' = loops /\ kind = "desktop"
      BY <1>2, <1>3, <1>11, <2>3 DEF Finished, Flow, Fg
    <3> QED
      BY <1>4, <1>9, <1>11, <2>1, <2>3, <3>1
  <2>4. CASE Fg.flow = "signin"
    <3>1. Ends("fg") /\ screen' = "panel" /\ kind = "desktop"
      BY <1>2, <1>3, <1>11, <2>4 DEF Finished, Flow, Fg
    <3>2. loops' \in BOOLEAN
      <4>1. loops' = TRUE
        BY <1>11, <2>4 DEF Finished, Flow, Fg
      <4> QED
        BY <4>1, Zenon
    <3> QED
      BY <1>9, <1>11, <2>1, <2>4, <3>1, <3>2
  <2>5. CASE Fg.flow = "signin then log out"
    <3>1. Begins("fg", "list", "logout") /\ screen' = "panel" /\ loops' = loops /\ kind = "desktop"
      BY <1>2, <1>3, <1>11, <2>5 DEF Finished, Flow, Fg
    <3>2. /\ job' \in [Procs -> JobType] /\ Other("fg") /\ Fg'.pc = "list" /\ Fg'.flow = "logout" /\ ~ Fg'.again
      <4>1. "list" \in Steps /\ "logout" \in Tasks
        BY DEF Steps, Tasks
      <4> QED
        BY <1>2, <3>1, <4>1, BeginsStep DEF Fg
    <3>3. Working(Fg', "fg")
      BY <3>1, <3>2 DEF Working, Flows, Placed, Place, Forms, Registering, SigningIn, Lingering
    <3>4. ScreenOK'
      <4>1. rec # NoRecord /\ rec' = rec /\ kind' = kind
        BY <1>1, <1>7, <2>5, <3>1 DEF SessionInv, ScreenOK
      <4> QED
        BY <3>1, <3>2, <4>1 DEF ScreenOK, SigningIn
    <3>5. ~ Caching /\ ~ Caching'
      BY <2>5, <3>2 DEF Caching
    <3> QED
      BY <1>1, <1>4, <1>5, <1>6, <2>1, <3>1, <3>2, <3>3, <3>4, <3>5, CacheStep
  <2> QED
    BY <1>3, <2>2, <2>3, <2>4, <2>5 DEF SigningIn
<1> QED
  BY <1>8, <1>10, <1>11 DEF CacheAccess, CacheRefresh, At, Fg

\* A task that deletes, and why the recorded device may be forgotten.
LEMMA WipingTask ==
    ASSUME SessionInv, Fg.pc = "wipe"
    PROVE  /\ Fg.flow \in {"cancel", "logout", "cmdLogout"} \cup Lingering /\ Fg \in JobType
           /\ Fg.todo \in Stages /\ StageFacts(Fg.todo) /\ kind \in {"desktop", "router"} /\ Fg # Idle
           /\ Working(Fg, "fg") /\ (out.how = "none" \/ ~ Calm) /\ ~ InHand /\ ~ Caching /\ Credited
<1>1. /\ Fg.flow \in {"cancel", "logout", "cmdLogout"} \cup Lingering /\ Fg \in JobType
      /\ Fg.todo \in Stages /\ kind \in {"desktop", "router"} /\ Fg # Idle
      /\ Working(Fg, "fg") /\ (out.how = "none" \/ ~ Calm)
      /\ kind = "desktop" => Fg.flow # "cmdLogout"
      /\ kind = "router" => Fg.flow # "cancel"
  BY ForegroundTask DEF Working, Flows, Placed, Place, SigningIn, Lingering
<1>2. StageFacts(Fg.todo)
  BY <1>1, StageStep
<1>3. ~ InHand /\ ~ Caching
  BY <1>1 DEF InHand, Caching, Registering, Lingering, Place
<1>4. Credited
  <2>1. CASE Fg.flow = "cancel"
    BY <1>1, <1>3, <2>1 DEF SessionInv, ScreenOK, CreditInv
  <2>2. CASE Fg.flow \in Lingering
    BY <2>2 DEF SessionInv, CreditInv
  <2>3. CASE rec.key \notin DOMAIN node
    BY <2>3, NoRecordCredited DEF SessionInv, TypeInv
  <2>4. CASE Fg.flow \in {"logout", "cmdLogout"} /\ rec.key \in DOMAIN node
    BY <2>4 DEF SessionInv, LogoutInv, Deleted, Trusted
  <2> QED
    BY <1>1, <2>1, <2>2, <2>3, <2>4
<1> QED
  BY <1>1, <1>2, <1>3, <1>4

\* One entry of the secure store is deleted, and more is to be.
LEMMA WipeGoesOn ==
    ASSUME SessionInv, Wipe("fg"), Len(Fg.todo) # 1
    PROVE  SessionInv'
<1> DEFINE s == Fg.todo
           x == Head(s)
<1>1. /\ Fg.pc = "wipe" /\ Settles("fg") /\ faults \in Nat /\ told \in Nat
      /\ UNCHANGED <<kind, keys, server, world, unsaid, stranger, ui, out>>
      /\ job' = [job EXCEPT !["fg"].todo = Tail(s)]
      /\ straggler' = (straggler \/ Bg # Idle)
  BY DEF Wipe, At, Fg, Bg, SessionInv, TypeInv, MarksOK
<1>2. /\ x \in {"key", "acc", "ref"} /\ s \in Stages /\ Tail(s) \in Stages
      /\ Tail(s) \in Seq({"key", "acc", "ref", "rec"})
      /\ Tail(s) # <<"key", "acc", "ref", "rec">> /\ Tail(s) # <<"acc", "ref", "key", "rec">>
      /\ \A y \in {"key", "acc", "ref"} : Needs(y, s) => y = x \/ Needs(y, Tail(s))
  BY <1>1, WipingTask, StageStep DEF StageFacts
<1>3. /\ Fg.flow \in {"cancel", "logout", "cmdLogout"} \cup Lingering /\ Fg \in JobType
      /\ kind \in {"desktop", "router"} /\ Fg # Idle /\ Working(Fg, "fg") /\ (out.how = "none" \/ ~ Calm)
      /\ ~ InHand /\ ~ Caching
  BY <1>1, WipingTask
<1>4. /\ UNCHANGED <<screen, loops, acct, node, live, owner, epoch, online, events>>
      /\ ring \in [key : 0 .. keys, acc : Held, ref : 0 .. Len(owner)] /\ Len(owner) \in Nat /\ keys \in Nat
  BY <1>1 DEF ui, server, world, SessionInv, TypeInv, ServerOK, LocalOK
<1>5. faults' \in Nat /\ rec' = rec
  BY <1>1, <1>2 DEF Wipe, Smooth, Fault, Fg, local
<1>6. cracked' \in BOOLEAN /\ (cracked => cracked') /\ straggler' \in BOOLEAN /\ (straggler => straggler')
  <2>1. cracked \in BOOLEAN /\ straggler \in BOOLEAN
    BY DEF SessionInv, TypeInv, MarksOK
  <2>2. cracked' \in BOOLEAN /\ (cracked => cracked')
    BY <2>1, Zenon DEF Wipe
  <2>3. straggler' \in BOOLEAN
    BY <1>1, Zenon
  <2> QED
    BY <1>1, <2>1, <2>2, <2>3
<1> HIDE DEF x
<1>7. /\ ring' \in [key : 0 .. keys, acc : Held, ref : 0 .. Len(owner)]
      /\ ring'.key = ring.key \/ ring'.key = 0
      /\ ring'.acc = ring.acc \/ ring'.acc = NoToken
      /\ ring'.ref = ring.ref \/ ring'.ref = 0
      /\ ~ cracked' => /\ x = "key" => ring'.key = 0
                       /\ x = "acc" => ring'.acc = NoToken
                       /\ x = "ref" => ring'.ref = 0
  <2>1. \/ ring' = IF x = "rec" THEN ring ELSE [ring EXCEPT ![x] = EmptyRing[x]]
        \/ ring' = ring /\ cracked'
    BY DEF Wipe, Fg, x, local
  <2>2. NoToken \in Held
    BY <1>4 DEF NoToken, Held
  <2>3. CASE ring' = ring /\ cracked'
    BY <1>4, <2>3
  <2>4. CASE x = "key" /\ ring' = [ring EXCEPT !["key"] = EmptyRing["key"]]
    <3>1. ring' = [ring EXCEPT !.key = 0]
      BY <2>4 DEF EmptyRing
    <3> QED
      BY <1>4, <2>4, <3>1
  <2>5. CASE x = "acc" /\ ring' = [ring EXCEPT !["acc"] = EmptyRing["acc"]]
    <3>1. ring' = [ring EXCEPT !.acc = NoToken]
      BY <2>5 DEF EmptyRing
    <3> QED
      BY <1>4, <2>2, <2>5, <3>1
  <2>6. CASE x = "ref" /\ ring' = [ring EXCEPT !["ref"] = EmptyRing["ref"]]
    <3>1. ring' = [ring EXCEPT !.ref = 0]
      BY <2>6 DEF EmptyRing
    <3> QED
      BY <1>4, <2>6, <3>1
  <2> QED
    BY <1>2, <2>1, <2>3, <2>4, <2>5, <2>6
<1> DEFINE t == Tail(s)
           j == [Fg EXCEPT !.todo = t]
<1>8. job' = [job EXCEPT !["fg"] = j]
  BY <1>1 DEF Fg
<1> HIDE DEF t
<1>9. /\ j \in JobType /\ j.pc = "wipe" /\ j.todo = t /\ j.back = Fg.back /\ j.sent = Fg.sent
      /\ j.flow = Fg.flow /\ j.name = Fg.name /\ j.u = Fg.u /\ j.key = Fg.key
  BY <1>1, <1>2, <1>3 DEF JobType, t
<1>10. j.again => Fg.again
  BY <1>3 DEF JobType
<1> HIDE DEF j
<1>11. job' \in [Procs -> JobType] /\ Fg' = j /\ Other("fg")
  <2>1. job \in [Procs -> JobType] /\ "fg" \in Procs
    BY DEF SessionInv, TypeInv, JobsOK, Procs
  <2> QED
    BY <1>8, <1>9, <2>1, Moves DEF Fg
<1>12. /\ Fg'.pc = "wipe" /\ Place(Fg') = "wipe" /\ Fg'.todo = t /\ (Fg'.again => Fg.again)
       /\ Fg'.flow = Fg.flow /\ Fg'.name = Fg.name /\ Fg'.u = Fg.u /\ Fg'.key = Fg.key /\ Bg' = Bg
       /\ Fg' # Idle
  BY <1>9, <1>10, <1>11, IdleJob DEF Place, Other, Bg, Procs
<1>13. Working(Fg', "fg") /\ ~ InHand' /\ ~ Caching'
  <2>1. Placed(Fg')
    BY <1>1, <1>3, <1>12 DEF Working, Placed, Place
  <2> QED
    BY <1>2, <1>3, <1>12, <2>1 DEF Working, t, InHand, Caching
<1>14. /\ told' \in Nat /\ told' >= told
       /\ client' \in [Procs -> TokenPair] /\ (kind = "desktop" => client' = client)
  BY <1>1, ForegroundSettles
<1>15. TypeInv'
  <2>1. ServerOK' /\ NodesOK'
    BY <1>1, <1>4 DEF SessionInv, TypeInv, ServerOK, NodesOK
  <2>2. LocalOK'
    BY <1>1, <1>4, <1>5, <1>7, <1>14 DEF SessionInv, TypeInv, LocalOK, TokenPair, Held
  <2>3. MarksOK'
    BY <1>1, <1>4, <1>5, <1>6, <1>14 DEF SessionInv, TypeInv, MarksOK
  <2>4. JobsOK'
    BY <1>1, <1>4, <1>11, <1>13, JobsStep DEF SessionInv, TypeInv, Fg, Procs
  <2> QED
    BY <2>1, <2>2, <2>3, <2>4 DEF TypeInv
<1>16. ScreenOK'
  BY <1>1, <1>4, <1>5, <1>12 DEF SessionInv, ScreenOK
<1>17. IdentityInv'
  <2>1. Recorded' /\ Matched'
    BY <1>1, <1>3, <1>4, <1>5, <1>6, <1>7, <1>13 DEF SessionInv, IdentityInv, Recorded, Matched
  <2>2. Bare'
    BY <1>1, <1>3, <1>4, <1>5, <1>6, <1>7, <1>12, <1>13 DEF SessionInv, IdentityInv, Bare, Lingering
  <2> QED
    BY <2>1, <2>2 DEF IdentityInv
<1>18. CreditStep
  <2>1. Known' = Known /\ Left' = Left
    BY <1>1, <1>3, <1>4, <1>5, <1>13 DEF Known, Left
  <2> QED
    BY <1>1, <1>14, <2>1, CreditKept, CreditStays DEF SessionInv, TypeInv
<1>19. CreditInv' /\ (Trusted' => Trusted)
  BY <1>1, <1>3, <1>4, <1>6, <1>12, <1>18 DEF SessionInv, CreditInv, CreditStep, Trusted
<1>20. OneUser'
  <2>1. \A p \in Procs : job'[p].pc = "refresh" => p = "bg" /\ job'[p] = Bg
    BY <1>12 DEF Procs, Fg, Bg
  <2>2. \A u : (Of(ring.acc.l, u) => Of(ring'.acc.l, u)) /\ (Of(ring.ref, u) => Of(ring'.ref, u))
    BY <1>7 DEF Of, NoToken
  <2> QED
    BY <1>1, <1>3, <1>4, <1>5, <1>13, <1>14, <1>19, <2>1, <2>2 DEF SessionInv, OneUser, Of, Bg, Procs
<1>21. ClientInv'
  <2> SUFFICES ASSUME kind = "desktop" PROVE ClientInv'
    BY <1>1 DEF ClientInv
  <2>1. Fg'.again => Accepted("fg")'
    BY <1>4, <1>12, <1>14 DEF SessionInv, ClientInv, Accepted, Mine, Cl
  <2>2. Fg.flow # "provision" /\ Fg.flow \notin SigningIn /\ Fg.flow # "load"
    BY <1>3 DEF SigningIn, Lingering
  <2> QED
    BY <1>12, <2>1, <2>2 DEF ClientInv
<1>22. LogoutInv'
  <2>1. Calm' => Calm /\ ~ cracked' /\ (kind = "router" => Bg = Idle)
    BY <1>1, <1>6 DEF Calm
  <2>2. Wiping'
    <3>1. \A y \in {"key", "acc", "ref"} : ~ Needs(y, t) => y = x \/ ~ Needs(y, s)
      BY <1>2 DEF t
    <3>2. Calm => /\ ~ Needs("key", s) => ring.key = 0
                  /\ ~ Needs("acc", s) => ring.acc = NoToken
                  /\ ~ Needs("ref", s) => ring.ref = 0
      BY <1>1 DEF SessionInv, LogoutInv, Wiping
    <3> HIDE DEF s
    <3>3. Calm' => /\ ~ Needs("key", t) => ring'.key = 0
                   /\ ~ Needs("acc", t) => ring'.acc = NoToken
                   /\ ~ Needs("ref", t) => ring'.ref = 0
      BY <1>7, <2>1, <3>1, <3>2
    <3> QED
      BY <1>1, <1>2, <1>12, <2>1, <3>3 DEF Wiping, t
  <2>3. LoggedOut'
    BY <1>1, <1>3, <1>12, <2>1 DEF SessionInv, LogoutInv, LoggedOut
  <2>4. Deleted'
    BY <1>1, <1>4, <1>5, <1>6, <1>12, <1>19 DEF SessionInv, LogoutInv, Deleted
  <2> QED
    BY <2>2, <2>3, <2>4 DEF LogoutInv
<1> QED
  BY <1>15, <1>16, <1>17, <1>19, <1>20, <1>21, <1>22 DEF SessionInv

\* The record is deleted last, and the log-out is over.
LEMMA WipeIsOver ==
    ASSUME SessionInv, Wipe("fg"), Len(Fg.todo) = 1
    PROVE  SessionInv'
<1>1. /\ Fg.pc = "wipe" /\ Settles("fg") /\ faults \in Nat /\ told \in Nat
      /\ UNCHANGED <<kind, keys, server, world, unsaid, stranger>> /\ Wiped("fg")
      /\ straggler' = (straggler \/ Bg # Idle)
  BY DEF Wipe, At, Fg, Bg, SessionInv, TypeInv, MarksOK
<1>2. Fg.todo = <<"rec">> /\ Head(Fg.todo) = "rec"
  BY <1>1, WipingTask DEF StageFacts
<1>3. /\ Fg.flow \in {"cancel", "logout", "cmdLogout"} \cup Lingering /\ Fg \in JobType
      /\ kind \in {"desktop", "router"} /\ Fg # Idle /\ Working(Fg, "fg")
      /\ ~ InHand /\ ~ Caching /\ Credited
  BY <1>1, WipingTask
<1>4. /\ UNCHANGED <<acct, node, live, owner, epoch, online, events>> /\ 0 \notin DOMAIN node
      /\ rec.key \in 0 .. keys
  BY <1>1 DEF server, world, SessionInv, TypeInv, NodesOK, LocalOK
<1>5. /\ faults' \in Nat /\ ring' = ring
      /\ (rec' = NoRecord /\ cracked' = cracked) \/ (rec' = rec /\ cracked')
  BY <1>1, <1>2 DEF Wipe, Smooth, Fault, Fg, local
<1>6. /\ cracked' \in BOOLEAN /\ straggler' \in BOOLEAN /\ loops' \in BOOLEAN
      /\ cracked \in BOOLEAN /\ loops \in BOOLEAN
  <2>1. cracked \in BOOLEAN /\ straggler \in BOOLEAN /\ loops \in BOOLEAN
    BY DEF SessionInv, TypeInv, MarksOK
  <2>2. cracked' \in BOOLEAN
    BY <2>1, Zenon DEF Wipe
  <2>3. straggler' \in BOOLEAN
    BY <1>1, Zenon
  <2>4. loops' \in BOOLEAN
    BY <1>1, Zenon DEF Wiped
  <2> QED
    BY <2>1, <2>2, <2>3, <2>4
<1>7. /\ Fg' = Idle /\ job' \in [Procs -> JobType]
      /\ (kind = "desktop" => Bg' = Idle) /\ (kind = "router" => Bg' = Bg)
      /\ screen' = IF kind = "desktop" THEN "wizard" ELSE "shell"
      /\ out' = [how |-> Fg.flow, key |-> rec.key]
      /\ kind = "desktop" => ~ loops'
  <2>1. job \in [Procs -> JobType] /\ job' = [q \in Procs |-> IF q = "fg" \/ kind = "desktop" THEN Idle ELSE job[q]]
    BY <1>1 DEF Wiped, SessionInv, TypeInv, JobsOK, Procs
  <2>2. job' \in [Procs -> JobType]
    BY <2>1, IdleJob
  <2>3. Fg' = Idle /\ (kind = "desktop" => Bg' = Idle) /\ (kind = "router" => Bg' = Bg)
    BY <2>1 DEF Procs, Fg, Bg
  <2> QED
    BY <1>1, <2>2, <2>3 DEF Wiped, Fg
<1>8. /\ Fg'.flow = "none" /\ Fg'.pc = "idle" /\ ~ Fg'.again /\ ~ InHand' /\ ~ Caching'
  BY <1>7, IdleJob DEF InHand, Caching, Registering
<1>9. /\ told' \in Nat /\ told' >= told
      /\ client' \in [Procs -> TokenPair] /\ (kind = "desktop" => client' = client)
  BY <1>1, ForegroundSettles
<1>10. Calm => ring.key = 0 /\ ring.acc = NoToken /\ ring.ref = 0
  <2>1. ~ Needs("key", <<"rec">>) /\ ~ Needs("acc", <<"rec">>) /\ ~ Needs("ref", <<"rec">>)
    BY DEF Needs
  <2> QED
    BY <1>1, <1>2, <2>1 DEF SessionInv, LogoutInv, Wiping
<1>11. NoRecord \in [key : 0 .. keys, name : Names \cup {"none"}, ip : Nat] /\ NoRecord.key = 0 /\ keys \in Nat
  BY DEF NoRecord, SessionInv, TypeInv, LocalOK
<1>12. TypeInv'
  <2>1. ServerOK' /\ NodesOK'
    BY <1>1, <1>4 DEF SessionInv, TypeInv, ServerOK, NodesOK
  <2>2. LocalOK'
    BY <1>1, <1>4, <1>5, <1>9, <1>11 DEF SessionInv, TypeInv, LocalOK, TokenPair, Held
  <2>3. MarksOK'
    <3>1. out' \in [how : Tasks, key : 0 .. keys]
      BY <1>3, <1>4, <1>7 DEF JobType
    <3>2. screen' \in {"wizard", "shell"}
      BY <1>7
    <3> QED
      BY <1>1, <1>5, <1>6, <1>9, <3>1, <3>2 DEF SessionInv, TypeInv, MarksOK
  <2>4. JobsOK'
    <3>1. kind = "router" => JobsOK'
      <4>1. kind = "router" => Other("fg")
        BY <1>7 DEF Other, Procs, Bg
      <4> QED
        BY <1>1, <1>4, <1>7, <4>1, JobsStep DEF SessionInv, TypeInv, Fg, Procs
    <3>2. kind = "desktop" => JobsOK'
      BY <1>7 DEF JobsOK, Procs, Fg, Bg
    <3> QED
      BY <1>3, <3>1, <3>2
  <2> QED
    BY <2>1, <2>2, <2>3, <2>4 DEF TypeInv
<1>13. ScreenOK'
  BY <1>1, <1>3, <1>7, <1>8 DEF ScreenOK, SigningIn, Lingering
<1>14. IdentityInv'
  <2>1. Recorded' /\ Matched'
    BY <1>1, <1>4, <1>5, <1>8, <1>11 DEF SessionInv, IdentityInv, Recorded, Matched
  <2>2. Bare'
    BY <1>1, <1>5, <1>8, <1>10 DEF Bare, Calm
  <2> QED
    BY <2>1, <2>2 DEF IdentityInv
<1>15. Credited' /\ CreditInv'
  <2>1. Known' = Known /\ Left' \in SUBSET Known /\ IsFiniteSet(Known) /\ Cardinality(Known) \in Nat
    BY <1>1, <1>3, <1>4, <1>8, KnownFinite DEF Known, Left, SessionInv, TypeInv
  <2>2. IsFiniteSet(Left') /\ Cardinality(Left') <= Cardinality(Known)
    BY <2>1, FS_Subset
  <2>3. Cardinality(Left') \in Nat
    BY <2>2, FS_CardinalityType
  <2>4. Credited' /\ Cardinality(Left') <= Credit'
    BY <1>1, <1>3, <1>9, <2>1, <2>2, <2>3, CreditKept DEF Credited
  <2> QED
    BY <1>8, <2>4 DEF CreditInv, Lingering
<1>16. OneUser'
  <2>1. Trusted' => rec'.key \notin DOMAIN node'
    BY <1>4, <1>5, <1>11, <1>15 DEF Trusted
  <2> QED
    BY <1>8, <2>1 DEF OneUser
<1>17. ClientInv'
  BY <1>1, <1>7, <1>8 DEF ClientInv, SigningIn
<1>18. LogoutInv'
  <2>1. Calm' => Calm /\ ~ cracked' /\ (kind = "router" => Bg = Idle)
    BY <1>1, <1>5 DEF Calm
  <2>2. Wiping'
    BY <1>8 DEF Wiping
  <2>3. LoggedOut'
    <3>1. Calm' => ring' = EmptyRing /\ rec' = NoRecord
      <4>1. ring \in [key : 0 .. keys, acc : Held, ref : 0 .. Len(owner)]
        BY DEF SessionInv, TypeInv, LocalOK
      <4> QED
        BY <1>5, <1>10, <2>1, <4>1 DEF EmptyRing
    <3>2. Calm' => Bg' = Idle
      BY <1>3, <1>7, <2>1
    <3> QED
      BY <1>1, <1>7, <1>8, <3>1, <3>2 DEF LoggedOut, Registering
  <2>4. Deleted'
    <3>1. Fg.flow = "cmdLogout" => rec.key \notin DOMAIN node
      BY <1>1 DEF SessionInv, LogoutInv, Deleted
    <3>2. Fg.flow = "logout" /\ ~ stranger /\ ~ cracked' => rec.key \notin DOMAIN node
      BY <1>1, <1>5 DEF SessionInv, LogoutInv, Deleted, Trusted
    <3>3. out'.how = Fg.flow /\ out'.key = rec.key
      BY <1>7
    <3> QED
      BY <1>1, <1>4, <1>8, <3>1, <3>2, <3>3 DEF Deleted
  <2> QED
    BY <2>2, <2>3, <2>4 DEF LogoutInv
<1> QED
  BY <1>12, <1>13, <1>14, <1>15, <1>16, <1>17, <1>18 DEF SessionInv

\* A step of the panel, the wizard or a command.
LEMMA ForegroundKeeps ==
    ASSUME SessionInv, Step("fg")
    PROVE  SessionInv'
<1>1. CASE \/ Unreachable("fg") \/ ServerError("fg") \/ ServerInfo("fg") \/ Me("fg") \/ ListInBackground("fg")
  BY <1>1, ForegroundReads
<1>2. CASE Rejected("fg") \/ Refresh("fg") \/ CreateAccount("fg") \/ Login("fg")
  BY <1>2, ForegroundRejected, ForegroundRefresh, ForegroundCreates, ForegroundSignsIn
<1>3. CASE RegisterNode("fg") \/ ListNodes("fg") \/ DeleteNode("fg") \/ Revoke("fg")
  BY <1>3, ForegroundRegisters, ForegroundLists, ForegroundDeletes, ForegroundRevokes
<1>4. CASE StoreKey("fg") \/ SaveRecord("fg") \/ CacheAccess("fg") \/ CacheRefresh("fg")
  BY <1>4, ForegroundKey, ForegroundRecord, ForegroundCaches
<1>5. CASE Wipe("fg")
  BY <1>5, WipeGoesOn, WipeIsOver
<1> QED
  BY <1>1, <1>2, <1>3, <1>4, <1>5 DEF Step

-----------------------------------------------------------------------------
(* What the user starts *)

\* A task of the foreground begins: with which steps, tokens and marks.
Starting ==
    /\ Fg = Idle /\ Bg' = Bg /\ job' \in [Procs -> JobType]
    /\ Working(Fg', "fg") /\ ~ Fg'.again /\ Fg'.pc \notin {"node", "info", "save", "setAcc", "setRef", "refresh"}
    /\ UNCHANGED <<kind, ring, rec, ui, keys, server, world, faults, unsaid, cracked>>
    /\ client' \in [Procs -> TokenPair] /\ client'["bg"] = client["bg"]
    /\ told' \in Nat /\ told' >= told /\ (Fg'.flow \in Lingering => Credited')
    /\ stranger' \in BOOLEAN /\ straggler' \in BOOLEAN
    /\ out' = NoOut \/ UNCHANGED <<stranger, straggler, out>>
    /\ out'.how = "none" \/ (~ Calm /\ Fg'.flow \notin Registering)
    /\ stranger' = stranger \/ Fg'.flow = "provision"

\* The tokens, and the steps, that a task begins with.
Equipped ==
    /\ kind = "desktop" => client'["fg"] \in {client["fg"], NoTokens, CachedTokens}
    /\ kind = "desktop" /\ (Fg'.flow \in SigningIn \/ Fg'.flow = "logout") =>
          client'["fg"] = client["fg"]
    /\ kind = "desktop" /\ Fg'.flow = "load" => client'["fg"] = CachedTokens
    /\ Fg'.flow = "provision" => kind = "desktop" /\ Fg'.pc \in {"register", "login"}
    /\ Fg'.flow \in SigningIn => Fg'.pc = "login"
    /\ Fg'.flow = "cmdRegister" => rec = NoRecord
    /\ Fg'.flow = "cmdLogout" => rec # NoRecord /\ Fg'.key = rec.key /\ Fg'.pc = "delete"
    /\ Fg'.flow = "logout" => Fg'.pc = "list"
    /\ Fg'.pc = "wipe" => Fg'.todo = IF Fg'.flow = "cancel" THEN <<"key", "acc", "ref", "rec">> ELSE WipeOrder

\* A task begins in a state of the invariant.
LEMMA StartKeeps ==
    ASSUME SessionInv, Starting, Equipped, ScreenOK'
    PROVE  SessionInv'
<1>1. /\ UNCHANGED <<kind, ring, rec, screen, loops, keys, acct, node, live, owner, epoch, online,
                     events, faults, unsaid, cracked>>
      /\ Fg = Idle /\ Bg' = Bg /\ told \in Nat /\ 0 \notin DOMAIN node
      /\ kind \in {"desktop", "router"} /\ (rec = NoRecord => rec.key = 0)
  BY SessionAssumption
     DEF Starting, ui, server, world, SessionInv, TypeInv, MarksOK, ServerOK, NodesOK, NoRecord
<1>2. /\ ~ InHand /\ ~ Caching /\ ~ InHand' /\ ~ Caching' /\ Fg.flow = "none" /\ Fg.pc = "idle"
      /\ Fg'.pc # "refresh" /\ Place(Fg') = Fg'.pc
  BY <1>1, IdleJob DEF InHand, Caching, Starting, Place, Registering
<1>3. TypeInv'
  <2>1. ServerOK' /\ NodesOK'
    BY <1>1 DEF SessionInv, TypeInv, ServerOK, NodesOK
  <2>2. LocalOK'
    BY <1>1 DEF Starting, SessionInv, TypeInv, LocalOK, TokenPair, Held
  <2>3. MarksOK'
    <3>1. NoOut \in [how : Tasks, key : 0 .. keys]
      BY DEF NoOut, Tasks, SessionInv, TypeInv, LocalOK
    <3>2. out' \in [how : Tasks, key : 0 .. keys]
      BY <3>1 DEF Starting, SessionInv, TypeInv, MarksOK
    <3> QED
      BY <1>1, <3>2 DEF Starting, SessionInv, TypeInv, MarksOK
  <2>4. JobsOK'
    <3>1. Other("fg") /\ Fg' = job'["fg"]
      BY <1>1 DEF Other, Procs, Bg, Fg
    <3> QED
      BY <1>1, <3>1, JobsStep DEF Starting, SessionInv, TypeInv, Procs
  <2> QED
    BY <2>1, <2>2, <2>3, <2>4 DEF TypeInv
<1>4. IdentityInv'
  BY <1>1, <1>2 DEF Equipped, SessionInv, IdentityInv, Recorded, Bare, Matched
<1>5. CreditStep /\ CreditInv'
  <2>1. Known' = Known /\ Left' = Left
    BY <1>1, <1>2 DEF Known, Left
  <2>2. CreditStep
    BY <1>1, <2>1, CreditKept, CreditStays DEF Starting, SessionInv, TypeInv
  <2> QED
    BY <1>1, <1>2, <2>2 DEF CreditInv, CreditStep, Starting, SessionInv
<1>6. rec.key \in DOMAIN node /\ Trusted' /\ kind = "desktop" => Trusted /\ stranger' = stranger
  <2>1. Fg'.flow = "provision" => screen = "wizard" /\ kind = "desktop"
    BY <1>1 DEF Equipped, ScreenOK
  <2>2. Fg'.flow = "provision" => Credited' /\ (cracked \/ rec = NoRecord)
    BY <1>1, <1>2, <1>5, <2>1 DEF CreditInv, SessionInv, IdentityInv, Bare
  <2> QED
    BY <1>1, <1>5, <2>2 DEF Starting, Trusted, CreditStep
<1>7. OneUser'
  <2>1. ASSUME kind = "desktop", Trusted', rec.key \in DOMAIN node
        PROVE  LET u == node[rec.key].user IN
               /\ Of(client'["fg"].acc.l, u) /\ Of(client'["fg"].ref, u)
               /\ \A p \in Procs : job'[p].pc = "refresh" => Of(job'[p].sent, u)
               /\ Of(ring.acc.l, u) /\ Of(ring.ref, u)
    <3> DEFINE u == node[rec.key].user
    <3>1. /\ Of(client["fg"].acc.l, u) /\ Of(client["fg"].ref, u)
          /\ Bg.pc = "refresh" => Of(Bg.sent, u)
          /\ Of(ring.acc.l, u) /\ Of(ring.ref, u)
      BY <1>2, <1>6, <2>1 DEF SessionInv, OneUser, Bg, Procs
    <3> HIDE DEF u
    <3>2. Of(client'["fg"].acc.l, u) /\ Of(client'["fg"].ref, u)
      BY <2>1, <3>1 DEF Equipped, NoTokens, NoToken, CachedTokens, Of
    <3>3. \A p \in Procs : job'[p].pc = "refresh" => Of(job'[p].sent, u)
      BY <1>1, <1>2, <3>1 DEF Procs, Fg, Bg
    <3> QED
      BY <3>1, <3>2, <3>3 DEF u
  <2> QED
    BY <1>1, <1>2, <2>1 DEF OneUser, Of
<1>8. ClientInv'
  <2> SUFFICES ASSUME kind = "desktop" PROVE ClientInv'
    BY <1>1 DEF ClientInv
  <2>1. Fg' # Idle
    BY IdleJob DEF Starting, Working, Flows, SigningIn, Lingering
  <2>2. /\ ~ Fg'.again /\ (Fg'.flow = "provision" => Place(Fg') \in {"register", "login"})
        /\ Fg'.flow \in SigningIn => Fg'.pc = "login"
    BY <1>2 DEF Starting, Equipped
  <2>3. ASSUME ~ cracked, Fg'.flow \in SigningIn \/ Fg'.flow = "logout"
        PROVE  client'["fg"].ref = ring.ref \/ ring.acc = NoToken
    <3>1. client'["fg"] = client["fg"] /\ screen \notin {"wizard", "opening"}
      BY <1>1, <2>3 DEF Equipped, ScreenOK, SigningIn
    <3> QED
      BY <1>1, <2>3, <3>1 DEF SessionInv, ClientInv
  <2>4. ASSUME Fg'.flow = "load" PROVE client'["fg"].ref = ring.ref
    BY <2>4 DEF Equipped, CachedTokens
  <2> QED
    BY <1>1, <1>2, <2>1, <2>2, <2>3, <2>4 DEF ClientInv
<1>9. LogoutInv'
  <2>1. Wiping'
    BY <1>1, WipeNeeds, WipeOrderNeeds DEF Equipped, Wiping, WipeOrder
  <2>2. LoggedOut'
    <3>1. out'.how # "none" => ~ Calm /\ Fg'.flow \notin Registering /\ UNCHANGED straggler
      BY DEF Starting, NoOut
    <3> QED
      BY <1>1, <3>1 DEF LoggedOut, Calm
  <2>3. Deleted'
    <3>1. out'.how \in {"logout", "cmdLogout"} => UNCHANGED <<stranger, out>>
      BY DEF Starting, NoOut
    <3>2. /\ Fg'.flow = "cmdLogout" => Fg'.pc \notin {"revoke", "wipe"} /\ rec # NoRecord /\ Fg'.key = rec.key
          /\ Fg'.flow = "logout" => Fg'.pc \notin {"revoke", "wipe", "delete"}
      BY DEF Equipped
    <3> QED
      BY <1>1, <1>2, <3>1, <3>2 DEF SessionInv, LogoutInv, Deleted
  <2> QED
    BY <2>1, <2>2, <2>3 DEF LogoutInv
<1> QED
  BY <1>3, <1>4, <1>5, <1>7, <1>8, <1>9 DEF SessionInv

\* A machine with something to delete has not just been logged out of.
LEMMA NotLoggedOut ==
    ASSUME SessionInv,
           \/ rec # NoRecord \/ <<ring, rec>> # <<EmptyRing, NoRecord>>
           \/ kind = "desktop" /\ screen # "wizard"
    PROVE  out.how = "none" \/ ~ Calm
  BY DEF SessionInv, LogoutInv, LoggedOut

\* What a user's step on an idle foreground finds.
LEMMA UserFinds ==
    ASSUME SessionInv, Free
    PROVE  /\ Fg = Idle /\ job \in [Procs -> JobType] /\ told \in Nat /\ CachedTokens \in TokenPair
           /\ NoTokens \in TokenPair /\ client \in [Procs -> TokenPair]
           /\ stranger \in BOOLEAN /\ straggler \in BOOLEAN /\ NoOut.how = "none"
           /\ Len(owner) \in Nat /\ (kind = "desktop" => kind # "router")
<1>1. Len(owner) \in Nat
  BY DEF SessionInv, TypeInv, ServerOK
<1>2. NoTokens \in TokenPair
  BY <1>1 DEF NoTokens, NoToken, TokenPair, Held
<1>3. CachedTokens \in TokenPair
  BY DEF CachedTokens, TokenPair, SessionInv, TypeInv, LocalOK
<1> QED
  BY <1>1, <1>2, <1>3 DEF Free, Fg, NoOut, SessionInv, TypeInv, JobsOK, MarksOK, LocalOK

\* The wizard, the sign-in form and the log-out of the panel.
LEMMA WizardKeeps ==
    ASSUME SessionInv, NEW u \in Users, NEW nm \in Names, NEW create \in BOOLEAN,
           StartProvision(u, nm, create)
    PROVE  SessionInv'
<1> DEFINE pc == IF create THEN "register" ELSE "login"
<1>1. /\ kind = "desktop" /\ screen = "wizard" /\ Free /\ Len(owner) < Bound[kind].logins
      /\ keys < Bound[kind].keys /\ Starts("provision", pc, u, nm)
      /\ client' = [client EXCEPT !["fg"] = NoTokens] /\ out' = NoOut
      /\ UNCHANGED <<kind, local, ui, keys, server, world, faults, told, unsaid, cracked>>
  BY DEF StartProvision, MayLogin, MayRegister, Holds, Cl, Forget
<1>2. stranger' \in BOOLEAN /\ straggler' \in BOOLEAN
  BY Zenon DEF StartProvision, Forget
<1>3. pc \in {"register", "login"} /\ pc \in Steps /\ "provision" \in Tasks
  BY DEF Steps, Tasks
<1> HIDE DEF pc
<1>4. /\ job' \in [Procs -> JobType] /\ Other("fg")
      /\ Fg'.pc = pc /\ Fg'.flow = "provision" /\ ~ Fg'.again /\ Fg'.u = u /\ Fg'.name = nm
  BY <1>1, <1>3, UserFinds, StartsStep
<1>5. Bg' = Bg /\ Place(Fg') = pc
  BY <1>3, <1>4 DEF Other, Procs, Bg, Place
<1>6. Working(Fg', "fg")
  <2>1. Placed(Fg') /\ Fg'.flow \in Flows("fg")
    BY <1>1, <1>3, <1>4, <1>5 DEF Placed, Flows
  <2> QED
    BY <1>1, <1>3, <1>4, <1>5, <2>1 DEF Working
<1>7. Starting
  <2>1. client' \in [Procs -> TokenPair] /\ client'["bg"] = client["bg"]
    BY <1>1, UserFinds DEF Procs
  <2>2. Fg'.pc \notin {"node", "info", "save", "setAcc", "setRef", "refresh"} /\ Fg'.flow \notin Lingering
    BY <1>3, <1>4 DEF Lingering
  <2> QED
    BY <1>1, <1>2, <1>4, <1>5, <1>6, <2>1, <2>2, UserFinds DEF Starting, local
<1>8. Equipped
  <2>1. client'["fg"] = NoTokens
    BY <1>1, UserFinds DEF Procs
  <2> QED
    BY <1>1, <1>3, <1>4, <2>1 DEF Equipped, SigningIn
<1>9. ScreenOK'
  BY <1>1, <1>4, <1>5 DEF SessionInv, ScreenOK, ui, local, Lingering
<1> QED
  BY <1>7, <1>8, <1>9, StartKeeps

\* The sign-in form of the panel.
LEMMA SignInKeeps ==
    ASSUME SessionInv, NEW u \in Users, SignIn(u)
    PROVE  SessionInv'
<1> DEFINE f == IF screen = "prompt" THEN "signin" ELSE "signin then log out"
<1>1. /\ kind = "desktop" /\ screen \in Prompts /\ Free /\ Len(owner) < Bound[kind].logins
      /\ Starts(f, "login", u, "none") /\ client' = client
      /\ UNCHANGED <<kind, local, ui, keys, server, world, faults, told, unsaid, cracked, stranger, straggler, out>>
  BY DEF SignIn, MayLogin, history, marks
<1>2. /\ f \in SigningIn /\ f \in Tasks /\ "login" \in Steps
      /\ (f = "signin" <=> screen = "prompt")
  BY DEF Tasks, Steps, SigningIn
<1> HIDE DEF f
<1>3. /\ job' \in [Procs -> JobType] /\ Other("fg")
      /\ Fg'.pc = "login" /\ Fg'.flow = f /\ ~ Fg'.again /\ Fg'.u = u
  BY <1>1, <1>2, UserFinds, StartsStep
<1>4. Bg' = Bg /\ Place(Fg') = "login"
  BY <1>3 DEF Other, Procs, Bg, Place
<1>5. Working(Fg', "fg")
  <2>1. Placed(Fg') /\ Fg'.flow \in Flows("fg") /\ f \notin Registering
    BY <1>1, <1>2, <1>3, <1>4 DEF Placed, Flows, SigningIn, Registering
  <2> QED
    BY <1>1, <1>3, <1>4, <2>1 DEF Working
<1>6. Starting
  <2>1. out.how = "none" \/ ~ Calm
    BY <1>1, NotLoggedOut DEF Prompts
  <2>2. Fg'.flow \notin Lingering /\ Fg'.flow \notin Registering
    BY <1>2, <1>3 DEF Lingering, SigningIn, Registering
  <2> QED
    BY <1>1, <1>3, <1>4, <1>5, <2>1, <2>2, UserFinds DEF Starting, local
<1>7. Equipped
  BY <1>1, <1>2, <1>3 DEF Equipped, SigningIn
<1>8. ScreenOK'
  BY <1>1, <1>2, <1>3, <1>4 DEF SessionInv, ScreenOK, ui, local, Lingering, SigningIn, Prompts
<1> QED
  BY <1>6, <1>7, <1>8, StartKeeps

\* Cancel in the wizard; log out, and force it, in the panel.
LEMMA LeaveKeeps ==
    ASSUME SessionInv, Cancel \/ Logout \/ ForceLogout
    PROVE  SessionInv'
<1> DEFINE s == <<"key", "acc", "ref", "rec">>
           j == [Idle EXCEPT !.flow = "cancel", !.pc = "wipe", !.todo = s]
<1>1. /\ kind = "desktop" /\ Free /\ client' = client
      /\ UNCHANGED <<kind, local, ui, keys, server, world, faults, unsaid, cracked, stranger, straggler, out>>
  BY DEF Cancel, Logout, ForceLogout, history, marks
<1>2. /\ job' \in [Procs -> JobType] /\ Other("fg") /\ ~ Fg'.again
      /\ \/ Cancel /\ Fg'.pc = "wipe" /\ Fg'.flow = "cancel" /\ Fg'.todo = s
         \/ Logout /\ Fg'.pc = "list" /\ Fg'.flow = "logout"
         \/ ForceLogout /\ Fg'.pc = "revoke" /\ Fg'.flow = "forced logout"
  <2>1. {"list", "revoke", "wipe"} \subseteq Steps /\ {"cancel", "logout", "forced logout"} \subseteq Tasks
    BY DEF Steps, Tasks
  <2>2. CASE Cancel
    <3>1. job' = [job EXCEPT !["fg"] = j]
      BY <2>2 DEF Cancel
    <3>2. j \in JobType /\ j.pc = "wipe" /\ j.flow = "cancel" /\ j.todo = s /\ ~ j.again
      <4>1. s \in Seq({"key", "acc", "ref", "rec"})
        OBVIOUS
      <4> HIDE DEF s
      <4> QED
        BY <2>1, <4>1, IdleJob DEF JobType
    <3> HIDE DEF j, s
    <3> QED
      BY <1>1, <2>2, <3>1, <3>2, UserFinds, Moves DEF Procs, Fg
  <2>3. CASE Logout
    <3>1. Begins("fg", "list", "logout")
      BY <2>3 DEF Logout
    <3> QED
      BY <1>1, <2>1, <2>3, <3>1, UserFinds, BeginsStep DEF Procs, Fg
  <2>4. CASE ForceLogout
    <3>1. Begins("fg", "revoke", "forced logout")
      BY <2>4 DEF ForceLogout
    <3> QED
      BY <1>1, <2>1, <2>4, <3>1, UserFinds, BeginsStep DEF Procs, Fg
  <2> QED
    BY <2>2, <2>3, <2>4
<1>3. Bg' = Bg /\ Place(Fg') = Fg'.pc /\ s \in Stages
  BY <1>2 DEF Other, Procs, Bg, Place, Stages
<1> HIDE DEF s, j
<1>4. Working(Fg', "fg")
  <2>1. Placed(Fg') /\ Fg'.flow \in Flows("fg") /\ Fg'.flow \notin Registering /\ Fg'.flow \notin Forms
    BY <1>1, <1>2, <1>3 DEF Placed, Flows, SigningIn, Registering, Forms, Lingering
  <2> QED
    BY <1>1, <1>2, <1>3, <2>1 DEF Working
<1>5. Starting
  <2>1. out.how = "none" \/ ~ Calm
    BY <1>1, NotLoggedOut DEF Cancel, Logout, ForceLogout
  <2>2. told' \in Nat /\ told' >= told /\ (ForceLogout => told' = told + 1)
    <3>1. (Cancel \/ Logout => told' = told) /\ (ForceLogout => told' = told + 1)
      BY DEF Cancel, Logout, ForceLogout, history
    <3> QED
      BY <1>1, <3>1, UserFinds
  <2>3. Fg'.flow \in Lingering => Credited'
    <3>1. Known' = Known
      BY <1>1, <1>2, IdleJob, UserFinds DEF Known, InHand, Registering, server
    <3>2. ForceLogout => Credited'
      BY <1>1, <2>2, <3>1, UserFinds, CreditKept, CreditPaid DEF SessionInv, TypeInv
    <3> QED
      BY <1>2, <3>2 DEF Lingering
  <2>4. Fg'.flow \notin Registering /\ Fg'.pc \notin {"node", "info", "save", "setAcc", "setRef", "refresh"}
    BY <1>2 DEF Registering
  <2> QED
    BY <1>1, <1>2, <1>3, <1>4, <2>1, <2>2, <2>3, <2>4, UserFinds DEF Starting, local
<1>6. Equipped
  BY <1>1, <1>2 DEF Equipped, SigningIn, s
<1>7. ScreenOK'
  <2>1. /\ Cancel => screen = "wizard"
        /\ Logout => screen = "panel"
        /\ ForceLogout => screen = "blocked"
    BY DEF Cancel, Logout, ForceLogout
  <2> QED
    BY <1>1, <1>2, <1>3, <2>1 DEF SessionInv, ScreenOK, ui, local, Lingering, SigningIn
<1> QED
  BY <1>5, <1>6, <1>7, StartKeeps

\* A dialog opens or is dismissed: nothing runs.
LEMMA DialogKeeps ==
    ASSUME SessionInv, kind = "desktop", Free, screen # "wizard",
           screen' \in {"panel", "prompt"},
           \/ screen # "opening" /\ client'["fg"] = client["fg"]
           \/ ring.acc = NoToken /\ client'["fg"] = NoTokens,
           client' \in [Procs -> TokenPair],
           UNCHANGED <<kind, local, loops, job, keys, server, world, faults, history>>
    PROVE  SessionInv'
<1>1. /\ UNCHANGED <<kind, ring, rec, loops, job, keys, acct, node, live, owner, epoch, online, events,
                     faults, told, unsaid, cracked, stranger, straggler, out, Fg, Bg, InHand, Caching, Place(Fg)>>
      /\ Fg = Idle /\ Fg.pc = "idle" /\ Fg.flow = "none" /\ ~ Fg.again /\ ~ InHand /\ ~ Caching
  BY UserFinds, IdleJob
     DEF local, server, world, history, marks, Fg, Bg, InHand, Caching, Place, Registering
<1>2. TypeInv'
  <2>1. ServerOK' /\ NodesOK'
    BY <1>1 DEF SessionInv, TypeInv, ServerOK, NodesOK
  <2>4. MarksOK'
    <3>1. screen' \in {"wizard", "shell", "opening", "panel", "blocked"} \cup Prompts
      BY DEF Prompts
    <3> QED
      BY <1>1, <3>1 DEF SessionInv, TypeInv, MarksOK
  <2>2. LocalOK'
    BY <1>1 DEF SessionInv, TypeInv, LocalOK, TokenPair, Held
  <2>3. JobsOK'
    BY <1>1 DEF SessionInv, TypeInv, JobsOK, Working, Flows
  <2> QED
    BY <2>1, <2>2, <2>3, <2>4 DEF TypeInv
<1>3. ScreenOK'
  BY <1>1 DEF SessionInv, ScreenOK, SigningIn, Lingering
<1>4. IdentityInv'
  BY <1>1 DEF SessionInv, IdentityInv, Recorded, Bare, Matched
<1>5. CreditInv' /\ (Trusted' <=> Trusted)
  <2>1. UNCHANGED <<Known, Left, Credit>>
    BY <1>1 DEF Known, Left, Credit
  <2> QED
    BY <1>1, <2>1 DEF SessionInv, CreditInv, Credited, Trusted
<1>6. OneUser'
  <2>1. client'["fg"] = client["fg"] \/ (client'["fg"].acc.l = 0 /\ client'["fg"].ref = 0)
    BY DEF NoTokens, NoToken
  <2> QED
    BY <1>1, <1>5, <2>1 DEF SessionInv, OneUser, Of
<1>7. ClientInv'
  BY <1>1 DEF SessionInv, ClientInv, SigningIn
<1>8. LogoutInv'
  BY <1>1, <1>5 DEF SessionInv, LogoutInv, Wiping, LoggedOut, Deleted, Calm, WipeOrder
<1> QED
  BY <1>2, <1>3, <1>4, <1>5, <1>6, <1>7, <1>8 DEF SessionInv

\* The panel opens.
LEMMA PanelKeeps ==
    ASSUME SessionInv, OpenPanel
    PROVE  SessionInv'
<1>1. /\ kind = "desktop" /\ screen = "opening" /\ Free
      /\ UNCHANGED <<kind, local, loops, keys, server, world, faults, history>>
  BY DEF OpenPanel
<1>2. CASE ring.acc = NoToken
  <2>1. client' = [client EXCEPT !["fg"] = NoTokens] /\ screen' = "prompt" /\ job' = job
    BY <1>1, <1>2 DEF OpenPanel, Holds, Cl
  <2>2. client' \in [Procs -> TokenPair] /\ client'["fg"] = NoTokens
    BY <1>1, <2>1, UserFinds DEF Procs
  <2> QED
    BY <1>1, <1>2, <2>1, <2>2, DialogKeeps
<1>3. CASE ring.acc # NoToken
  <2>1. client' = [client EXCEPT !["fg"] = CachedTokens] /\ screen' = screen /\ Begins("fg", "me", "load")
    BY <1>1, <1>3 DEF OpenPanel, Holds, Cl
  <2>2. "me" \in Steps /\ "load" \in Tasks
    BY DEF Steps, Tasks
  <2>3. /\ job' \in [Procs -> JobType] /\ Other("fg")
        /\ Fg'.pc = "me" /\ Fg'.flow = "load" /\ ~ Fg'.again
    BY <1>1, <2>1, <2>2, UserFinds, BeginsStep DEF Procs, Fg
  <2>4. Bg' = Bg /\ Place(Fg') = "me"
    BY <2>3 DEF Other, Procs, Bg, Place
  <2>5. Working(Fg', "fg")
    BY <1>1, <2>3, <2>4 DEF Working, Placed, Flows, Registering, Forms, SigningIn
  <2>6. /\ client' \in [Procs -> TokenPair] /\ client'["bg"] = client["bg"]
        /\ client'["fg"] = CachedTokens
    BY <1>1, <2>1, UserFinds DEF Procs
  <2>7. Starting
    <3>1. out.how = "none" \/ ~ Calm
      BY <1>1, NotLoggedOut
    <3>2. "load" \notin Lingering /\ "load" \notin Registering
      BY DEF Lingering, Registering
    <3> QED
      BY <1>1, <2>1, <2>3, <2>4, <2>5, <2>6, <3>1, <3>2, UserFinds
         DEF Starting, local, ui, history, marks
  <2>8. Equipped
    BY <1>1, <2>3, <2>6 DEF Equipped, SigningIn
  <2>9. ScreenOK'
    BY <1>1, <2>1, <2>3, <2>4 DEF SessionInv, ScreenOK, local, Lingering, SigningIn
  <2> QED
    BY <2>7, <2>8, <2>9, StartKeeps
<1> QED
  BY <1>2, <1>3

\* The dialogs of the panel are dismissed.
LEMMA DismissKeeps ==
    ASSUME SessionInv, Dismiss
    PROVE  SessionInv'
<1>1. /\ kind = "desktop" /\ Free /\ screen' = "panel" /\ screen \notin {"wizard", "opening"}
      /\ client' = client
      /\ UNCHANGED <<kind, local, loops, job, keys, server, world, faults, history>>
  BY DEF Dismiss, Prompts
<1>2. client' \in [Procs -> TokenPair]
  BY <1>1, UserFinds
<1> QED
  BY <1>1, <1>2, DialogKeeps

\* The router's login, register, zone and logout commands.
LEMMA CommandKeeps ==
    ASSUME SessionInv, kind = "router", Free, NEW j \in JobType, job' = [job EXCEPT !["fg"] = j],
           Working(j, "fg"), ~ j.again,
           j.pc \notin {"node", "info", "save", "setAcc", "setRef", "refresh"},
           j.flow \in Registering => rec = NoRecord /\ out' = NoOut,
           j.flow = "cmdLogout" => rec # NoRecord /\ j.key = rec.key /\ j.pc = "delete",
           j.pc = "wipe" => j.todo = WipeOrder,
           j.flow \in Lingering => rec = NoRecord \/ told' = told + 1,
           told' \in Nat, told' >= told,
           client' \in [Procs -> TokenPair], client'["bg"] = client["bg"],
           UNCHANGED <<kind, local, ui, keys, server, world, faults, unsaid, cracked, stranger>>,
           \/ out' = NoOut /\ straggler' \in BOOLEAN
           \/ UNCHANGED <<straggler, out>> /\ (out.how = "none" \/ ~ Calm)
    PROVE  SessionInv'
<1>1. /\ job' \in [Procs -> JobType] /\ Other("fg") /\ Fg' = j
  BY UserFinds, Moves DEF Procs, Fg
<1>2. Bg' = Bg
  BY <1>1 DEF Other, Procs, Bg
<1>3. j.flow \in {"cmdLogin", "cmdRegister", "cycle", "cmdLogout", "forced logout"}
  BY DEF Working, Flows
<1>5. j.flow \in Lingering => Credited'
  <2>1. Known' = Known /\ Fg = Idle
    BY <1>1, IdleJob, UserFinds DEF Known, InHand, Registering, Place, server
  <2>2. rec = NoRecord => Credited
    <3>1. rec = NoRecord => rec.key \notin DOMAIN node
      BY DEF NoRecord, SessionInv, TypeInv, NodesOK
    <3> QED
      BY <3>1, NoRecordCredited DEF SessionInv, TypeInv
  <2>3. told' = told + 1 => Credited'
    BY <2>1, UserFinds, CreditKept, CreditPaid DEF SessionInv, TypeInv
  <2>4. Credited => Credited'
    <3>1. Cardinality(Known) \in Nat
      BY KnownFinite DEF SessionInv, TypeInv
    <3> QED
      BY <2>1, <3>1, UserFinds, CreditKept DEF Credited
  <2> QED
    BY <2>2, <2>3, <2>4
<1>6. Starting
  <2>1. out'.how = "none" \/ (~ Calm /\ j.flow \notin Registering)
    BY UserFinds
  <2>2. straggler' \in BOOLEAN /\ stranger' \in BOOLEAN
    BY UserFinds
  <2> QED
    BY <1>1, <1>2, <1>5, <2>1, <2>2, UserFinds DEF Starting, local
<1>7. Equipped
  BY <1>1, <1>3 DEF Equipped, SigningIn, Registering
<1>8. ScreenOK'
  BY DEF SessionInv, ScreenOK, ui
<1> QED
  BY <1>6, <1>7, <1>8, StartKeeps

\* The router's commands.
LEMMA RouterCommands ==
    ASSUME SessionInv,
           \/ \E u \in Users, create \in BOOLEAN : CmdLogin(u, create)
           \/ \E nm \in Names : CmdRegister(nm)
           \/ CmdZone \/ CmdLogout \/ CmdLogoutForce
    PROVE  SessionInv'
<1>1. /\ kind = "router" /\ Free
      /\ UNCHANGED <<kind, local, ui, keys, server, world, faults, unsaid, cracked, stranger>>
      /\ kind # "desktop" /\ Cl("fg") = "fg"
  BY DEF CmdLogin, CmdRegister, CmdZone, CmdLogout, CmdLogoutForce, history, marks, Cl
<1>2. /\ {"register", "login", "key", "list", "delete", "wipe"} \subseteq Steps
      /\ {"cmdLogin", "cmdRegister", "cycle", "cmdLogout", "forced logout"} \subseteq Tasks
  BY DEF Steps, Tasks
<1>3. told \in Nat /\ straggler \in BOOLEAN
  BY <1>1, UserFinds
<1>4. /\ client' \in [Procs -> TokenPair] /\ client'["bg"] = client["bg"]
  <2>1. client' = client \/ client' = [client EXCEPT !["fg"] = CachedTokens]
    BY <1>1 DEF CmdLogin, CmdRegister, CmdZone, CmdLogout, CmdLogoutForce, Holds
  <2> QED
    BY <1>1, <2>1, UserFinds DEF Procs
<1>5. /\ \A f \in {"cmdLogin", "cycle", "cmdLogout"} : f \notin Registering /\ f \notin Lingering
      /\ "cmdRegister" \notin Lingering
  BY DEF Registering, Lingering
<1>6. ASSUME NEW u \in Users, NEW create \in BOOLEAN, CmdLogin(u, create)
      PROVE  SessionInv'
  <2> DEFINE pc == IF create THEN "register" ELSE "login"
             j  == [Idle EXCEPT !.flow = "cmdLogin", !.pc = pc, !.u = u, !.name = "none"]
  <2>1. /\ job' = [job EXCEPT !["fg"] = j] /\ Len(owner) < Bound[kind].logins /\ out' = NoOut /\ told' = told
    BY <1>1, <1>6 DEF CmdLogin, Starts, Forget, MayLogin
  <2>2. straggler' \in BOOLEAN
    BY <1>6, Zenon DEF CmdLogin, Forget
  <2>3. pc \in {"register", "login"}
    OBVIOUS
  <2> HIDE DEF pc
  <2>4. j \in JobType /\ j.pc = pc /\ j.flow = "cmdLogin" /\ j.u = u /\ ~ j.again
    BY <1>2, <2>3, IdleJob DEF JobType
  <2> HIDE DEF j
  <2>5. Working(j, "fg")
    BY <1>1, <2>1, <2>3, <2>4 DEF Working, Placed, Place, Flows, Registering
  <2>6. told' \in Nat /\ told' >= told /\ j.flow \notin Registering /\ j.flow \notin Lingering
    BY <1>3, <1>5, <2>1, <2>4
  <2> QED
    BY <1>1, <1>4, <2>1, <2>2, <2>3, <2>4, <2>5, <2>6, CommandKeeps
<1>7. ASSUME NEW nm \in Names, CmdRegister(nm)
      PROVE  SessionInv'
  <2> DEFINE j == [Idle EXCEPT !.flow = "cmdRegister", !.pc = "key", !.u = "none", !.name = nm]
  <2>1. /\ job' = [job EXCEPT !["fg"] = j] /\ keys < Bound[kind].keys /\ out' = NoOut /\ told' = told
        /\ rec = NoRecord
    BY <1>1, <1>7 DEF CmdRegister, Starts, Forget, MayRegister
  <2>2. straggler' \in BOOLEAN
    BY <1>7, Zenon DEF CmdRegister, Forget
  <2>3. j \in JobType /\ j.pc = "key" /\ j.flow = "cmdRegister" /\ j.name = nm /\ ~ j.again
    BY <1>2, IdleJob DEF JobType
  <2> HIDE DEF j
  <2>4. Working(j, "fg")
    BY <1>1, <2>1, <2>3 DEF Working, Placed, Place, Flows, Forms, SigningIn
  <2>5. told' \in Nat /\ told' >= told /\ j.flow \notin Lingering
    BY <1>3, <1>5, <2>1, <2>3
  <2> QED
    BY <1>1, <1>4, <2>1, <2>2, <2>3, <2>4, <2>5, CommandKeeps
<1>8. CASE CmdZone
  <2> DEFINE j == [Idle EXCEPT !.pc = "list", !.flow = "cycle"]
  <2>1. /\ job' = [job EXCEPT !["fg"] = j] /\ rec # NoRecord /\ UNCHANGED <<told, straggler, out>>
    BY <1>1, <1>8 DEF CmdZone, Begins, history, marks
  <2>2. j \in JobType /\ j.pc = "list" /\ j.flow = "cycle" /\ ~ j.again
    BY <1>2, IdleJob DEF JobType
  <2> HIDE DEF j
  <2>3. Working(j, "fg")
    BY <1>1, <2>2 DEF Working, Placed, Place, Flows, Forms, SigningIn, Registering
  <2>4. told' \in Nat /\ told' >= told /\ j.flow \notin Registering /\ j.flow \notin Lingering
    BY <1>3, <1>5, <2>1, <2>2
  <2>5. out.how = "none" \/ ~ Calm
    BY <2>1, NotLoggedOut
  <2> QED
    BY <1>1, <1>4, <2>1, <2>2, <2>3, <2>4, <2>5, CommandKeeps
<1>9. CASE CmdLogout
  <2> DEFINE j == [Idle EXCEPT !.flow = "cmdLogout", !.pc = "delete", !.key = rec.key]
  <2>1. /\ job' = [job EXCEPT !["fg"] = j] /\ rec # NoRecord /\ UNCHANGED <<told, straggler, out>>
    BY <1>1, <1>9 DEF CmdLogout, history, marks
  <2>2. rec.key \in Nat
    BY DEF SessionInv, TypeInv, LocalOK
  <2>3. j \in JobType /\ j.pc = "delete" /\ j.flow = "cmdLogout" /\ j.key = rec.key /\ ~ j.again
    BY <1>2, <2>2, IdleJob DEF JobType
  <2> HIDE DEF j
  <2>4. Working(j, "fg")
    BY <1>1, <2>3 DEF Working, Placed, Place, Flows, Forms, SigningIn, Registering
  <2>5. told' \in Nat /\ told' >= told /\ j.flow \notin Registering /\ j.flow \notin Lingering
    BY <1>3, <1>5, <2>1, <2>3
  <2>6. out.how = "none" \/ ~ Calm
    BY <2>1, NotLoggedOut
  <2> QED
    BY <1>1, <1>4, <2>1, <2>3, <2>4, <2>5, <2>6, CommandKeeps
<1>10. CASE CmdLogoutForce
  <2> DEFINE j == [Idle EXCEPT !.flow = "forced logout", !.pc = "wipe", !.todo = WipeOrder]
  <2>1. /\ job' = [job EXCEPT !["fg"] = j] /\ <<ring, rec>> # <<EmptyRing, NoRecord>>
        /\ UNCHANGED <<straggler, out>>
    BY <1>10 DEF CmdLogoutForce
  <2>2. told' \in Nat /\ told' >= told /\ (rec # NoRecord => told' = told + 1)
    <3>1. told' = told + (IF rec = NoRecord THEN 0 ELSE 1)
      BY <1>10 DEF CmdLogoutForce
    <3> QED
      BY <1>1, <3>1, UserFinds
  <2>3. WipeOrder \in Stages /\ WipeOrder \in Seq({"key", "acc", "ref", "rec"})
    BY <1>1 DEF WipeOrder, Stages
  <2>4. j \in JobType /\ j.pc = "wipe" /\ j.flow = "forced logout" /\ j.todo = WipeOrder /\ ~ j.again
    BY <1>2, <2>3, IdleJob DEF JobType
  <2> HIDE DEF j
  <2>5. Working(j, "fg")
    BY <1>1, <2>3, <2>4 DEF Working, Placed, Place, Flows, Forms, SigningIn, Registering, Lingering
  <2> QED
    BY <1>1, <2>1, <2>2, <2>4, <2>5, <1>4, NotLoggedOut, CommandKeeps DEF Registering
<1> QED
  BY <1>6, <1>7, <1>8, <1>9, <1>10

\* The daemon starts.
LEMMA DaemonStarts ==
    ASSUME SessionInv, StartDaemon
    PROVE  SessionInv'
<1>1. /\ kind = "router" /\ loops'
      /\ UNCHANGED <<kind, ring, rec, screen, client, job, keys, acct, node, live, owner, epoch, online,
                     events, faults, told, unsaid, cracked, stranger, straggler, out>>
      /\ UNCHANGED <<Fg, Bg, InHand, Caching>>
  BY DEF StartDaemon, local, server, world, history, marks, Fg, Bg, InHand, Caching, Place
<1>2. loops' \in BOOLEAN
  BY Zenon DEF StartDaemon
<1>3. ServerOK' /\ NodesOK' /\ LocalOK' /\ MarksOK'
  BY <1>1, <1>2 DEF SessionInv, TypeInv, ServerOK, NodesOK, LocalOK, MarksOK, Held, TokenPair
<1>4. JobsOK'
  BY <1>1, JobsStep DEF SessionInv, TypeInv, JobsOK, Other, Procs
<1>5. ScreenOK'
  BY <1>1 DEF SessionInv, ScreenOK
<1>6. IdentityInv'
  <2>1. Recorded' /\ Matched'
    BY <1>1 DEF SessionInv, IdentityInv, Recorded, Matched
  <2>2. Bare'
    BY <1>1 DEF SessionInv, IdentityInv, Bare
  <2> QED
    BY <2>1, <2>2 DEF IdentityInv
<1>7. CreditInv' /\ (Trusted' <=> Trusted)
  <2>1. UNCHANGED <<Known, Left, Credit>>
    BY <1>1 DEF Known, Left, Credit
  <2> QED
    BY <1>1, <2>1 DEF SessionInv, CreditInv, Credited, Trusted
<1>8. OneUser' /\ ClientInv'
  BY <1>1 DEF OneUser, ClientInv
<1>9. LogoutInv'
  <2>1. Wiping'
    BY <1>1 DEF SessionInv, LogoutInv, Wiping, Calm, WipeOrder
  <2>2. LoggedOut'
    BY <1>1 DEF SessionInv, LogoutInv, LoggedOut, Calm
  <2>3. Deleted'
    BY <1>1, <1>7 DEF SessionInv, LogoutInv, Deleted
  <2> QED
    BY <2>1, <2>2, <2>3 DEF LogoutInv
<1> QED
  BY <1>3, <1>4, <1>5, <1>6, <1>7, <1>8, <1>9 DEF SessionInv, TypeInv

\* The poll or the cycle begins, or the daemon stops.
LEMMA LoopKeeps ==
    ASSUME SessionInv, Fg' = Fg, Bg' = Idle \/ Working(Bg', "bg"), Bg'.pc # "refresh",
           job' \in [Procs -> JobType],
           UNCHANGED <<kind, local, screen, keys, server, world, faults, told, unsaid, cracked, stranger, out>>,
           loops' \in BOOLEAN, straggler' \in BOOLEAN, straggler => straggler',
           kind = "desktop" => loops /\ UNCHANGED <<loops, client>>,
           client' \in [Procs -> TokenPair], client'["fg"] = client["fg"],
           kind = "router" =>
              client'["bg"] \in {NoTokens, CachedTokens} /\ (Fg.pc = "wipe" => Bg' = Idle \/ straggler')
    PROVE  SessionInv'
<1>1. /\ UNCHANGED <<kind, ring, rec, screen, keys, acct, node, live, owner, epoch, online, events, faults,
                     told, unsaid, cracked, stranger, out, Fg, InHand, Caching>>
      /\ kind \in {"desktop", "router"}
  BY SessionAssumption
     DEF local, server, world, InHand, Caching, Place, SessionInv, TypeInv, ServerOK
<1>2. kind = "desktop" => screen \notin {"wizard", "opening"}
  BY DEF SessionInv, ScreenOK
<1>3. TypeInv'
  <2>1. ServerOK' /\ NodesOK' /\ MarksOK'
    BY <1>1 DEF SessionInv, TypeInv, ServerOK, NodesOK, MarksOK
  <2>2. LocalOK'
    BY <1>1 DEF SessionInv, TypeInv, LocalOK, TokenPair, Held
  <2>3. JobsOK'
    <3>1. Other("bg") /\ Bg' = job'["bg"]
      BY DEF Other, Procs, Fg, Bg
    <3> QED
      BY <1>1, <3>1, JobsStep DEF SessionInv, TypeInv, Procs
  <2> QED
    BY <2>1, <2>2, <2>3 DEF TypeInv
<1>4. ScreenOK'
  BY <1>1, <1>2 DEF SessionInv, ScreenOK
<1>5. IdentityInv'
  <2>1. Recorded' /\ Matched'
    BY <1>1 DEF SessionInv, IdentityInv, Recorded, Matched
  <2>2. Bare'
    BY <1>1 DEF SessionInv, IdentityInv, Bare
  <2> QED
    BY <2>1, <2>2 DEF IdentityInv
<1>6. CreditInv' /\ (Trusted' <=> Trusted)
  <2>1. UNCHANGED <<Known, Left, Credit>>
    BY <1>1 DEF Known, Left, Credit
  <2> QED
    BY <1>1, <2>1 DEF SessionInv, CreditInv, Credited, Trusted
<1>7. OneUser'
  <2> SUFFICES ASSUME kind = "desktop" PROVE OneUser'
    BY <1>1 DEF OneUser
  <2>1. \A p \in Procs : job'[p].pc = "refresh" => job'[p] = job[p]
    BY DEF Procs, Fg, Bg
  <2> QED
    BY <1>1, <1>6, <2>1 DEF SessionInv, OneUser, Of
<1>8. ClientInv'
  BY <1>1 DEF SessionInv, ClientInv, Accepted, Mine, Cl
<1>9. LogoutInv'
  <2>1. Calm' => Calm
    BY <1>1 DEF Calm
  <2>2. Wiping'
    BY <1>1, <2>1 DEF SessionInv, LogoutInv, Wiping, WipeOrder, Calm
  <2>3. LoggedOut'
    <3>1. ring = EmptyRing => CachedTokens = NoTokens
      BY DEF CachedTokens, EmptyRing, NoTokens
    <3> QED
      BY <1>1, <1>2, <2>1, <3>1 DEF SessionInv, LogoutInv, LoggedOut
  <2>4. Deleted'
    BY <1>1, <1>6 DEF SessionInv, LogoutInv, Deleted
  <2> QED
    BY <2>2, <2>3, <2>4 DEF LogoutInv
<1> QED
  BY <1>3, <1>4, <1>5, <1>6, <1>7, <1>8, <1>9 DEF SessionInv

\* The panel's poll and the daemon.
LEMMA LoopsKeep ==
    ASSUME SessionInv, Poll \/ StopDaemon \/ Cycle
    PROVE  SessionInv'
<1>1. /\ job \in [Procs -> JobType] /\ client \in [Procs -> TokenPair] /\ loops \in BOOLEAN
      /\ straggler \in BOOLEAN /\ Len(owner) \in Nat
  BY DEF SessionInv, TypeInv, JobsOK, LocalOK, MarksOK, ServerOK
<1>2. "list" \in Steps /\ "poll" \in Tasks /\ "cycle" \in Tasks
  BY DEF Steps, Tasks
<1>3. NoTokens \in TokenPair /\ CachedTokens \in TokenPair
  BY <1>1 DEF NoTokens, NoToken, CachedTokens, TokenPair, Held, SessionInv, TypeInv, LocalOK
<1>4. CASE Poll
  <2>1. /\ kind = "desktop" /\ kind # "router" /\ loops /\ Begins("bg", "list", "poll")
        /\ UNCHANGED <<kind, local, screen, loops, client, keys, server, world, faults, told, unsaid, cracked,
                       stranger, straggler, out>>
    BY <1>4 DEF Poll, ui, history, marks
  <2>2. job' \in [Procs -> JobType] /\ Other("bg") /\ Bg'.pc = "list" /\ Bg'.flow = "poll"
    BY <1>1, <1>2, <2>1, BeginsStep DEF Procs, Bg
  <2>3. Fg' = Fg /\ Working(Bg', "bg")
    BY <2>1, <2>2
       DEF Other, Procs, Fg, Working, Placed, Place, Flows, Forms, SigningIn, Registering
  <2> QED
    BY <1>1, <2>1, <2>2, <2>3, LoopKeeps
<1>5. CASE Cycle
  <2>1. /\ kind = "router" /\ kind # "desktop" /\ loops /\ Begins("bg", "list", "cycle")
        /\ UNCHANGED <<kind, local, screen, loops, keys, server, world, faults, told, unsaid, cracked, stranger, out>>
        /\ client' = [client EXCEPT !["bg"] = CachedTokens]
        /\ straggler' = (straggler \/ Fg.pc = "wipe")
    BY <1>5 DEF Cycle, ui, Holds, Cl, At, Fg
  <2>2. job' \in [Procs -> JobType] /\ Other("bg") /\ Bg'.pc = "list" /\ Bg'.flow = "cycle"
    BY <1>1, <1>2, <2>1, BeginsStep DEF Procs, Bg
  <2>3. Fg' = Fg /\ Working(Bg', "bg")
    BY <2>1, <2>2
       DEF Other, Procs, Fg, Working, Placed, Place, Flows, Forms, SigningIn, Registering
  <2>4. straggler' \in BOOLEAN
    BY <2>1, Zenon
  <2>5. /\ client' \in [Procs -> TokenPair] /\ client'["fg"] = client["fg"]
        /\ client'["bg"] = CachedTokens
    BY <1>1, <1>3, <2>1 DEF Procs
  <2> QED
    BY <1>1, <2>1, <2>2, <2>3, <2>4, <2>5, LoopKeeps
<1>6. CASE StopDaemon
  <2>1. /\ kind = "router" /\ kind # "desktop" /\ job' = [job EXCEPT !["bg"] = Idle]
        /\ UNCHANGED <<kind, local, screen, keys, server, world, faults, told, unsaid, cracked, stranger,
                       straggler, out>>
        /\ client' = [client EXCEPT !["bg"] = NoTokens]
    BY <1>6 DEF StopDaemon, history, marks
  <2>2. loops' \in BOOLEAN
    BY <1>6, Zenon DEF StopDaemon
  <2>3. job' \in [Procs -> JobType] /\ Other("bg") /\ Bg' = Idle
    BY <1>1, <2>1, IdleJob, Moves DEF Procs, Bg
  <2>4. Fg' = Fg /\ Bg'.pc # "refresh"
    BY <2>3, IdleJob DEF Other, Procs, Fg
  <2>5. /\ client' \in [Procs -> TokenPair] /\ client'["fg"] = client["fg"]
        /\ client'["bg"] = NoTokens
    BY <1>1, <1>3, <2>1 DEF Procs
  <2> QED
    BY <1>1, <2>1, <2>2, <2>3, <2>4, <2>5, LoopKeeps
<1> QED
  BY <1>4, <1>5, <1>6

-----------------------------------------------------------------------------
(* The invariant *)

\* A fresh machine, and a server with one account.
LEMMA InitHolds == Init => SessionInv
<1> SUFFICES ASSUME Init PROVE SessionInv
  OBVIOUS
<1>1. /\ ring = EmptyRing /\ rec = NoRecord /\ keys = 0 /\ node = <<>> /\ live = {} /\ owner = <<>>
      /\ Fg = Idle /\ Bg = Idle /\ job = [p \in Procs |-> Idle] /\ client = [p \in Procs |-> NoTokens]
      /\ kind \in Kinds /\ kind \in {"desktop", "router"} /\ out = NoOut /\ told = 0 /\ unsaid = 0 /\ ~ loops
      /\ screen = (IF kind = "desktop" THEN "wizard" ELSE "shell")
      /\ epoch = 1 /\ faults = 0 /\ events = 0
  BY SessionAssumption DEF Init, Fg, Bg, Procs
<1>2. Len(owner) = 0 /\ owner \in Seq(Users) /\ DOMAIN node = {}
  BY <1>1
<1>3. acct \subseteq Users
  BY DEF Init
<1>4. online \in BOOLEAN /\ loops \in BOOLEAN /\ cracked \in BOOLEAN /\ stranger \in BOOLEAN /\ straggler \in BOOLEAN
  BY Zenon DEF Init
<1>5. Bound[kind].logins \in Nat /\ Bound[kind].keys \in Nat
  BY <1>1, SessionAssumption
<1>6. /\ Fg.pc = "idle" /\ Fg.flow = "none" /\ ~ Fg.again /\ ~ InHand /\ ~ Caching
      /\ \A p \in Procs : job[p].pc = "idle"
  BY <1>1, IdleJob DEF InHand, Caching, Registering
<1>7. TypeInv
  <2>1. ServerOK
    BY <1>1, <1>2, <1>3, <1>4, <1>5 DEF ServerOK
  <2>2. NodesOK
    BY <1>2, FS_EmptySet DEF NodesOK
  <2>3. LocalOK
    BY <1>1, <1>2, <1>5 DEF LocalOK, EmptyRing, NoRecord, NoToken, NoTokens, TokenPair, Held
  <2>4. MarksOK
    <3>1. out \in [how : Tasks, key : 0 .. keys]
      BY <1>1 DEF NoOut, Tasks
    <3> QED
      BY <1>1, <1>4, <3>1 DEF MarksOK
  <2>5. JobsOK
    BY <1>1, IdleJob DEF JobsOK
  <2> QED
    BY <2>1, <2>2, <2>3, <2>4, <2>5 DEF TypeInv
<1>8. ScreenOK
  BY <1>1, <1>6 DEF ScreenOK, SigningIn, Lingering
<1>9. IdentityInv
  BY <1>1, <1>2, <1>6 DEF IdentityInv, Recorded, Bare, Matched, EmptyRing
<1>10. CreditInv
  <2>1. Known = {} /\ Left = {}
    BY <1>2 DEF Known, Left
  <2> QED
    BY <1>1, <1>6, <2>1, FS_EmptySet DEF CreditInv, Credited, Credit, Lingering
<1>11. OneUser
  BY <1>2, <1>6 DEF OneUser
<1>12. ClientInv
  BY <1>1, <1>6 DEF ClientInv, SigningIn
<1>13. LogoutInv
  BY <1>1, <1>6 DEF LogoutInv, Wiping, LoggedOut, Deleted, NoOut
<1> QED
  BY <1>7, <1>8, <1>9, <1>10, <1>11, <1>12, <1>13 DEF SessionInv

\* Every step keeps it.
LEMMA NextKeeps == SessionInv /\ [Next]_vars => SessionInv'
<1> SUFFICES ASSUME SessionInv, [Next]_vars PROVE SessionInv'
  OBVIOUS
<1>1. CASE \E p \in {"fg", "bg"} : Step(p)
  BY <1>1, ForegroundKeeps, BackgroundKeeps
<1>2. CASE Desktop
  <2>1. ASSUME NEW u \in Users, NEW nm \in Names, NEW create \in BOOLEAN, StartProvision(u, nm, create)
        PROVE  SessionInv'
    BY <2>1, WizardKeeps
  <2>2. ASSUME NEW u \in Users, SignIn(u) PROVE SessionInv'
    BY <2>2, SignInKeeps
  <2>3. CASE Cancel \/ Logout \/ ForceLogout
    BY <2>3, LeaveKeeps
  <2>4. CASE OpenPanel \/ Dismiss
    BY <2>4, PanelKeeps, DismissKeeps
  <2>5. CASE Poll
    BY <2>5, LoopsKeep
  <2> QED
    BY <1>2, <2>1, <2>2, <2>3, <2>4, <2>5 DEF Desktop
<1>3. CASE Router
  <2>1. CASE \/ \E u \in Users, create \in BOOLEAN : CmdLogin(u, create)
             \/ \E nm \in Names : CmdRegister(nm)
             \/ CmdZone \/ CmdLogout \/ CmdLogoutForce
    BY <2>1, RouterCommands
  <2>2. CASE StartDaemon
    BY <2>2, DaemonStarts
  <2>3. CASE StopDaemon \/ Cycle
    BY <2>3, LoopsKeep
  <2> QED
    BY <1>3, <2>1, <2>2, <2>3 DEF Router
<1>4. CASE Surroundings
  BY <1>4, EventsKeep, PowerKeeps DEF Surroundings
<1>5. CASE UNCHANGED vars
  <2>1. /\ UNCHANGED <<kind, local, ui, client, job, keys, owner, faults, history>>
        /\ UNCHANGED <<acct, node, live, epoch, online, events>>
    BY <1>5 DEF vars, server, world
  <2>2. ServerOK' /\ NodesOK' /\ OwnShrinks
    BY <2>1 DEF SessionInv, TypeInv, ServerOK, NodesOK, OwnShrinks
  <2> QED
    BY <2>1, <2>2, OutsideStep
<1> QED
  BY <1>1, <1>2, <1>3, <1>4, <1>5 DEF Next

\* The invariant of the session: types, what the window shows, the identity of the device, the
\* count of devices left behind, the account of the tokens, and the stages of a log-out, however
\* the user, the background loop, the server and the faults interleave.
THEOREM SessionInvariant == Spec => []SessionInv
  BY InitHolds, NextKeeps, PTL DEF Spec

\* The variables stay in their types, and no cached token or token in memory names a login the
\* server has not made (apiclient, keyring, state).
THEOREM SessionTypeCorrect == Spec => []SessionTypeOK
<1>1. SessionInv => SessionTypeOK
  <2> SUFFICES ASSUME SessionInv PROVE SessionTypeOK
    OBVIOUS
  <2>1. ServerOK /\ NodesOK /\ LocalOK /\ MarksOK
    BY DEF SessionInv, TypeInv
  <2>2. Bound[kind].logins \in Nat /\ Bound[kind].keys \in Nat /\ Len(owner) \in Nat /\ keys \in Nat
    BY <2>1, SessionAssumption DEF ServerOK, LocalOK
  <2>3. /\ 0 .. Len(owner) \subseteq 0 .. Bound[kind].logins /\ Held \subseteq Tokens
        /\ 0 .. keys \subseteq 0 .. Bound[kind].keys
    <3>1. 0 .. Len(owner) \subseteq 0 .. Bound[kind].logins
      BY <2>1, <2>2 DEF ServerOK
    <3>2. 0 .. keys \subseteq 0 .. Bound[kind].keys
      BY <2>1, <2>2 DEF LocalOK
    <3>3. Held \subseteq Tokens
      BY <3>1 DEF Held, Tokens
    <3> QED
      BY <3>1, <3>2, <3>3
  <2>4. ring \in [key : 0 .. Bound[kind].keys, acc : Tokens, ref : 0 .. Bound[kind].logins]
    BY <2>1, <2>3 DEF LocalOK
  <2>5. rec \in [key : 0 .. Bound[kind].keys, name : Names \cup {"none"}, ip : Nat]
    BY <2>1, <2>3 DEF LocalOK
  <2>6. client \in [{"fg", "bg"} -> [acc : Tokens, ref : 0 .. Bound[kind].logins]]
    BY <2>1, <2>3 DEF LocalOK, TokenPair, Procs
  <2>7. \A t \in {ring.ref, ring.acc.l} \cup {client[p].ref : p \in {"fg", "bg"}} : t <= Len(owner)
    BY <2>1, <2>2 DEF LocalOK, Held, TokenPair, Procs
  <2> QED
    BY <2>1, <2>2, <2>4, <2>5, <2>6, <2>7 DEF SessionTypeOK, ServerOK, NodesOK, LocalOK, MarksOK
<1> QED
  BY <1>1, SessionInvariant, PTL

\* The key in the secure store is that of the recorded device, although it is written before the
\* registration and the record after it (ProvisionDevice, cmdRegister).
THEOREM IdentityKept == Spec => []IdentityIntact
<1>1. SessionInv => IdentityIntact
  BY DEF SessionInv, IdentityInv, Matched, IdentityIntact
<1> QED
  BY <1>1, SessionInvariant, PTL

\* No device is left behind at the server without the user having been told, for every way in
\* which a set-up, a log-out or the machine may stop half way (registerDevice, removeRemoteNode,
\* classifyRemoveErr, cmdLogout).
THEOREM NothingLeftSilently == Spec => []NoSilentLeftover
<1>1. SessionInv => NoSilentLeftover
  <2> SUFFICES ASSUME SessionInv PROVE NoSilentLeftover
    OBVIOUS
  <2>1. Orphans \in SUBSET Left
    <3> SUFFICES ASSUME NEW k \in Orphans PROVE k \in Left
      OBVIOUS
    <3>1. /\ k \in DOMAIN node \cap 1 .. keys /\ rec.key # k
          /\ ~ (Fg.key = k /\ Fg.pc \in {"info", "save", "refresh"})
      BY DEF Orphans, Fg
    <3>2. ~ (InHand /\ k = Fg.key)
      BY <3>1 DEF SessionInv, IdentityInv, Recorded, InHand, Place
    <3> QED
      BY <3>1, <3>2 DEF Left, Known
  <2>2. IsFiniteSet(Orphans) /\ Cardinality(Orphans) <= Cardinality(Left)
    BY <2>1, KnownFinite, FS_Subset DEF SessionInv, TypeInv
  <2>3. Cardinality(Orphans) \in Nat /\ Cardinality(Left) \in Nat /\ Credit \in Nat
    BY <2>2, KnownFinite, FS_CardinalityType DEF SessionInv, TypeInv, MarksOK, Credit
  <2>4. Cardinality(Left) <= Credit
    BY DEF SessionInv, CreditInv
  <2>5. Cardinality(Orphans) <= Credit
    BY <2>2, <2>3, <2>4
  <2> QED
    BY <2>5 DEF NoSilentLeftover, Credit
<1> QED
  BY <1>1, SessionInvariant, PTL

\* A log-out that reports success has removed the secrets, the record and the device at the server
\* (Controller.Logout, tearDownLocal, cmdLogout).
THEOREM LogOutClean == Spec => []LoggedOutIsClean
<1>1. SessionInv => LoggedOutIsClean
  BY DEF SessionInv, LogoutInv, LoggedOut, Deleted, LoggedOutIsClean, Calm
<1> QED
  BY <1>1, SessionInvariant, PTL

-----------------------------------------------------------------------------
(* No needless prompt *)

\* What excuses a prompt for a password.
Excused == \/ ring.acc = NoToken \/ ring.ref \notin live \/ cracked
           \/ ~ online \/ faults' # faults
Asks    == screen \notin Prompts /\ screen' \in Prompts

\* Only an expired session makes a failed call ask for a sign-in.
LEMMA FailureAsks ==
    ASSUME SessionInv, Asks, NEW p \in Procs, NEW e, Fails(p, e)
    PROVE  /\ e = "expired" /\ p = "fg" /\ Fg.flow \in {"load", "logout"}
<1>1. /\ e = "expired" /\ Flow(p, {"load", "logout"})
  BY DEF Asks, Fails, FormAgain, LoadFails, LogoutFails, CmdLogoutFails, BackgroundFails, Prompts, ui, Flow
<1>2. p # "bg"
  <2>1. Bg.flow \notin {"load", "logout"}
    BY BackgroundTask, IdleJob DEF SessionInv, TypeInv, JobsOK, Working, Flows, Bg, Procs
  <2> QED
    BY <1>1, <2>1 DEF Flow, Bg
<1> QED
  BY <1>1, <1>2 DEF Procs, Flow, Fg

\* The panel that fails with an expired session has tried the cached refresh token.
LEMMA ExpiredExcused ==
    ASSUME SessionInv, Asks, NEW p \in Procs, Rejected(p) \/ Refresh(p)
    PROVE  Excused
<1>1. Fails(p, "expired")
  BY DEF Asks, Rejected, Refresh, ui, Prompts
<1>2. p = "fg" /\ Fg.flow \in {"load", "logout"}
  BY <1>1, FailureAsks
<1>3. /\ Fg # Idle /\ Working(Fg, "fg") /\ kind \in {"desktop", "router"} /\ Fg.pc # "idle"
      /\ Place(Fg) \in AuthCalls
  <2>1. Fg.pc # "idle" /\ (Fg.pc = "refresh" \/ Fg.pc \in AuthCalls)
    BY <1>2 DEF Rejected, Refresh, At, AuthCalls, Fg
  <2> QED
    BY <2>1, ForegroundTask DEF Working, Place
<1>4. kind = "desktop" /\ (Fg.flow = "load" \/ Place(Fg) \in {"list", "delete"})
  BY <1>2, <1>3 DEF Working, Flows, Placed, AuthCalls, SigningIn, Lingering
<1>5. Mine("fg") = client["fg"] /\ 0 \notin live
  BY DEF Mine, Cl, SessionInv, TypeInv, ServerOK
<1> SUFFICES ASSUME ~ cracked, ring.acc # NoToken PROVE Excused
  BY DEF Excused
<1>6. client["fg"].ref = ring.ref
  BY <1>2, <1>3, <1>4 DEF SessionInv, ClientInv
<1>7. CASE Rejected(p)
  <2>1. ~ Accepted("fg") /\ (client["fg"].ref = 0 \/ Fg.again)
    BY <1>2, <1>5, <1>7 DEF Rejected, Asks, ui, Fg
  <2>2. client["fg"].ref = 0
    BY <1>4, <2>1 DEF SessionInv, ClientInv
  <2> QED
    BY <1>5, <1>6, <2>2 DEF Excused
<1>8. CASE Refresh(p)
  <2>1. Fg.sent = ring.ref
    BY <1>2, <1>4, <1>6, <1>8 DEF SessionInv, ClientInv, Refresh, At, Fg
  <2>2. ~ online \/ Fg.sent \notin live \/ faults' = faults + 1
    BY <1>2, <1>8 DEF Refresh, Asks, ui, Fault, Fg
  <2>3. faults \in Nat
    BY DEF SessionInv, TypeInv, MarksOK
  <2> QED
    BY <2>1, <2>2, <2>3 DEF Excused
<1> QED
  BY <1>7, <1>8

\* Every step that asks for a password has an excuse.
LEMMA AskingExcused ==
    ASSUME SessionInv, Next, Asks
    PROVE  Excused
<1>1. ASSUME NEW p \in Procs, Step(p) PROVE Excused
  <2>1. ~ Fails(p, "unreachable") /\ ~ Fails(p, "server") /\ ~ Fails(p, "taken") /\ ~ Fails(p, "auth")
    BY FailureAsks
  <2>2. ~ Fails(p, "gone") /\ ~ Fails(p, "local")
    BY FailureAsks
  <2>3. screen' # screen /\ screen' \notin {"panel", "wizard", "shell", "opening"}
    BY DEF Asks, Prompts
  <2>4. ~ (Unreachable(p) \/ ServerError(p) \/ CreateAccount(p) \/ Login(p) \/ RegisterNode(p))
    BY <2>1, <2>3 DEF Unreachable, ServerError, CreateAccount, Login, RegisterNode, ui
  <2>5. ~ (ServerInfo(p) \/ Me(p) \/ ListInBackground(p) \/ ListNodes(p) \/ DeleteNode(p) \/ Revoke(p))
    BY <2>1, <2>2, <2>3 DEF ServerInfo, Me, ListInBackground, ListNodes, DeleteNode, Revoke, ui
  <2>6. ~ Finished(p) /\ ~ Wiped(p)
    BY <2>3 DEF Finished, Wiped, ui
  <2>7. ~ (StoreKey(p) \/ SaveRecord(p) \/ CacheAccess(p) \/ CacheRefresh(p) \/ Wipe(p))
    BY <2>2, <2>3, <2>6 DEF StoreKey, SaveRecord, CacheAccess, CacheRefresh, Wipe, ui
  <2> QED
    BY <1>1, <2>4, <2>5, <2>7, ExpiredExcused DEF Step
<1>2. CASE Desktop
  BY <1>2 DEF Desktop, StartProvision, Cancel, OpenPanel, Dismiss, Logout, ForceLogout, Poll, SignIn,
              ui, Asks, Excused, Prompts
<1>3. CASE Router
  BY <1>3 DEF Router, CmdLogin, CmdRegister, CmdZone, CmdLogout, CmdLogoutForce, StartDaemon,
              StopDaemon, Cycle, ui, Asks
<1>4. CASE Surroundings
  BY <1>4 DEF Surroundings, Expire, GoOffline, GoOnline, Power, RevokeElsewhere, NodeGone, OtherDevice,
              ui, Asks, Prompts
<1> QED
  BY <1>1, <1>2, <1>3, <1>4 DEF Next, Procs

\* The user is asked for a password only when the cached session cannot be renewed: there is none,
\* the server does not take its refresh token, or a request or a write failed (LoadSession,
\* Client.do's silent refresh, removeRemoteNode).
THEOREM PromptsJustified == Spec => PromptJustified
<1>1. SessionInv /\ [Next]_vars =>
        [ screen \notin Prompts /\ screen' \in Prompts
          => \/ ring.acc = NoToken \/ ring.ref \notin live \/ cracked
             \/ ~ online \/ faults' # faults ]_vars
  BY AskingExcused DEF Asks, Excused
<1> QED
  BY <1>1, SessionInvariant, PTL DEF Spec, PromptJustified

=============================================================================
