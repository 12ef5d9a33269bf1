------------------------- MODULE RegistrationProofs -------------------------
(***************************************************************************)
(* Accounts are unique, and exactly those who signed up own a wallet, for  *)
(* any number of clients, emails, phone numbers and faults.                *)
(***************************************************************************)
EXTENDS Registration, TLAPS

(* What TypeOK leaves open: a request that signed up, once it committed,   *)
(* has the id of the row it inserted, so that the token it is issued is    *)
(* good                                                                    *)
CommittedOK ==
  \A c \in Clients :
    At(c, "committed") /\ client[c].kind = "signUp" =>
      \E u \in users : u.id = client[c].id /\ u.by = "signUp"

(* TokenHolders without its wallets, which OneWalletEach counts *)
TokenUsers ==
  \A id \in tokens : \E u \in users : u.id = id /\ (u.by = "create" => u.password = "hash")

AccountsInv == TypeOK /\ UniqueAccounts /\ OneWalletEach /\ CommittedOK /\ TokenUsers

-----------------------------------------------------------------------------
(* An insertion keeps accounts unique, whatever checkDuplicate read: the   *)
(* indexes are consulted by the statement itself.                          *)
LEMMA InsertUnique ==
  ASSUME TypeOK, UniqueAccounts, NEW c \in Clients, NEW id \in Ids, NEW password,
         InsertUser(c, id, password)
  PROVE  UniqueAccounts'
BY DEF InsertUser, IndexesAllow, EmailExists, PhoneExists, UniqueAccounts

LEMMA InitAccounts == Init => AccountsInv
BY DEF Init, AccountsInv, TypeOK, UniqueAccounts, OneWalletEach, CommittedOK, TokenUsers,
       At, Idle

(* The local variables of a client, by the step it is at *)
LEMMA ClientType ==
  ASSUME TypeOK, NEW c \in Clients
  PROVE  /\ At(c, "email") => client[c] \in Job
         /\ At(c, "checked") => client[c] \in Checked
         /\ At(c, "committed") => client[c] \in Committed
<1>1. client[c] \in Job \cup Checked \cup Committed \cup Answered \cup {Idle}
  BY DEF TypeOK
<1>2. /\ \A j \in Job : j.step = "email"
      /\ \A j \in Checked : j.step = "checked"
      /\ \A j \in Committed : j.step = "committed"
      /\ \A j \in Answered : j.step = "answered"
      /\ Idle.step = "idle"
  BY DEF Job, Checked, Committed, Answered, Idle
<1> QED BY <1>1, <1>2 DEF At

(* A step that touches no table leaves the tables' invariants alone; what  *)
(* it does to the clients must not pretend a commit.                       *)
LEMMA TablesUnchanged ==
  ASSUME AccountsInv, UNCHANGED <<users, wallets, tokens>>,
         TypeOK', \A c \in Clients : (At(c, "committed"))' => client'[c] = client[c]
  PROVE  AccountsInv'
<1>1. UniqueAccounts' /\ OneWalletEach' /\ TokenUsers'
  BY DEF AccountsInv, UniqueAccounts, OneWalletEach, TokenUsers
<1>2. CommittedOK'
  BY DEF AccountsInv, CommittedOK, At
<1> QED BY <1>1, <1>2 DEF AccountsInv

(* An answer is well typed, and ends the request *)
LEMMA AnswerStep ==
  ASSUME TypeOK, NEW c \in Clients, NEW status \in {201, 400, 500},
         client[c].kind \in Kinds, client[c].email \in Emails,
         client[c].phone \in GivenPhones, Answer(c, status)
  PROVE  /\ client' \in [Clients -> Job \cup Checked \cup Committed \cup Answered \cup {Idle}]
         /\ \A d \in Clients : (At(d, "committed"))' => client'[d] = client[d] /\ d # c
<1> DEFINE answer == [step |-> "answered", kind |-> client[c].kind,
                      email |-> client[c].email, phone |-> client[c].phone,
                      status |-> status]
<1>1. answer \in Answered /\ answer.step = "answered"
  BY DEF Answered
<1>2. client' = [client EXCEPT ![c] = answer]
  BY DEF Answer
<1> HIDE DEF answer
<1> QED BY <1>1, <1>2 DEF TypeOK, At

-----------------------------------------------------------------------------
LEMMA ReadEmailStep ==
  ASSUME AccountsInv, NEW c \in Clients, NEW kind \in Kinds, NEW e \in Emails,
         NEW p \in GivenPhones, ReadEmail(c, kind, e, p)
  PROVE  AccountsInv'
<1> DEFINE job == [step |-> "email", kind |-> kind, email |-> e, phone |-> p,
                   taken |-> EmailExists(e)]
<1>1. job \in Job /\ job.step = "email"
  <2>1. EmailExists(e) \in BOOLEAN
    BY DEF EmailExists
  <2> QED BY <2>1 DEF Job
<1>2. client' = [client EXCEPT ![c] = job]
  BY DEF ReadEmail
<1> HIDE DEF job
<1>3. \A d \in Clients : (At(d, "committed"))' => client'[d] = client[d]
  BY <1>1, <1>2 DEF AccountsInv, TypeOK, At
<1>4. TypeOK'
  BY <1>1, <1>2 DEF AccountsInv, TypeOK, ReadEmail
<1> QED BY <1>3, <1>4, TablesUnchanged DEF ReadEmail

LEMMA ReadPhoneStep ==
  ASSUME AccountsInv, NEW c \in Clients, ReadPhone(c)
  PROVE  AccountsInv'
<1>1. client[c] \in Job
  BY ClientType DEF ReadPhone, AccountsInv
<1>2. CASE Answer(c, 500) \/ Answer(c, 400)
  <2>1. /\ client' \in [Clients -> Job \cup Checked \cup Committed \cup Answered \cup {Idle}]
        /\ \A d \in Clients : (At(d, "committed"))' => client'[d] = client[d]
    BY <1>1, <1>2, AnswerStep DEF AccountsInv, Job
  <2>2. TypeOK'
    BY <2>1 DEF ReadPhone, AccountsInv, TypeOK
  <2> QED BY <2>1, <2>2, TablesUnchanged DEF ReadPhone
<1>3. CASE /\ client[c].phone # NoPhone /\ ~client[c].taken
           /\ client' = [client EXCEPT ![c].step = "checked"]
  <2>1. [client[c] EXCEPT !.step = "checked"] \in Checked
    BY <1>1, <1>3 DEF Job, Checked, GivenPhones
  <2>2. TypeOK'
    BY <1>3, <2>1 DEF ReadPhone, AccountsInv, TypeOK
  <2>3. \A d \in Clients : (At(d, "committed"))' => client'[d] = client[d]
    BY <1>1, <1>3 DEF AccountsInv, TypeOK, At, Job
  <2> QED BY <2>2, <2>3, TablesUnchanged DEF ReadPhone
<1> QED BY <1>2, <1>3 DEF ReadPhone

(* An insertion: the new row is typed, and who is new has no wallet yet *)
LEMMA InsertStep ==
  ASSUME AccountsInv, tokens' = tokens, NEW c \in Clients, NEW id \in Ids,
         NEW password \in Passwords, At(c, "checked"), InsertUser(c, id, password)
  PROVE  /\ users' \subseteq User
         /\ client' \in [Clients -> Job \cup Checked \cup Committed \cup Answered \cup {Idle}]
         /\ client'[c].kind = client[c].kind /\ client'[c].id = id
         /\ \A d \in Clients \ {c} : client'[d] = client[d]
         /\ wallets[id] = 0
         /\ \E u \in users' : u.id = id /\ u.by = client[c].kind
         /\ UniqueAccounts' /\ TokenUsers'
<1> DEFINE row == [id |-> id, email |-> client[c].email, phone |-> client[c].phone,
                   password |-> password, by |-> client[c].kind]
           done == [step |-> "committed", kind |-> client[c].kind,
                    email |-> client[c].email, phone |-> client[c].phone, id |-> id]
<1>1. client[c] \in Checked
  BY ClientType DEF AccountsInv
<1>2. row \in User /\ row.id = id /\ row.by = client[c].kind
      /\ done \in Committed /\ done.kind = client[c].kind /\ done.id = id
  BY <1>1 DEF Checked, User, Committed, InsertUser
<1>3. users' = users \cup {row} /\ client' = [client EXCEPT ![c] = done]
  BY DEF InsertUser
<1>4. wallets[id] = 0
  BY DEF AccountsInv, OneWalletEach, InsertUser
<1>5. UniqueAccounts'
  BY InsertUnique DEF AccountsInv
<1> HIDE DEF row, done
<1>6. TokenUsers'
  BY <1>3 DEF AccountsInv, TokenUsers
<1> QED BY <1>2, <1>3, <1>4, <1>5, <1>6 DEF AccountsInv, TypeOK

(* signUp inserts the user and the wallet in one transaction *)
LEMMA SignUpStep ==
  ASSUME AccountsInv, NEW c \in Clients, NEW id \in Ids, SignUpCommit(c, id)
  PROVE  AccountsInv'
<1>1. At(c, "checked") /\ client[c].kind = "signUp" /\ InsertUser(c, id, "hash")
  BY DEF SignUpCommit
<1>2. wallets' = [wallets EXCEPT ![id] = @ + 1] /\ tokens' = tokens /\ faults' = faults
  BY DEF SignUpCommit
<1>3. /\ users' \subseteq User
      /\ client' \in [Clients -> Job \cup Checked \cup Committed \cup Answered \cup {Idle}]
      /\ client'[c].id = id
      /\ \A d \in Clients \ {c} : client'[d] = client[d]
      /\ wallets[id] = 0
      /\ \E u \in users' : u.id = id /\ u.by = "signUp"
      /\ UniqueAccounts' /\ TokenUsers'
  BY <1>1, <1>2, InsertStep DEF Passwords
<1>4. wallets \in [Ids -> Nat] /\ wallets'[id] = 1
  BY <1>2, <1>3 DEF AccountsInv, TypeOK
<1>5. TypeOK'
  BY <1>2, <1>3, <1>4 DEF AccountsInv, TypeOK
<1>6. OneWalletEach'
  <2> SUFFICES ASSUME NEW i \in Ids
               PROVE  (wallets[i] = IF \E u \in users : u.id = i /\ u.by = "signUp"
                                      THEN 1 ELSE 0)'
    BY DEF OneWalletEach
  <2>1. CASE i = id
    BY <1>3, <1>4, <2>1
  <2>2. CASE i # id
    BY <1>1, <1>2, <1>4, <2>2 DEF InsertUser, AccountsInv, OneWalletEach
  <2> QED BY <2>1, <2>2
<1>7. CommittedOK'
  <2> SUFFICES ASSUME NEW d \in Clients, (At(d, "committed") /\ client[d].kind = "signUp")'
               PROVE  \E u \in users' : u.id = client'[d].id /\ u.by = "signUp"
    BY DEF CommittedOK
  <2>1. CASE d = c
    BY <1>3, <2>1
  <2>2. CASE d # c
    <3>1. client'[d] = client[d]
      BY <1>3, <2>2
    <3> QED BY <1>1, <3>1 DEF AccountsInv, CommittedOK, At, InsertUser
  <2> QED BY <2>1, <2>2
<1> QED BY <1>3, <1>5, <1>6, <1>7 DEF AccountsInv

(* UsersService.create: a user that owns nothing *)
LEMMA CreateStep ==
  ASSUME AccountsInv, NEW c \in Clients, NEW id \in Ids, NEW password \in Passwords,
         CreateCommit(c, id, password)
  PROVE  AccountsInv'
<1>1. At(c, "checked") /\ client[c].kind = "create" /\ InsertUser(c, id, password)
  BY DEF CreateCommit
<1>2. wallets' = wallets /\ tokens' = tokens /\ faults' = faults
  BY DEF CreateCommit
<1>3. /\ users' \subseteq User
      /\ client' \in [Clients -> Job \cup Checked \cup Committed \cup Answered \cup {Idle}]
      /\ client'[c].kind = "create"
      /\ \A d \in Clients \ {c} : client'[d] = client[d]
      /\ UniqueAccounts' /\ TokenUsers'
  BY <1>1, <1>2, InsertStep
<1>4. TypeOK'
  BY <1>2, <1>3 DEF AccountsInv, TypeOK
<1>5. OneWalletEach'
  BY <1>1, <1>2 DEF InsertUser, AccountsInv, OneWalletEach
<1>6. CommittedOK'
  BY <1>1, <1>3 DEF AccountsInv, CommittedOK, At, InsertUser
<1> QED BY <1>3, <1>4, <1>5, <1>6 DEF AccountsInv

LEMMA InsertFailsStep ==
  ASSUME AccountsInv, NEW c \in Clients, InsertFails(c)
  PROVE  AccountsInv'
<1>1. client[c] \in Checked
  BY ClientType DEF InsertFails, AccountsInv
<1>2. /\ client' \in [Clients -> Job \cup Checked \cup Committed \cup Answered \cup {Idle}]
      /\ \A d \in Clients : (At(d, "committed"))' => client'[d] = client[d]
  <2>1. client[c].kind \in Kinds /\ client[c].email \in Emails
        /\ client[c].phone \in GivenPhones
    BY <1>1 DEF Checked, GivenPhones
  <2>2. TypeOK /\ Answer(c, 500)
    BY DEF InsertFails, AccountsInv
  <2> QED BY <2>1, <2>2, AnswerStep
<1>3. TypeOK'
  BY <1>2 DEF InsertFails, Fault, AccountsInv, TypeOK
<1> QED BY <1>2, <1>3, TablesUnchanged DEF InsertFails

(* The token goes to the id of the row that the commit left behind *)
LEMMA CreatedStep ==
  ASSUME AccountsInv, NEW c \in Clients, Created(c)
  PROVE  AccountsInv'
<1>1. client[c] \in Committed
  BY ClientType DEF Created, AccountsInv
<1>2. /\ client' \in [Clients -> Job \cup Checked \cup Committed \cup Answered \cup {Idle}]
      /\ \A d \in Clients : (At(d, "committed"))' => client'[d] = client[d]
  <2>1. client[c].kind \in Kinds /\ client[c].email \in Emails
        /\ client[c].phone \in GivenPhones
    BY <1>1 DEF Committed, GivenPhones
  <2>2. TypeOK /\ Answer(c, 201)
    BY DEF Created, AccountsInv
  <2> QED BY <2>1, <2>2, AnswerStep
<1>3. users' = users /\ wallets' = wallets /\ faults' = faults
  BY DEF Created
<1>4. \A id \in tokens' :
        \/ id \in tokens
        \/ id = client[c].id /\ client[c].kind = "signUp"
  <2>1. CASE client[c].kind = "signUp"
    BY <2>1 DEF Created
  <2>2. CASE client[c].kind # "signUp"
    BY <2>2 DEF Created
  <2> QED BY <2>1, <2>2
<1>5. TokenUsers'
  BY <1>3, <1>4 DEF AccountsInv, TokenUsers, CommittedOK, Created
<1>6. TypeOK'
  BY <1>1, <1>2, <1>3, <1>4 DEF AccountsInv, TypeOK, Committed
<1>7. UniqueAccounts' /\ OneWalletEach' /\ CommittedOK'
  BY <1>2, <1>3 DEF AccountsInv, UniqueAccounts, OneWalletEach, CommittedOK, At
<1> QED BY <1>5, <1>6, <1>7 DEF AccountsInv

(* Whoever signs in exists, and what his row stores is a hash *)
LEMMA SignInStep ==
  ASSUME AccountsInv, NEW e \in Emails, SignIn(e)
  PROVE  AccountsInv'
<1>1. PICK u \in users : u.password = "hash" /\ tokens' = tokens \cup {u.id}
  BY DEF SignIn, PasswordMatches
<1>2. u.id \in Ids
  BY <1>1 DEF AccountsInv, TypeOK, User
<1>3. UNCHANGED <<users, wallets, client, faults>>
  BY DEF SignIn
<1> QED
  BY <1>1, <1>2, <1>3 DEF AccountsInv, TypeOK, UniqueAccounts, OneWalletEach, CommittedOK,
                          TokenUsers, At

LEMMA CrashStep ==
  ASSUME AccountsInv, Crash
  PROVE  AccountsInv'
<1>1. \A d \in Clients : client'[d] = Idle /\ ~(At(d, "committed"))'
  BY DEF Crash, At, Idle
<1>2. TypeOK'
  BY DEF Crash, Fault, AccountsInv, TypeOK
<1> QED BY <1>1, <1>2, TablesUnchanged DEF Crash

LEMMA StepAccounts == AccountsInv /\ [Next]_vars => AccountsInv'
<1> SUFFICES ASSUME AccountsInv, [Next]_vars PROVE AccountsInv'
  OBVIOUS
<1>1. CASE Next
  BY <1>1, ReadEmailStep, ReadPhoneStep, SignUpStep, CreateStep, InsertFailsStep,
     CreatedStep, SignInStep, CrashStep DEF Next
<1>2. CASE UNCHANGED vars
  BY <1>2 DEF vars, AccountsInv, TypeOK, UniqueAccounts, OneWalletEach, CommittedOK,
              TokenUsers, At
<1> QED BY <1>1, <1>2

LEMMA AccountsInductive == Spec => []AccountsInv
BY InitAccounts, StepAccounts, PTL DEF Spec

-----------------------------------------------------------------------------
(* checkDuplicate may race; the unique indexes keep accounts apart *)
THEOREM AccountsUnique == Spec => []UniqueAccounts
<1>1. AccountsInv => UniqueAccounts
  BY DEF AccountsInv
<1> QED BY <1>1, AccountsInductive, PTL

(* Who signed up owns one wallet, and nobody else does *)
THEOREM OneWalletForEach == Spec => []OneWalletEach
<1>1. AccountsInv => OneWalletEach
  BY DEF AccountsInv
<1> QED BY <1>1, AccountsInductive, PTL

(* A token, of a sign-up or a sign-in, belongs to a user: to the owner of *)
(* a wallet if he signed up, else to one without a wallet, made by POST    *)
(* /users with a hash for a password                                       *)
THEOREM TokensHaveHolders == Spec => []TokenHolders
<1>1. AccountsInv => TokenHolders
  <2> SUFFICES ASSUME AccountsInv, NEW id \in tokens
               PROVE  \E u \in users :
                        /\ u.id = id
                        /\ u.by = "signUp" => wallets[id] = 1
                        /\ u.by = "create" => wallets[id] = 0 /\ u.password = "hash"
    BY DEF TokenHolders
  <2>1. PICK u \in users : u.id = id /\ (u.by = "create" => u.password = "hash")
    BY DEF AccountsInv, TokenUsers
  <2>2. \A v \in users : v.id = id => v = u
    BY <2>1 DEF AccountsInv, UniqueAccounts
  <2>3. wallets[id] = IF u.by = "signUp" THEN 1 ELSE 0
    BY <2>1, <2>2 DEF AccountsInv, OneWalletEach, TypeOK
  <2> QED BY <2>1, <2>3
<1> QED BY <1>1, AccountsInductive, PTL

(* Requests and rows keep their shape: a missing phone number ends at the  *)
(* second read, and null at the INSERT                                     *)
THEOREM AccountsTyped == Spec => []TypeOK
<1>1. AccountsInv => TypeOK
  BY DEF AccountsInv
<1> QED BY <1>1, AccountsInductive, PTL

(* checkDuplicate remembers across an await that it found the email: the   *)
(* user it found is still there, because nothing deletes users             *)
THEOREM RefusalsHaveReason == Spec => []RefusedWithReason
<1> DEFINE FoundEmail ==
      \A c \in Clients : At(c, "email") /\ client[c].taken => EmailExists(client[c].email)
<1>1. Init => FoundEmail /\ RefusedWithReason
  BY DEF Init, RefusedWithReason, At, Idle
<1>2. TypeOK /\ FoundEmail /\ RefusedWithReason /\ [Next]_vars =>
        (FoundEmail /\ RefusedWithReason)'
  <2> SUFFICES ASSUME TypeOK, FoundEmail, RefusedWithReason, [Next]_vars
               PROVE  FoundEmail' /\ RefusedWithReason'
    OBVIOUS
  <2>0. users \subseteq users'
    BY DEF Next, vars, ReadEmail, ReadPhone, SignUpCommit, CreateCommit, InsertUser,
           InsertFails, Created, SignIn, Crash
  <2>1. ASSUME NEW c \in Clients, \A d \in Clients \ {c} : client'[d] = client[d],
               (At(c, "email") /\ client[c].taken => EmailExists(client[c].email))',
               (At(c, "answered") /\ client[c].status = 400 =>
                 \E u \in users : u.email = client[c].email \/ u.phone = client[c].phone)'
        PROVE  FoundEmail' /\ RefusedWithReason'
    BY <2>0, <2>1 DEF RefusedWithReason, At, EmailExists
  <2>2. CASE UNCHANGED client
    BY <2>0, <2>2 DEF RefusedWithReason, At, EmailExists
  <2>3. ASSUME NEW c \in Clients, NEW status \in {201, 500}, Answer(c, status)
        PROVE  FoundEmail' /\ RefusedWithReason'
    BY <2>1, <2>3 DEF Answer, At, TypeOK
  <2>4. ASSUME NEW c \in Clients, NEW kind \in Kinds, NEW e \in Emails,
               NEW p \in GivenPhones, ReadEmail(c, kind, e, p)
        PROVE  FoundEmail' /\ RefusedWithReason'
    BY <2>1, <2>4 DEF ReadEmail, At, TypeOK, EmailExists
  <2>5. ASSUME NEW c \in Clients, ReadPhone(c) PROVE FoundEmail' /\ RefusedWithReason'
    <3>1. CASE Answer(c, 500)
      BY <2>3, <3>1
    <3>2. CASE Answer(c, 400) /\ (client[c].taken \/ PhoneExists(client[c].phone))
      <4>1. EmailExists(client[c].email) \/ PhoneExists(client[c].phone)
        BY <2>5, <3>2 DEF ReadPhone
      <4> QED
        BY <2>1, <2>5, <3>2, <4>1 DEF ReadPhone, Answer, At, TypeOK, EmailExists, PhoneExists
    <3>3. CASE client' = [client EXCEPT ![c].step = "checked"]
      BY <2>1, <3>3, ClientType, <2>5 DEF ReadPhone, At, TypeOK, Job
    <3> QED BY <2>5, <3>1, <3>2, <3>3 DEF ReadPhone
  <2>6. ASSUME NEW c \in Clients, NEW id \in Ids, NEW password \in Passwords,
               SignUpCommit(c, id) \/ CreateCommit(c, id, password)
        PROVE  FoundEmail' /\ RefusedWithReason'
    BY <2>1, <2>6 DEF SignUpCommit, CreateCommit, InsertUser, At, TypeOK
  <2>60. \A c \in Clients, id \in Ids : SignUpCommit(c, id) => FoundEmail' /\ RefusedWithReason'
    BY <2>6 DEF Passwords
  <2>7. ASSUME NEW c \in Clients, InsertFails(c) \/ Created(c)
        PROVE  FoundEmail' /\ RefusedWithReason'
    BY <2>3, <2>7 DEF InsertFails, Created
  <2>8. CASE \E e \in Emails : SignIn(e)
    BY <2>2, <2>8 DEF SignIn
  <2>9. CASE Crash
    BY <2>9 DEF Crash, RefusedWithReason, At, Idle
  <2> QED
    BY <2>2, <2>4, <2>5, <2>6, <2>60, <2>7, <2>8, <2>9 DEF Next, vars
<1>3. AccountsInv => TypeOK
  BY DEF AccountsInv
<1>4. Spec => [](FoundEmail /\ RefusedWithReason)
  <2> HIDE DEF FoundEmail
  <2> QED BY <1>1, <1>2, <1>3, AccountsInductive, PTL DEF Spec
<1> QED BY <1>4, PTL
=============================================================================
