---------------------------- MODULE Registration ----------------------------
(***************************************************************************)
(* How users and wallets come to be: AuthService.signUp and signIn         *)
(* (src/modules/auth/auth.service.ts), the unguarded POST /users           *)
(* (src/modules/users), and the unique indexes of the users table.         *)
(*                                                                         *)
(* checkDuplicate makes two reads, each an await; the insert comes later   *)
(* still.  client[c] is the request a client makes, and then its answer.   *)
(***************************************************************************)
EXTENDS Naturals

CONSTANTS
  Clients,   \* requests served at the same time
  Emails,
  Phones,
  NoPhone,   \* phoneNumber is optional in RegisterDto and CreateUserDto:
  NullPhone, \* it may be missing, and it may be null
  Ids,       \* the values of users.id; enough for every email
  MaxFaults  \* bound: database errors and crashes

ASSUME PhoneAssumption == NoPhone \notin Phones /\ NullPhone \notin Phones /\ NoPhone # NullPhone

VARIABLES
  users,    \* the rows of the users table
  wallets,  \* how many rows of the wallets table belong to a user
  client,
  tokens,   \* the ids that JWTs were issued for
  faults

vars == <<users, wallets, client, tokens, faults>>

Kinds == {"signUp", "create"}  \* POST /auth/sign-up and POST /users

GivenPhones == Phones \cup {NoPhone, NullPhone}

(* bcrypt makes a hash of a password; a client may also send a string that *)
(* is one                                                                  *)
Passwords == {"hash", "plain"}

(* by is history: the request the row came with *)
User == [id : Ids, email : Emails, phone : Phones, password : Passwords, by : Kinds]

Idle == [step |-> "idle"]
Job == [step : {"email"}, kind : Kinds, email : Emails,
        phone : GivenPhones, taken : BOOLEAN]
Checked == [step : {"checked"}, kind : Kinds, email : Emails,
            phone : Phones \cup {NullPhone}, taken : {FALSE}]
Committed == [step : {"committed"}, kind : Kinds, email : Emails, phone : Phones, id : Ids]
Answered == [step : {"answered"}, kind : Kinds, email : Emails, phone : GivenPhones,
             status : {201, 400, 500}]

TypeOK ==
  /\ users \subseteq User
  /\ wallets \in [Ids -> Nat]
  /\ client \in [Clients -> Job \cup Checked \cup Committed \cup Answered \cup {Idle}]
  /\ tokens \subseteq Ids
  /\ faults \in Nat

Init ==
  /\ users = {}
  /\ wallets = [id \in Ids |-> 0]
  /\ client = [c \in Clients |-> Idle]
  /\ tokens = {}
  /\ faults = 0

At(c, step) == client[c].step = step
Fault == faults < MaxFaults /\ faults' = faults + 1

AnyUserExists(e) == users # {}  \* mutant: the where clause is lost
EmailExists(e) == \E u \in users : u.email = e
PhoneExists(p) == \E u \in users : u.phone = p

(* The request ends, and tells the client how *)
Answer(c, status) ==
  client' = [client EXCEPT ![c] =
    [step |-> "answered", kind |-> client[c].kind, email |-> client[c].email,
     phone |-> client[c].phone, status |-> status]]

(* checkDuplicate, first read *)
ReadEmail(c, kind, e, p) ==
  /\ At(c, "idle") \/ At(c, "answered")
  /\ client' = [client EXCEPT ![c] =
       [step |-> "email", kind |-> kind, email |-> e, phone |-> p, taken |-> EmailExists(e)]]
  /\ UNCHANGED <<users, wallets, tokens, faults>>

(* mutant: a missing number reaches the second read and the INSERT *)
ReadAnyPhone(c) ==
  /\ At(c, "email")
  /\ \/ (client[c].taken \/ PhoneExists(client[c].phone)) /\ Answer(c, 400)
     \/ /\ ~client[c].taken /\ ~PhoneExists(client[c].phone)
        /\ client' = [client EXCEPT ![c].step = "checked"]
  /\ UNCHANGED <<users, wallets, tokens, faults>>

(* checkDuplicate, second read: knex refuses a where clause of undefined,  *)
(* and makes IS NULL of null, which is true of no row                      *)
ReadPhone(c) ==
  /\ At(c, "email")
  /\ \/ client[c].phone = NoPhone /\ Answer(c, 500)
     \/ /\ client[c].phone # NoPhone
        /\ client[c].taken \/ PhoneExists(client[c].phone)
        /\ Answer(c, 400)
     \/ /\ client[c].phone # NoPhone
        /\ ~client[c].taken /\ ~PhoneExists(client[c].phone)
        /\ client' = [client EXCEPT ![c].step = "checked"]
  /\ UNCHANGED <<users, wallets, tokens, faults>>

NoIndex(e, p) == TRUE  \* mutant: the columns have no unique index

(* The unique indexes on users.email and users.phoneNumber *)
IndexesAllow(e, p) == ~EmailExists(e) /\ ~PhoneExists(p)

(* INSERT INTO users, with an id that was never used; phoneNumber is NOT NULL *)
InsertUser(c, id, password) ==
  LET job == client[c] IN
  /\ \A u \in users : u.id # id
  /\ job.phone # NullPhone
  /\ IndexesAllow(job.email, job.phone)
  /\ users' = users \cup {[id |-> id, email |-> job.email, phone |-> job.phone,
                           password |-> password, by |-> job.kind]}
  /\ client' = [client EXCEPT ![c] =
       [step |-> "committed", kind |-> job.kind, email |-> job.email,
        phone |-> job.phone, id |-> id]]

(* mutant: the two inserts are not one transaction *)
InsertsApart(c, id) ==
  /\ At(c, "checked")
  /\ client[c].kind = "signUp"
  /\ InsertUser(c, id, "hash")
  /\ \/ wallets' = [wallets EXCEPT ![id] = @ + 1] /\ UNCHANGED faults
     \/ UNCHANGED wallets /\ Fault
  /\ UNCHANGED tokens

(* signUp: the knex transaction inserts the user and then the wallet *)
SignUpCommit(c, id) ==
  /\ At(c, "checked")
  /\ client[c].kind = "signUp"
  /\ InsertUser(c, id, "hash")
  /\ wallets' = [wallets EXCEPT ![id] = @ + 1]
  /\ UNCHANGED <<tokens, faults>>

(* UsersService.create stores the password as it came, and no wallet *)
CreateCommit(c, id, password) ==
  /\ At(c, "checked")
  /\ client[c].kind = "create"
  /\ InsertUser(c, id, password)
  /\ UNCHANGED <<wallets, tokens, faults>>

(* password is optional in CreateUserDto, and NOT NULL in the table *)
MayLackPassword(c) == client[c].kind = "create"

(* The insert is refused: by an index, for the want of a number or a       *)
(* password, or by MySQL for a reason of its own                           *)
InsertFails(c) ==
  /\ At(c, "checked")
  /\ \/ ~IndexesAllow(client[c].email, client[c].phone) /\ UNCHANGED faults
     \/ client[c].phone = NullPhone /\ UNCHANGED faults
     \/ MayLackPassword(c) /\ UNCHANGED faults
     \/ Fault
  /\ Answer(c, 500)
  /\ UNCHANGED <<users, wallets, tokens>>

(* signUp signs a token and reads the user back; create only answers *)
Created(c) ==
  /\ At(c, "committed")
  /\ Answer(c, 201)
  /\ tokens' = IF client[c].kind = "signUp" THEN tokens \cup {client[c].id} ELSE tokens
  /\ UNCHANGED <<users, wallets, faults>>

AnyPassword(u) == TRUE  \* mutant: the result of compare is not awaited

(* bcrypt.compare accepts nothing for a stored password that is no hash,   *)
(* and for a hash what it was made of, whoever made it                     *)
PasswordMatches(u) == u.password = "hash"

SignIn(e) ==
  /\ \E u \in users : u.email = e /\ PasswordMatches(u) /\ tokens' = tokens \cup {u.id}
  /\ UNCHANGED <<users, wallets, client, faults>>

Crash ==
  /\ Fault
  /\ client' = [c \in Clients |-> Idle]
  /\ UNCHANGED <<users, wallets, tokens>>

Next ==
  \/ \E c \in Clients :
       \/ \E kind \in Kinds, e \in Emails, p \in GivenPhones :
            ReadEmail(c, kind, e, p)
       \/ ReadPhone(c)
       \/ \E id \in Ids : SignUpCommit(c, id)
       \/ \E id \in Ids, password \in Passwords : CreateCommit(c, id, password)
       \/ InsertFails(c)
       \/ Created(c)
  \/ \E e \in Emails : SignIn(e)
  \/ Crash

Spec == Init /\ [][Next]_vars

-----------------------------------------------------------------------------
(* checkDuplicate races with other requests; the indexes do not: no two    *)
(* users share an email or a phone number.                                 *)
UniqueAccounts ==
  \A u, v \in users : u.email = v.email \/ u.phone = v.phone \/ u.id = v.id => u = v

(* Who signed up owns one wallet, whatever failed on the way; who came by  *)
(* POST /users, and who does not exist, owns none.                         *)
OneWalletEach ==
  \A id \in Ids :
    wallets[id] = IF \E u \in users : u.id = id /\ u.by = "signUp" THEN 1 ELSE 0

(* Who holds a token exists, and owns a wallet if he signed up, also when  *)
(* the sign-up raced, failed half-way or was never answered.  Who came by  *)
(* POST /users gets one only where the password sent was a hash already,   *)
(* and then no wallet goes with it: findUserWallet finds none and his      *)
(* every request fails.  Who sent a plain password never gets one.         *)
TokenHolders ==
  \A id \in tokens :
    \E u \in users :
      /\ u.id = id
      /\ u.by = "signUp" => wallets[id] = 1
      /\ u.by = "create" => wallets[id] = 0 /\ u.password = "hash"

(* checkDuplicate refuses nobody without a reason: a request answered with *)
(* 400 named the email or the phone number of an existing user.            *)
RefusedWithReason ==
  \A c \in Clients :
    At(c, "answered") /\ client[c].status = 400 =>
      \E u \in users : u.email = client[c].email \/ u.phone = client[c].phone
=============================================================================
