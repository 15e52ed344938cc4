---------------------------- MODULE Owners_proofs ----------------------------
(***************************************************************************)
(* About how an owner comes to his account and to his store, for any       *)
(* number of callers, tabs, spellings, rows and requests.  Whoever holds   *)
(* tokens is verified, codes and refresh tokens serve once, and sign-ins   *)
(* of one Google identity keep to one account; a live store wears one      *)
(* theme and its logo is there, and only a request that was overtaken      *)
(* walks back.                                                             *)
(***************************************************************************)
EXTENDS Accounts, SiteBuilder, FiniteSetTheorems, SequenceTheorems, Sums_proofs

-----------------------------------------------------------------------------
\* The accounts of Accounts.

AccountSpec == InitAccounts /\ [][NextAccounts]_accountVars

UserRow == [there : BOOLEAN, email : Address, password : BOOLEAN, google : BOOLEAN, verified : BOOLEAN]

\* Tokens may be issued for the row of this id: it is verified, or gone for good.
Vouched(u) == u \in User /\ u <= lastUser /\ (users[u].there => users[u].verified)

\* Ids are given in order, and Google's accounts are verified.
RowsInv ==
    /\ users \in [User -> UserRow]
    /\ lastUser \in Nat
    /\ \A u \in User : users[u].there => u <= lastUser
    /\ \A u \in User : users[u].there /\ users[u].google => users[u].verified

\* Tokens are issued for verified rows, and one that has served is deleted.
TokensInv ==
    /\ issued \in Seq(User)
    /\ \A j \in 1..Len(issued) : Vouched(issued[j])
    /\ refresh \subseteq 1..Len(issued)
    /\ \A j : <<"token", j>> \in spent => j \in (1..Len(issued)) \ refresh

\* The key an address's code of this request is kept under.
KeyFor(r) == <<IF r.op \in {"forgot", "reset"} THEN "reset-password" ELSE "verify-email", r.email>>

\* A request that has a code in memory.
HasCode(r) == r.phase = "mail" \/ (r.phase \in {"find", "save", "burn"} /\ r.op \in {"verify", "reset"})

\* Where code k of a key is found: in Redis, in a mail, in a request.
Around(key, k) ==
    \/ key \in Purpose \X Address /\ codes[key] = k /\ k # 0
    \/ [key |-> key, code |-> k] \in inbox
    \/ \E c \in Client : HasCode(request[c]) /\ KeyFor(request[c]) = key /\ request[c].code = k

\* A code belongs to one key, and one that has served is deleted.
CodesInv ==
    /\ codes \in [Purpose \X Address -> Nat]
    /\ lastCode \in Nat
    /\ inbox \subseteq [key : Purpose \X Address, code : Nat]
    /\ \A key, k : Around(key, k) => k \in 1..lastCode
    /\ \A key, other, k : Around(key, k) /\ Around(other, k) => key = other
    /\ \A k : <<"code", k>> \in spent =>
         k \in 1..lastCode /\ \A key \in Purpose \X Address : codes[key] # k

\* What a request has in memory.
AsksForCode(r) ==
    /\ r.op \in {"register", "resend", "forgot"}
    /\ r.phase \in {"insert", "cool", "find", "code", "mail", "undo", "undo-code"}
    /\ {"email", "code"} \subseteq DOMAIN r
    /\ r.email \in Address

EntersCode(r) ==
    /\ r.op \in {"verify", "reset"}
    /\ r.phase \in {"find", "save", "burn"}
    /\ {"email", "code", "before"} \subseteq DOMAIN r
    /\ r.email \in Address
    /\ <<"code", r.code>> \notin r.before
    /\ r.phase = "save" =>
         {"user", "row"} \subseteq DOMAIN r /\ r.row \in UserRow /\ r.user \in User /\ r.user <= lastUser

SignsIn(r) ==
    /\ r.op \in {"login", "google"}
    /\ r.phase \in {"by-email", "link", "create", "winner", "issue"}
    /\ "user" \in DOMAIN r
    /\ r.phase = "link" =>
         "row" \in DOMAIN r /\ r.row \in UserRow /\ r.user \in User /\ r.user <= lastUser
    /\ r.phase = "issue" => Vouched(r.user)

ChangesPassword(r) ==
    /\ r.op = "password"
    /\ r.phase = "save"
    /\ {"user", "row"} \subseteq DOMAIN r
    /\ r.row \in UserRow /\ r.row.verified /\ r.user \in User /\ r.user <= lastUser

Rotates(r) ==
    /\ r.op = "rotate"
    /\ r.phase \in {"delete", "reload", "issue"}
    /\ {"jti", "user", "before"} \subseteq DOMAIN r
    /\ r.jti \in 1..Len(issued) /\ r.user = issued[r.jti]
    /\ <<"token", r.jti>> \notin r.before

RequestOK(r) ==
    \/ r = NoRequest
    \/ /\ {"op", "phase"} \subseteq DOMAIN r
       /\ AsksForCode(r) \/ EntersCode(r) \/ SignsIn(r) \/ ChangesPassword(r) \/ Rotates(r)

AccountsInv ==
    /\ RowsInv /\ TokensInv /\ CodesInv
    /\ DOMAIN request = Client
    /\ \A c \in Client : RequestOK(request[c])

-----------------------------------------------------------------------------
\* The operators of the model.

\* The first of some rows is one of them, and none only if there are none.
LEMMA FirstIsThere ==
    ASSUME NEW rows, rows \subseteq User
    PROVE  /\ rows # {} => First(rows) \in rows /\ First(rows) # NoRow
           /\ rows = {} => First(rows) = NoRow
<1>1. 0 \notin User /\ User \subseteq Nat
  BY AccountBounds DEF User
<1>2. rows # {} => \E u \in rows : \A v \in rows : u <= v
  BY <1>1, LeastOf
<1>3. QED
  BY <1>1, <1>2 DEF First, NoRow

\* A request that is opened holds what it was given, its name and where it is.
LEMMA OpenedRequest ==
    ASSUME NEW c \in Client, NEW op, NEW phase, NEW memory, DOMAIN request = Client,
           Open(c, op, phase, memory), {"op", "phase"} \cap DOMAIN memory = {}
    PROVE  /\ DOMAIN request' = Client
           /\ \A d \in Client \ {c} : request'[d] = request[d]
           /\ DOMAIN request'[c] = DOMAIN memory \cup {"op", "phase"}
           /\ request'[c].op = op /\ request'[c].phase = phase
           /\ \A f \in DOMAIN memory : request'[c][f] = memory[f]
<1> DEFINE named == [op |-> op, phase |-> phase]
           t == Spread(memory, named)
<1>1. request' = [request EXCEPT ![c] = t]
  BY DEF Open
<1>2. DOMAIN named = {"op", "phase"} /\ named["op"] = op /\ named["phase"] = phase
  OBVIOUS
<1> HIDE DEF named
<1>3. /\ DOMAIN t = DOMAIN memory \cup {"op", "phase"}
      /\ \A f \in DOMAIN memory : t[f] = memory[f]
      /\ \A f \in {"op", "phase"} : t[f] = named[f]
  BY <1>2 DEF Spread
<1> HIDE DEF t
<1>4. t.op = op /\ t.phase = phase
  BY <1>2, <1>3
<1>5. QED
  BY <1>1, <1>3, <1>4

\* A request that goes on keeps what it has, but for what it learns.
LEMMA KeptRequest ==
    ASSUME NEW c \in Client, NEW phase, NEW memory, DOMAIN request = Client,
           Keeps(c, phase, memory), {"op", "phase"} \cap DOMAIN memory = {},
           {"op", "phase"} \subseteq DOMAIN request[c]
    PROVE  /\ DOMAIN request' = Client
           /\ \A d \in Client \ {c} : request'[d] = request[d]
           /\ DOMAIN request'[c] = DOMAIN memory \cup DOMAIN request[c]
           /\ request'[c].op = request[c].op /\ request'[c].phase = phase
           /\ \A f \in DOMAIN memory : request'[c][f] = memory[f]
           /\ \A f \in DOMAIN request[c] \ (DOMAIN memory \cup {"phase"}) : request'[c][f] = request[c][f]
<1> DEFINE moved == [request[c] EXCEPT !.phase = phase]
           t == Spread(memory, moved)
<1>1. request' = [request EXCEPT ![c] = t]
  BY DEF Keeps
<1>2. /\ DOMAIN moved = DOMAIN request[c] /\ moved["phase"] = phase
      /\ \A f \in DOMAIN request[c] \ {"phase"} : moved[f] = request[c][f]
  OBVIOUS
<1> HIDE DEF moved
<1>3. /\ DOMAIN t = DOMAIN memory \cup DOMAIN request[c]
      /\ \A f \in DOMAIN memory : t[f] = memory[f]
      /\ \A f \in DOMAIN request[c] \ DOMAIN memory : t[f] = moved[f]
  BY <1>2 DEF Spread
<1> HIDE DEF t
<1>4. t["op"] = request[c]["op"] /\ t["phase"] = phase
  BY <1>2, <1>3
<1>5. QED
  BY <1>1, <1>2, <1>3, <1>4

LEMMA MovedRequest ==
    ASSUME NEW c \in Client, NEW phase, DOMAIN request = Client, GoesTo(c, phase),
           {"op", "phase"} \subseteq DOMAIN request[c]
    PROVE  /\ DOMAIN request' = Client
           /\ \A d \in Client \ {c} : request'[d] = request[d]
           /\ DOMAIN request'[c] = DOMAIN request[c]
           /\ request'[c].op = request[c].op /\ request'[c].phase = phase
           /\ \A f \in DOMAIN request[c] \ {"phase"} : request'[c][f] = request[c][f]
<1> DEFINE t == [request[c] EXCEPT !.phase = phase]
<1>1. request' = [request EXCEPT ![c] = t]
  BY DEF GoesTo
<1>2. /\ DOMAIN t = DOMAIN request[c] /\ t.phase = phase /\ t.op = request[c].op
      /\ \A f \in DOMAIN request[c] \ {"phase"} : t[f] = request[c][f]
  OBVIOUS
<1> HIDE DEF t
<1>3. QED
  BY <1>1, <1>2

LEMMA ClosedRequest ==
    ASSUME NEW c \in Client, DOMAIN request = Client, Close(c)
    PROVE  /\ DOMAIN request' = Client /\ request'[c] = NoRequest
           /\ \A d \in Client \ {c} : request'[d] = request[d]
BY DEF Close

-----------------------------------------------------------------------------
\* What a step leaves as it was.

\* Whoever is vouched for stays so, and issued tokens stay issued.
UsersGrow == lastUser <= lastUser' /\ \A u : Vouched(u) => Vouched(u)'
TokensGrow == Len(issued) <= Len(issued') /\ \A j \in 1..Len(issued) : issued'[j] = issued[j]

LEMMA UsersRemain ==
    ASSUME RowsInv, UNCHANGED <<users, lastUser>>
    PROVE  RowsInv' /\ UsersGrow
BY DEF RowsInv, UsersGrow, Vouched

\* A row that is saved is verified, or it is removed.
LEMMA UserSaved ==
    ASSUME RowsInv, NEW u, NEW row \in UserRow, users' = [users EXCEPT ![u] = row], lastUser' = lastUser,
           row.there => row.verified /\ u <= lastUser
    PROVE  RowsInv' /\ UsersGrow
<1>1. \A v \in User : users'[v] = IF v = u THEN row ELSE users[v]
  BY DEF RowsInv
<1>2. RowsInv'
  BY <1>1 DEF RowsInv
<1>3. UsersGrow
  BY <1>1 DEF RowsInv, UsersGrow, Vouched
<1>4. QED
  BY <1>2, <1>3

\* A new row has an id that nobody was given.
LEMMA UserInserted ==
    ASSUME RowsInv, NEW row \in UserRow, InsertUser(row), row.google => row.verified
    PROVE  RowsInv' /\ UsersGrow /\ NextId \in User /\ NextId = lastUser' /\ users'[NextId] = row
<1>1. /\ lastUser' = lastUser + 1 /\ NextId = lastUser + 1 /\ NextId \in User
      /\ \A v \in User : users'[v] = IF v = NextId THEN row ELSE users[v]
  BY DEF RowsInv, InsertUser, NextId
<1>2. RowsInv'
  <2>1. users' \in [User -> UserRow] /\ lastUser' \in Nat
    BY <1>1 DEF RowsInv, InsertUser
  <2>2. QED
    BY <1>1, <2>1, AccountBounds DEF RowsInv, User
<1>3. UsersGrow
  BY <1>1, AccountBounds DEF RowsInv, UsersGrow, Vouched, User
<1>4. QED
  BY <1>1, <1>2, <1>3

LEMMA TokensRemain ==
    ASSUME TokensInv, UsersGrow, issued' = issued, refresh' \subseteq refresh,
           \A j : <<"token", j>> \in spent' => <<"token", j>> \in spent
    PROVE  TokensInv' /\ TokensGrow
<1>1. TokensGrow
  BY DEF TokensGrow, TokensInv
<1>2. ASSUME NEW j \in 1..Len(issued) PROVE Vouched(issued[j])'
  BY DEF TokensInv, UsersGrow, Vouched
<1>3. QED
  BY <1>1, <1>2 DEF TokensInv

\* Nobody else is disturbed by such a step.
LEMMA OthersRemain ==
    ASSUME RowsInv, NEW d, RequestOK(request[d]), request'[d] = request[d], UsersGrow, TokensGrow,
           lastUser' \in Nat
    PROVE  RequestOK(request[d])'
<1> DEFINE r == request[d]
<1>1. CASE r = NoRequest
  BY <1>1 DEF RequestOK
<1>2. CASE AsksForCode(r) /\ {"op", "phase"} \subseteq DOMAIN r
  BY <1>2 DEF RequestOK, AsksForCode
<1>3. CASE EntersCode(r) /\ {"op", "phase"} \subseteq DOMAIN r
  BY <1>3 DEF RequestOK, EntersCode, UsersGrow, RowsInv, User
<1>4. CASE SignsIn(r) /\ {"op", "phase"} \subseteq DOMAIN r
  <2>1. r.phase = "issue" => Vouched(r.user)'
    BY <1>4 DEF SignsIn, UsersGrow, Vouched
  <2>2. QED
    BY <1>4, <2>1 DEF RequestOK, SignsIn, UsersGrow, RowsInv, User
<1>5. CASE ChangesPassword(r) /\ {"op", "phase"} \subseteq DOMAIN r
  BY <1>5 DEF RequestOK, ChangesPassword, UsersGrow, RowsInv, User
<1>6. CASE Rotates(r) /\ {"op", "phase"} \subseteq DOMAIN r
  BY <1>6 DEF RequestOK, Rotates, TokensGrow
<1>7. QED
  BY <1>1, <1>2, <1>3, <1>4, <1>5, <1>6 DEF RequestOK

\* A step of one caller, put together.
LEMMA StepOfOne ==
    ASSUME AccountsInv, NEW c \in Client, RowsInv', UsersGrow, TokensInv', TokensGrow, CodesInv',
           DOMAIN request' = Client, \A d \in Client \ {c} : request'[d] = request[d],
           RequestOK(request[c])'
    PROVE  AccountsInv'
<1>1. ASSUME NEW d \in Client \ {c} PROVE RequestOK(request[d])'
  BY OthersRemain DEF AccountsInv, RowsInv
<1>2. QED
  BY <1>1 DEF AccountsInv

\* Codes that are deleted, and requests that have the code they had.
LEMMA CodesRemain ==
    ASSUME CodesInv, NEW c \in Client,
           codes' \in [Purpose \X Address -> Nat],
           \A key \in Purpose \X Address : codes'[key] \in {0, codes[key]},
           lastCode' = lastCode,
           inbox' \subseteq inbox,
           \A d \in Client \ {c} : request'[d] = request[d],
           HasCode(request'[c]) => Around(KeyFor(request'[c]), request'[c].code),
           \A k : <<"code", k>> \in spent' => <<"code", k>> \in spent
    PROVE  CodesInv'
<1>1. ASSUME NEW key, NEW k, Around(key, k)' PROVE Around(key, k)
  <2>1. CASE key \in Purpose \X Address /\ codes'[key] = k /\ k # 0
    BY <2>1 DEF Around
  <2>2. CASE [key |-> key, code |-> k] \in inbox'
    BY <2>2 DEF Around
  <2>3. ASSUME NEW d \in Client, HasCode(request'[d]), KeyFor(request'[d]) = key, request'[d].code = k
        PROVE  Around(key, k)
    <3>1. CASE d = c
      BY <2>3, <3>1
    <3>2. CASE d # c
      BY <2>3, <3>2 DEF Around
    <3>3. QED
      BY <3>1, <3>2
  <2>4. QED
    BY <1>1, <2>1, <2>2, <2>3 DEF Around
<1>2. \A key, k : Around(key, k)' => k \in 1..lastCode'
  BY <1>1 DEF CodesInv
<1>3. \A key, other, k : Around(key, k)' /\ Around(other, k)' => key = other
  BY <1>1 DEF CodesInv
<1>4. \A k : <<"code", k>> \in spent' => k \in 1..lastCode' /\ \A key \in Purpose \X Address : codes'[key] # k
  BY DEF CodesInv
<1>5. QED
  BY <1>2, <1>3, <1>4 DEF CodesInv

\* A request that still has the code it had.
LEMMA CodeInHand ==
    ASSUME NEW c \in Client, HasCode(request[c]), NEW t, KeyFor(t) = KeyFor(request[c]), t.code = request[c].code
    PROVE  Around(KeyFor(t), t.code)
BY DEF Around

\* A step that only takes the request of one caller on.
LEMMA QuietStep ==
    ASSUME AccountsInv, NEW c \in Client,
           UNCHANGED <<users, lastUser, codes, refresh, inbox, lastCode, issued, spent>>,
           DOMAIN request' = Client, \A d \in Client \ {c} : request'[d] = request[d],
           HasCode(request'[c]) => Around(KeyFor(request'[c]), request'[c].code),
           RequestOK(request[c])'
    PROVE  AccountsInv'
<1>1. RowsInv' /\ UsersGrow
  BY UsersRemain DEF AccountsInv
<1>2. TokensInv' /\ TokensGrow
  BY <1>1, TokensRemain DEF AccountsInv
<1>3. CodesInv'
  BY CodesRemain DEF AccountsInv, CodesInv
<1>4. QED
  BY <1>1, <1>2, <1>3, StepOfOne

-----------------------------------------------------------------------------
\* The steps.

\* What is known of the request of a step, and of the lists it draws from.
LEMMA RowsAreUsers ==
    ASSUME RowsInv
    PROVE  /\ UserRows \subseteq User /\ \A u \in UserRows : users[u] \in UserRow /\ u <= lastUser
           /\ ByGoogleId \subseteq UserRows /\ \A u \in ByGoogleId : users[u].verified
           /\ \A email : WithEmail(email) \subseteq UserRows
BY DEF RowsInv, UserRows, IsUser, ByGoogleId, WithEmail

LEMMA OpensForCode ==
    ASSUME AccountsInv, NEW c \in Client, Register(c) \/ Resend(c) \/ Forgot(c)
    PROVE  AccountsInv'
<1>1. ASSUME NEW email \in Address, NEW op \in {"register", "resend", "forgot"},
             NEW phase \in {"insert", "cool", "code"}, NEW memory,
             {"email", "code"} \subseteq DOMAIN memory, {"op", "phase"} \cap DOMAIN memory = {},
             memory["email"] = email, Open(c, op, phase, memory),
             UNCHANGED <<users, lastUser, redisKeys, inbox, lastCode, issued, spent>>
      PROVE  AccountsInv'
  <2> DEFINE t == request'[c]
  <2>1. /\ DOMAIN request' = Client /\ \A d \in Client \ {c} : request'[d] = request[d]
        /\ {"op", "phase", "email", "code"} \subseteq DOMAIN t
        /\ t.op = op /\ t.phase = phase /\ t.email = email
    BY <1>1, OpenedRequest DEF AccountsInv
  <2>2. RequestOK(request[c])' /\ ~HasCode(t)
    BY <1>1, <2>1 DEF RequestOK, AsksForCode, HasCode
  <2>3. QED
    BY <1>1, <2>1, <2>2, QuietStep DEF redisKeys
<1>2. CASE Register(c)
  <2>1. PICK email \in Address :
          /\ Open(c, "register", "insert", [email |-> email, user |-> NoRow, code |-> 0])
          /\ UNCHANGED <<users, lastUser, redisKeys, inbox, lastCode, issued, spent>>
    BY <1>2 DEF Register
  <2> DEFINE memory == [email |-> email, user |-> NoRow, code |-> 0]
  <2>2. DOMAIN memory = {"email", "user", "code"} /\ memory["email"] = email
    OBVIOUS
  <2>3. QED
    BY <1>1, <2>1, <2>2
<1>3. CASE Resend(c) \/ Forgot(c)
  <2>1. PICK email \in Address :
          /\ \/ Open(c, "resend", "cool", [email |-> email, code |-> 0])
             \/ Open(c, "forgot", "code", [email |-> email, code |-> 0])
          /\ UNCHANGED <<users, lastUser, redisKeys, inbox, lastCode, issued, spent>>
    BY <1>3 DEF Resend, Forgot
  <2> DEFINE memory == [email |-> email, code |-> 0]
  <2>2. DOMAIN memory = {"email", "code"} /\ memory["email"] = email
    OBVIOUS
  <2>3. QED
    BY <1>1, <2>1, <2>2
<1>4. QED
  BY <1>2, <1>3

\* A code that is read is still in Redis, so it has not served.
LEMMA EnterCodeStep ==
    ASSUME AccountsInv, NEW c \in Client, EnterCode(c)
    PROVE  AccountsInv'
<1>1. PICK mail \in inbox :
        /\ codes[mail.key] = mail.code
        /\ Open(c, IF mail.key[1] = "verify-email" THEN "verify" ELSE "reset", "find",
                [email |-> mail.key[2], code |-> mail.code, before |-> spent])
        /\ UNCHANGED <<users, lastUser, redisKeys, inbox, lastCode, issued, spent>>
  BY DEF EnterCode
<1> DEFINE op == IF mail.key[1] = "verify-email" THEN "verify" ELSE "reset"
           memory == [email |-> mail.key[2], code |-> mail.code, before |-> spent]
           t == request'[c]
<1>2. /\ DOMAIN memory = {"email", "code", "before"} /\ memory["email"] = mail.key[2]
      /\ memory["code"] = mail.code /\ memory["before"] = spent
  OBVIOUS
<1>3. mail.key \in Purpose \X Address /\ mail = [key |-> mail.key, code |-> mail.code]
  BY <1>1 DEF AccountsInv, CodesInv
<1>4. mail.key = <<mail.key[1], mail.key[2]>> /\ mail.key[1] \in Purpose /\ mail.key[2] \in Address
  BY <1>3
<1>5. op \in {"verify", "reset"}
  OBVIOUS
<1> HIDE DEF memory
<1>6. /\ DOMAIN request' = Client /\ \A d \in Client \ {c} : request'[d] = request[d]
      /\ {"op", "phase", "email", "code", "before"} \subseteq DOMAIN t
      /\ t.op = op /\ t.phase = "find" /\ t["email"] = mail.key[2]
      /\ t["code"] = mail.code /\ t["before"] = spent
  <2>1. Open(c, op, "find", memory)
    BY <1>1 DEF memory
  <2> HIDE DEF op
  <2>2. QED
    BY <1>2, <2>1, OpenedRequest DEF AccountsInv
<1>7. KeyFor(t) = mail.key
  BY <1>4, <1>6 DEF KeyFor, Purpose
<1>8. Around(KeyFor(t), t.code)
  BY <1>3, <1>6, <1>7 DEF Around
<1>9. <<"code", mail.code>> \notin spent
  BY <1>1, <1>3 DEF AccountsInv, CodesInv
<1>10. RequestOK(request[c])'
  BY <1>4, <1>5, <1>6, <1>9 DEF RequestOK, EntersCode
<1>11. QED
  BY <1>1, <1>6, <1>8, <1>10, QuietStep DEF redisKeys

\* Whose password may be checked is verified.
LEMMA LoginStep ==
    ASSUME AccountsInv, NEW c \in Client, Login(c)
    PROVE  AccountsInv'
<1>1. PICK u \in UserRows :
        /\ MayLogIn(users[u])
        /\ Open(c, "login", "issue", [user |-> u])
        /\ UNCHANGED <<users, lastUser, redisKeys, inbox, lastCode, issued, spent>>
  BY DEF Login
<1> DEFINE memory == [user |-> u]
           t == request'[c]
<1>2. DOMAIN memory = {"user"} /\ memory["user"] = u
  OBVIOUS
<1>3. /\ DOMAIN request' = Client /\ \A d \in Client \ {c} : request'[d] = request[d]
      /\ {"op", "phase", "user"} \subseteq DOMAIN t
      /\ t.op = "login" /\ t.phase = "issue" /\ t["user"] = u
  BY <1>1, <1>2, OpenedRequest DEF AccountsInv
<1>4. u \in User /\ u <= lastUser /\ users[u].verified
  BY <1>1, RowsAreUsers DEF AccountsInv, MayLogIn
<1>5. RequestOK(request[c])' /\ ~HasCode(t)
  BY <1>1, <1>3, <1>4 DEF RequestOK, SignsIn, Vouched, HasCode
<1>6. QED
  BY <1>1, <1>3, <1>5, QuietStep DEF redisKeys

LEMMA GoogleByIdStep ==
    ASSUME AccountsInv, NEW c \in Client, GoogleById(c)
    PROVE  AccountsInv'
<1> DEFINE u == First(ByGoogleId)
           memory == [user |-> u]
           phase == IF u = NoRow THEN "by-email" ELSE "issue"
           t == request'[c]
<1>1. /\ Open(c, "google", phase, memory)
      /\ UNCHANGED <<users, lastUser, redisKeys, inbox, lastCode, issued, spent>>
  BY DEF GoogleById
<1>2. DOMAIN memory = {"user"} /\ memory["user"] = u
  OBVIOUS
<1>3. phase \in {"by-email", "issue"} /\ (phase = "issue" => u # NoRow)
  OBVIOUS
<1>4. u # NoRow => u \in User /\ u <= lastUser /\ users[u].verified
  <2>1. ByGoogleId \subseteq User
    BY RowsAreUsers DEF AccountsInv
  <2>2. u # NoRow => u \in ByGoogleId
    BY <2>1, FirstIsThere
  <2> HIDE DEF u
  <2>3. QED
    BY <2>2, RowsAreUsers DEF AccountsInv
<1> HIDE DEF memory, phase, u
<1>5. /\ DOMAIN request' = Client /\ \A d \in Client \ {c} : request'[d] = request[d]
      /\ {"op", "phase", "user"} \subseteq DOMAIN t
      /\ t.op = "google" /\ t.phase = phase /\ t["user"] = u
  BY <1>1, <1>2, OpenedRequest DEF AccountsInv
<1>6. RequestOK(request[c])' /\ ~HasCode(t)
  BY <1>1, <1>3, <1>4, <1>5 DEF RequestOK, SignsIn, Vouched, HasCode
<1>7. QED
  BY <1>1, <1>5, <1>6, QuietStep DEF redisKeys

\* Whose access token is good is verified.
LEMMA LoadForPasswordStep ==
    ASSUME AccountsInv, NEW c \in Client, LoadForPassword(c)
    PROVE  AccountsInv'
<1>1. PICK u \in UserRows \cap Range(issued) :
        /\ Open(c, "password", "save", [user |-> u, row |-> users[u]])
        /\ UNCHANGED <<users, lastUser, redisKeys, inbox, lastCode, issued, spent>>
  BY DEF LoadForPassword
<1> DEFINE memory == [user |-> u, row |-> users[u]]
           t == request'[c]
<1>2. DOMAIN memory = {"user", "row"} /\ memory["user"] = u /\ memory["row"] = users[u]
  OBVIOUS
<1>3. u \in User /\ u <= lastUser /\ users[u] \in UserRow
  BY RowsAreUsers DEF AccountsInv
<1>4. users[u].verified
  <2>1. PICK j \in 1..Len(issued) : issued[j] = u
    BY DEF Range, AccountsInv, TokensInv
  <2>2. QED
    BY <2>1 DEF AccountsInv, TokensInv, Vouched, UserRows, IsUser
<1> HIDE DEF memory
<1>5. /\ DOMAIN request' = Client /\ \A d \in Client \ {c} : request'[d] = request[d]
      /\ {"op", "phase", "user", "row"} \subseteq DOMAIN t
      /\ t.op = "password" /\ t.phase = "save" /\ t["user"] = u /\ t["row"] = users[u]
  <2>1. Open(c, "password", "save", memory)
    BY <1>1 DEF memory
  <2>2. QED
    BY <1>2, <2>1, OpenedRequest DEF AccountsInv
<1>6. RequestOK(request[c])' /\ ~HasCode(t)
  BY <1>1, <1>3, <1>4, <1>5 DEF RequestOK, ChangesPassword, HasCode
<1>7. QED
  BY <1>1, <1>5, <1>6, QuietStep DEF redisKeys

\* A token that is read is still in Redis, so it has not served.
LEMMA RotateStep ==
    ASSUME AccountsInv, NEW c \in Client, Rotate(c)
    PROVE  AccountsInv'
<1>1. PICK jti \in refresh :
        /\ Open(c, "rotate", "delete", [jti |-> jti, user |-> issued[jti], before |-> spent])
        /\ UNCHANGED <<users, lastUser, redisKeys, inbox, lastCode, issued, spent>>
  BY DEF Rotate
<1> DEFINE memory == [jti |-> jti, user |-> issued[jti], before |-> spent]
           t == request'[c]
<1>2. /\ DOMAIN memory = {"jti", "user", "before"} /\ memory["jti"] = jti
      /\ memory["user"] = issued[jti] /\ memory["before"] = spent
  OBVIOUS
<1> HIDE DEF memory
<1>3. /\ DOMAIN request' = Client /\ \A d \in Client \ {c} : request'[d] = request[d]
      /\ {"op", "phase", "jti", "user", "before"} \subseteq DOMAIN t
      /\ t.op = "rotate" /\ t.phase = "delete" /\ t["jti"] = jti
      /\ t["user"] = issued[jti] /\ t["before"] = spent
  <2>1. Open(c, "rotate", "delete", memory)
    BY <1>1 DEF memory
  <2>2. QED
    BY <1>2, <2>1, OpenedRequest DEF AccountsInv
<1>4. jti \in 1..Len(issued) /\ <<"token", jti>> \notin spent
  BY DEF AccountsInv, TokensInv
<1>5. RequestOK(request[c])' /\ ~HasCode(t)
  BY <1>1, <1>3, <1>4 DEF RequestOK, Rotates, HasCode
<1>6. QED
  BY <1>1, <1>3, <1>5, QuietStep DEF redisKeys

\* What a request under way is of.
LEMMA UnderWay ==
    ASSUME NEW r, RequestOK(r), r.phase # "none"
    PROVE  /\ {"op", "phase"} \subseteq DOMAIN r
           /\ r.op \in {"register", "resend", "forgot"} => AsksForCode(r)
           /\ r.op \in {"verify", "reset"} => EntersCode(r)
           /\ r.op = "google" => SignsIn(r)
           /\ r.op = "password" => ChangesPassword(r)
           /\ r.op = "rotate" => Rotates(r)
<1>1. r # NoRequest
  BY DEF NoRequest
<1>2. QED
  BY <1>1 DEF RequestOK, AsksForCode, EntersCode, SignsIn, ChangesPassword, Rotates

\* A request that ends where it looked.
LEMMA ClosingStep ==
    ASSUME AccountsInv, NEW c \in Client, Close(c),
           UNCHANGED <<users, lastUser, codes, refresh, inbox, lastCode, issued, spent>>
    PROVE  AccountsInv'
<1>1. RequestOK(request[c])' /\ ~HasCode(request'[c])
  BY ClosedRequest DEF AccountsInv, RequestOK, HasCode, NoRequest
<1>2. QED
  BY <1>1, ClosedRequest, QuietStep DEF AccountsInv

LEMMA LookingStep ==
    ASSUME AccountsInv, NEW c \in Client, Cool(c) \/ FindUnverified(c)
    PROVE  AccountsInv'
<1> DEFINE r == request[c]
           t == request'[c]
<1>1. /\ r.op = "resend" /\ r.phase \in {"cool", "find"}
      /\ GoesTo(c, "find") \/ GoesTo(c, "code") \/ Close(c)
      /\ UNCHANGED <<users, lastUser, codes, refresh, inbox, lastCode, issued, spent>>
  BY DEF Cool, FindUnverified, In, redisKeys
<1>2. AsksForCode(r) /\ {"op", "phase"} \subseteq DOMAIN r
  BY <1>1, UnderWay DEF AccountsInv
<1>3. ASSUME NEW phase \in {"find", "code"}, GoesTo(c, phase) PROVE AccountsInv'
  <2>1. /\ DOMAIN request' = Client /\ \A d \in Client \ {c} : request'[d] = request[d]
        /\ DOMAIN t = DOMAIN r /\ t.op = r.op /\ t.phase = phase
        /\ \A f \in DOMAIN r \ {"phase"} : t[f] = r[f]
    BY <1>2, <1>3, MovedRequest DEF AccountsInv
  <2>2. t["email"] = r["email"]
    BY <1>2, <2>1 DEF AsksForCode
  <2>3. RequestOK(request[c])' /\ ~HasCode(t)
    BY <1>1, <1>2, <1>3, <2>1, <2>2 DEF RequestOK, AsksForCode, HasCode
  <2>4. QED
    BY <1>1, <2>1, <2>3, QuietStep
<1>4. QED
  BY <1>1, <1>3, ClosingStep

LEMMA FindForCodeStep ==
    ASSUME AccountsInv, NEW c \in Client, FindForCode(c)
    PROVE  AccountsInv'
<1> DEFINE r == request[c]
           t == request'[c]
           u == First(WithEmail(r.email))
           memory == [user |-> u, row |-> users[u]]
<1>1. /\ r.op \in {"verify", "reset"} /\ r.phase = "find"
      /\ IF u = NoRow THEN Close(c) ELSE Keeps(c, "save", memory)
      /\ UNCHANGED <<users, lastUser, codes, refresh, inbox, lastCode, issued, spent>>
  BY DEF FindForCode, In, redisKeys
<1>2. EntersCode(r) /\ {"op", "phase"} \subseteq DOMAIN r
  BY <1>1, UnderWay DEF AccountsInv
<1>3. u # NoRow => u \in User /\ u <= lastUser /\ users[u] \in UserRow
  <2>1. WithEmail(r.email) \subseteq UserRows /\ UserRows \subseteq User
    BY RowsAreUsers DEF AccountsInv
  <2>2. u # NoRow => u \in UserRows
    BY <2>1, FirstIsThere
  <2>3. QED
    BY <2>2, RowsAreUsers DEF AccountsInv
<1>4. DOMAIN memory = {"user", "row"} /\ memory["user"] = u /\ memory["row"] = users[u]
  OBVIOUS
<1> HIDE DEF memory, u
<1>5. CASE u # NoRow
  <2>1. /\ DOMAIN request' = Client /\ \A d \in Client \ {c} : request'[d] = request[d]
        /\ DOMAIN t = {"user", "row"} \cup DOMAIN r /\ t.op = r.op /\ t.phase = "save"
        /\ t["user"] = u /\ t["row"] = users[u]
        /\ \A f \in DOMAIN r \ {"user", "row", "phase"} : t[f] = r[f]
    BY <1>1, <1>2, <1>4, <1>5, KeptRequest DEF AccountsInv
  <2>2. t["email"] = r["email"] /\ t["code"] = r["code"] /\ t["before"] = r["before"]
    BY <1>2, <2>1 DEF EntersCode
  <2>3. Around(KeyFor(t), t.code)
    BY <1>1, <2>1, <2>2, CodeInHand DEF HasCode, KeyFor
  <2>4. RequestOK(request[c])'
    BY <1>1, <1>2, <1>3, <1>5, <2>1, <2>2 DEF RequestOK, EntersCode
  <2>5. QED
    BY <1>1, <2>1, <2>3, <2>4, QuietStep
<1>6. QED
  BY <1>1, <1>5, ClosingStep

LEMMA GoogleByEmailStep ==
    ASSUME AccountsInv, NEW c \in Client, GoogleByEmail(c)
    PROVE  AccountsInv'
<1> DEFINE r == request[c]
           t == request'[c]
           u == First(ByEmailIgnoringCase)
           found == [user |-> u, row |-> users[u]]
<1>1. /\ r.op = "google" /\ r.phase = "by-email"
      /\ \/ Close(c)
         \/ u # NoRow /\ Keeps(c, "link", found)
         \/ GoesTo(c, "create")
      /\ UNCHANGED <<users, lastUser, codes, refresh, inbox, lastCode, issued, spent>>
  BY DEF GoogleByEmail, In, redisKeys
<1>2. SignsIn(r) /\ {"op", "phase"} \subseteq DOMAIN r
  BY <1>1, UnderWay DEF AccountsInv
<1>3. u # NoRow => u \in User /\ u <= lastUser /\ users[u] \in UserRow
  <2>1. ByEmailIgnoringCase = UserRows /\ UserRows \subseteq User
    BY DEF ByEmailIgnoringCase, UserRows
  <2>2. u # NoRow => u \in UserRows
    BY <2>1, FirstIsThere
  <2>3. QED
    BY <2>2, RowsAreUsers DEF AccountsInv
<1>4. DOMAIN found = {"user", "row"} /\ found["user"] = u /\ found["row"] = users[u]
  OBVIOUS
<1> HIDE DEF found, u
<1>5. CASE u # NoRow /\ Keeps(c, "link", found)
  <2>1. /\ DOMAIN request' = Client /\ \A d \in Client \ {c} : request'[d] = request[d]
        /\ DOMAIN t = {"user", "row"} \cup DOMAIN r /\ t.op = r.op /\ t.phase = "link"
        /\ t["user"] = u /\ t["row"] = users[u]
    BY <1>2, <1>4, <1>5, KeptRequest DEF AccountsInv
  <2>2. RequestOK(request[c])' /\ ~HasCode(t)
    BY <1>1, <1>2, <1>3, <1>5, <2>1 DEF RequestOK, SignsIn, HasCode
  <2>3. QED
    BY <1>1, <2>1, <2>2, QuietStep
<1>6. CASE GoesTo(c, "create")
  <2>1. /\ DOMAIN request' = Client /\ \A d \in Client \ {c} : request'[d] = request[d]
        /\ DOMAIN t = DOMAIN r /\ t.op = r.op /\ t.phase = "create" /\ t["user"] = r["user"]
    BY <1>2, <1>6, MovedRequest DEF AccountsInv, SignsIn
  <2>2. RequestOK(request[c])' /\ ~HasCode(t)
    BY <1>1, <1>2, <1>3, <1>6, <2>1 DEF RequestOK, SignsIn, HasCode
  <2>3. QED
    BY <1>1, <2>1, <2>2, QuietStep
<1>7. QED
  BY <1>1, <1>5, <1>6, ClosingStep

LEMMA ReadWinnerStep ==
    ASSUME AccountsInv, NEW c \in Client, ReadWinner(c)
    PROVE  AccountsInv'
<1> DEFINE r == request[c]
           t == request'[c]
           u == First(ByGoogleId)
           memory == [user |-> u]
<1>1. /\ r.op = "google" /\ r.phase = "winner"
      /\ IF u = NoRow THEN Close(c) ELSE Keeps(c, "issue", memory)
      /\ UNCHANGED <<users, lastUser, codes, refresh, inbox, lastCode, issued, spent>>
  BY DEF ReadWinner, In, redisKeys
<1>2. SignsIn(r) /\ {"op", "phase"} \subseteq DOMAIN r
  BY <1>1, UnderWay DEF AccountsInv
<1>3. u # NoRow => u \in User /\ u <= lastUser /\ users[u].verified
  <2>1. ByGoogleId \subseteq User
    BY RowsAreUsers DEF AccountsInv
  <2>2. u # NoRow => u \in ByGoogleId
    BY <2>1, FirstIsThere
  <2>3. QED
    BY <2>2, RowsAreUsers DEF AccountsInv
<1>4. DOMAIN memory = {"user"} /\ memory["user"] = u
  OBVIOUS
<1> HIDE DEF memory, u
<1>5. CASE u # NoRow
  <2>1. /\ DOMAIN request' = Client /\ \A d \in Client \ {c} : request'[d] = request[d]
        /\ DOMAIN t = {"user"} \cup DOMAIN r /\ t.op = r.op /\ t.phase = "issue" /\ t["user"] = u
    BY <1>1, <1>2, <1>4, <1>5, KeptRequest DEF AccountsInv
  <2>2. RequestOK(request[c])' /\ ~HasCode(t)
    BY <1>1, <1>2, <1>3, <1>5, <2>1 DEF RequestOK, SignsIn, Vouched, HasCode
  <2>3. QED
    BY <1>1, <2>1, <2>2, QuietStep
<1>6. QED
  BY <1>1, <1>5, ClosingStep

LEMMA ReloadStep ==
    ASSUME AccountsInv, NEW c \in Client, Reload(c)
    PROVE  AccountsInv'
<1> DEFINE r == request[c]
           t == request'[c]
<1>1. /\ r.op = "rotate" /\ r.phase = "reload"
      /\ GoesTo(c, "issue") \/ Close(c)
      /\ UNCHANGED <<users, lastUser, codes, refresh, inbox, lastCode, issued, spent>>
  BY DEF Reload, In, redisKeys
<1>2. Rotates(r) /\ {"op", "phase"} \subseteq DOMAIN r
  BY <1>1, UnderWay DEF AccountsInv
<1>3. CASE GoesTo(c, "issue")
  <2>1. /\ DOMAIN request' = Client /\ \A d \in Client \ {c} : request'[d] = request[d]
        /\ DOMAIN t = DOMAIN r /\ t.op = r.op /\ t.phase = "issue"
        /\ \A f \in DOMAIN r \ {"phase"} : t[f] = r[f]
    BY <1>2, <1>3, MovedRequest DEF AccountsInv
  <2>2. t["jti"] = r["jti"] /\ t["user"] = r["user"] /\ t["before"] = r["before"]
    BY <1>2, <2>1 DEF Rotates
  <2>3. RequestOK(request[c])' /\ ~HasCode(t)
    BY <1>1, <1>2, <2>1, <2>2 DEF RequestOK, Rotates, HasCode
  <2>4. QED
    BY <1>1, <2>1, <2>3, QuietStep
<1>4. QED
  BY <1>1, <1>3, ClosingStep

-----------------------------------------------------------------------------
\* The steps that write rows.

LEMMA SavedRow ==
    ASSUME RowsInv, NEW u \in User, NEW row \in UserRow, NEW setsPassword \in BOOLEAN
    PROVE  /\ Saved(u, row, setsPassword) \in UserRow
           /\ Saved(u, row, setsPassword).verified = row.verified
<1>1. setsPassword \/ (IsUser(u) /\ users[u].password) \in BOOLEAN
  OBVIOUS
<1>2. QED
  BY <1>1 DEF Saved, UserRow

\* A verified row is written under its id, or under a new one.
LEMMA RowWritten ==
    ASSUME RowsInv, NEW u \in User, u <= lastUser, NEW row \in UserRow, row.verified, WriteUser(u, row)
    PROVE  /\ RowsInv' /\ UsersGrow
           /\ SavedAs(u) \in User /\ SavedAs(u) <= lastUser' /\ users'[SavedAs(u)] = row
<1>1. CASE IsUser(u)
  <2>1. users' = [users EXCEPT ![u] = row] /\ lastUser' = lastUser /\ SavedAs(u) = u
    BY <1>1 DEF WriteUser, SavedAs
  <2>2. RowsInv' /\ UsersGrow
    BY <2>1, UserSaved
  <2>3. QED
    BY <2>1, <2>2 DEF RowsInv
<1>2. CASE ~IsUser(u)
  <2>1. InsertUser(row) /\ SavedAs(u) = NextId
    BY <1>2 DEF WriteUser, SavedAs
  <2>2. RowsInv' /\ UsersGrow /\ NextId \in User /\ NextId = lastUser' /\ users'[NextId] = row
    BY <2>1, UserInserted
  <2>3. QED
    BY <2>1, <2>2 DEF RowsInv
<1>3. QED
  BY <1>1, <1>2

\* A save of a verified row, after which its request goes on, or not.
LEMMA SavingStep ==
    ASSUME AccountsInv, NEW c \in Client, NEW u \in User, u <= lastUser,
           NEW row \in UserRow, row.verified, WriteUser(u, row) \/ UNCHANGED <<users, lastUser>>,
           UNCHANGED <<codes, refresh, inbox, lastCode, issued, spent>>,
           DOMAIN request' = Client, \A d \in Client \ {c} : request'[d] = request[d],
           HasCode(request'[c]) => Around(KeyFor(request'[c]), request'[c].code),
           UsersGrow /\ RowsInv' => RequestOK(request[c])'
    PROVE  AccountsInv'
<1>1. RowsInv' /\ UsersGrow
  <2>1. CASE WriteUser(u, row)
    BY <2>1, RowWritten DEF AccountsInv
  <2>2. CASE UNCHANGED <<users, lastUser>>
    BY <2>2, UsersRemain DEF AccountsInv
  <2>3. QED
    BY <2>1, <2>2
<1>2. TokensInv' /\ TokensGrow
  BY <1>1, TokensRemain DEF AccountsInv
<1>3. CodesInv'
  BY CodesRemain DEF AccountsInv, CodesInv
<1>4. QED
  BY <1>1, <1>2, <1>3, StepOfOne

LEMMA SaveVerifiedStep ==
    ASSUME AccountsInv, NEW c \in Client, SaveVerified(c)
    PROVE  AccountsInv'
<1> DEFINE r == request[c]
           t == request'[c]
           u == r.user
           row == [r.row EXCEPT !.verified = TRUE]
           saved == Saved(u, row, r.op = "reset")
<1>1. /\ r.op \in {"verify", "reset"} /\ r.phase = "save"
      /\ UNCHANGED <<codes, refresh, inbox, lastCode, issued, spent>>
      /\ \/ Close(c) /\ UNCHANGED <<users, lastUser>>
         \/ WriteUser(u, saved) /\ GoesTo(c, "burn")
  BY DEF SaveVerified, In, redisKeys
<1>2. EntersCode(r) /\ {"op", "phase"} \subseteq DOMAIN r
  BY <1>1, UnderWay DEF AccountsInv
<1>3. saved \in UserRow /\ saved.verified
  <2>1. u \in User /\ row \in UserRow /\ row.verified
    BY <1>1, <1>2 DEF EntersCode, UserRow
  <2> HIDE DEF row
  <2>2. QED
    BY <2>1, SavedRow DEF AccountsInv
<1> HIDE DEF saved
<1>4. CASE Close(c) /\ UNCHANGED <<users, lastUser>>
  BY <1>1, <1>4, ClosingStep
<1>5. CASE WriteUser(u, saved) /\ GoesTo(c, "burn")
  <2>1. /\ DOMAIN request' = Client /\ \A d \in Client \ {c} : request'[d] = request[d]
        /\ DOMAIN t = DOMAIN r /\ t.op = r.op /\ t.phase = "burn"
        /\ \A f \in DOMAIN r \ {"phase"} : t[f] = r[f]
    BY <1>2, <1>5, MovedRequest DEF AccountsInv
  <2>2. t["email"] = r["email"] /\ t["code"] = r["code"] /\ t["before"] = r["before"]
    BY <1>2, <2>1 DEF EntersCode
  <2>3. Around(KeyFor(t), t.code)
    BY <1>1, <2>1, <2>2, CodeInHand DEF HasCode, KeyFor
  <2>4. RequestOK(request[c])'
    BY <1>1, <1>2, <2>1, <2>2 DEF RequestOK, EntersCode
  <2>5. u \in User /\ u <= lastUser
    BY <1>1, <1>2 DEF EntersCode
  <2>6. QED
    BY <1>1, <1>3, <1>5, <2>1, <2>3, <2>4, <2>5, SavingStep
<1>6. QED
  BY <1>1, <1>4, <1>5

LEMMA LinkGoogleStep ==
    ASSUME AccountsInv, NEW c \in Client, LinkGoogle(c)
    PROVE  AccountsInv'
<1> DEFINE r == request[c]
           t == request'[c]
           u == r.user
           row == Linked(r.row)
           saved == Saved(u, row, FALSE)
           memory == [user |-> SavedAs(u)]
<1>1. /\ r.op = "google" /\ r.phase = "link"
      /\ UNCHANGED <<codes, refresh, inbox, lastCode, issued, spent>>
      /\ \/ Close(c) /\ UNCHANGED <<users, lastUser>>
         \/ WriteUser(u, saved) /\ Keeps(c, "issue", memory)
  BY DEF LinkGoogle, In, redisKeys
<1>2. SignsIn(r) /\ {"op", "phase"} \subseteq DOMAIN r
  BY <1>1, UnderWay DEF AccountsInv
<1>3. saved \in UserRow /\ saved.verified /\ u \in User /\ u <= lastUser
  <2>1. u \in User /\ u <= lastUser /\ row \in UserRow /\ row.verified
    BY <1>1, <1>2 DEF SignsIn, Linked, UserRow
  <2> HIDE DEF row
  <2>2. QED
    BY <2>1, SavedRow DEF AccountsInv
<1>4. DOMAIN memory = {"user"} /\ memory["user"] = SavedAs(u)
  OBVIOUS
<1> HIDE DEF saved, memory
<1>5. CASE Close(c) /\ UNCHANGED <<users, lastUser>>
  BY <1>1, <1>5, ClosingStep
<1>6. CASE WriteUser(u, saved) /\ Keeps(c, "issue", memory)
  <2>1. /\ DOMAIN request' = Client /\ \A d \in Client \ {c} : request'[d] = request[d]
        /\ DOMAIN t = {"user"} \cup DOMAIN r /\ t.op = r.op /\ t.phase = "issue" /\ t["user"] = SavedAs(u)
    BY <1>2, <1>4, <1>6, KeptRequest DEF AccountsInv
  <2>2. SavedAs(u) \in User /\ SavedAs(u) <= lastUser' /\ users'[SavedAs(u)].verified
    BY <1>3, <1>6, RowWritten DEF AccountsInv
  <2>3. Vouched(request[c].user)'
    BY <2>1, <2>2 DEF Vouched
  <2>4. RequestOK(request[c])' /\ ~HasCode(t)
    BY <1>1, <1>2, <2>1, <2>3 DEF RequestOK, SignsIn, HasCode
  <2>5. QED
    BY <1>1, <1>3, <1>6, <2>1, <2>4, SavingStep
<1>7. QED
  BY <1>1, <1>5, <1>6

LEMMA SavePasswordStep ==
    ASSUME AccountsInv, NEW c \in Client, SavePassword(c)
    PROVE  AccountsInv'
<1> DEFINE r == request[c]
           u == r.user
           saved == Saved(u, r.row, TRUE)
<1>1. /\ r.op = "password" /\ r.phase = "save" /\ Close(c)
      /\ UNCHANGED <<codes, refresh, inbox, lastCode, issued, spent>>
      /\ WriteUser(u, saved) \/ UNCHANGED <<users, lastUser>>
  BY DEF SavePassword, In, redisKeys
<1>2. ChangesPassword(r)
  BY <1>1, UnderWay DEF AccountsInv
<1>3. saved \in UserRow /\ saved.verified /\ u \in User /\ u <= lastUser
  BY <1>2, SavedRow DEF ChangesPassword, AccountsInv
<1> HIDE DEF saved
<1>4. /\ DOMAIN request' = Client /\ \A d \in Client \ {c} : request'[d] = request[d]
      /\ request'[c] = NoRequest
  BY <1>1, ClosedRequest DEF AccountsInv
<1>5. RequestOK(request[c])' /\ ~HasCode(request'[c])
  BY <1>4 DEF RequestOK, HasCode, NoRequest
<1>6. QED
  BY <1>1, <1>3, <1>4, <1>5, SavingStep

LEMMA NewRows ==
    /\ NoUser \in UserRow /\ ~NoUser.there
    /\ \A email \in Address, v \in BOOLEAN : Registered(email, v) \in UserRow /\ ~Registered(email, v).google
    /\ FromGoogle \in UserRow /\ FromGoogle.verified
BY CanonicalIsAnAddress DEF UserRow, NoUser, Registered, FromGoogle

\* A step that inserts a row.
LEMMA InsertingStep ==
    ASSUME AccountsInv, NEW c \in Client, NEW row \in UserRow, InsertUser(row), row.google => row.verified,
           UNCHANGED <<codes, refresh, inbox, lastCode, issued, spent>>,
           DOMAIN request' = Client, \A d \in Client \ {c} : request'[d] = request[d],
           ~HasCode(request'[c]), RequestOK(request[c])'
    PROVE  AccountsInv'
<1>1. RowsInv' /\ UsersGrow
  BY UserInserted DEF AccountsInv
<1>2. TokensInv' /\ TokensGrow
  BY <1>1, TokensRemain DEF AccountsInv
<1>3. CodesInv'
  BY CodesRemain DEF AccountsInv, CodesInv
<1>4. QED
  BY <1>1, <1>2, <1>3, StepOfOne

LEMMA InsertStep ==
    ASSUME AccountsInv, NEW c \in Client, Insert(c)
    PROVE  AccountsInv'
<1> DEFINE r == request[c]
           t == request'[c]
           row == Registered(r.email, FALSE)
           memory == [user |-> NextId]
<1>1. /\ r.op = "register" /\ r.phase = "insert"
      /\ UNCHANGED <<codes, refresh, inbox, lastCode, issued, spent>>
      /\ \/ Close(c) /\ UNCHANGED <<users, lastUser>>
         \/ InsertUser(row) /\ Keeps(c, "code", memory)
  BY DEF Insert, In, redisKeys
<1>2. AsksForCode(r) /\ {"op", "phase"} \subseteq DOMAIN r
  BY <1>1, UnderWay DEF AccountsInv
<1>3. row \in UserRow /\ ~row.google
  BY <1>2, NewRows DEF AsksForCode
<1>4. DOMAIN memory = {"user"}
  OBVIOUS
<1> HIDE DEF row, memory
<1>5. CASE InsertUser(row) /\ Keeps(c, "code", memory)
  <2>1. /\ DOMAIN request' = Client /\ \A d \in Client \ {c} : request'[d] = request[d]
        /\ DOMAIN t = {"user"} \cup DOMAIN r /\ t.op = r.op /\ t.phase = "code"
        /\ \A f \in DOMAIN r \ {"user", "phase"} : t[f] = r[f]
    BY <1>2, <1>4, <1>5, KeptRequest DEF AccountsInv
  <2>2. t["email"] = r["email"]
    BY <1>2, <2>1 DEF AsksForCode
  <2>3. RequestOK(request[c])' /\ ~HasCode(t)
    BY <1>1, <1>2, <2>1, <2>2 DEF RequestOK, AsksForCode, HasCode
  <2>4. QED
    BY <1>1, <1>3, <1>5, <2>1, <2>3, InsertingStep
<1>6. QED
  BY <1>1, <1>5, ClosingStep

LEMMA CreateFromGoogleStep ==
    ASSUME AccountsInv, NEW c \in Client, CreateFromGoogle(c)
    PROVE  AccountsInv'
<1> DEFINE r == request[c]
           t == request'[c]
           memory == [user |-> NextId]
<1>1. /\ r.op = "google" /\ r.phase = "create"
      /\ UNCHANGED <<codes, refresh, inbox, lastCode, issued, spent>>
      /\ \/ InsertUser(FromGoogle) /\ Keeps(c, "issue", memory)
         \/ UNCHANGED <<users, lastUser>> /\ GoesTo(c, "winner")
  BY DEF CreateFromGoogle, In, redisKeys
<1>2. SignsIn(r) /\ {"op", "phase"} \subseteq DOMAIN r
  BY <1>1, UnderWay DEF AccountsInv
<1>3. DOMAIN memory = {"user"} /\ memory["user"] = NextId
  OBVIOUS
<1> HIDE DEF memory
<1>4. CASE InsertUser(FromGoogle) /\ Keeps(c, "issue", memory)
  <2>1. /\ DOMAIN request' = Client /\ \A d \in Client \ {c} : request'[d] = request[d]
        /\ DOMAIN t = {"user"} \cup DOMAIN r /\ t.op = r.op /\ t.phase = "issue" /\ t["user"] = NextId
    BY <1>2, <1>3, <1>4, KeptRequest DEF AccountsInv
  <2>2. RowsInv' /\ NextId \in User /\ NextId = lastUser' /\ users'[NextId] = FromGoogle
    BY <1>4, NewRows, UserInserted DEF AccountsInv
  <2>3. Vouched(request[c].user)'
    BY <2>1, <2>2, NewRows DEF Vouched, RowsInv
  <2>4. RequestOK(request[c])' /\ ~HasCode(t)
    BY <1>1, <1>2, <2>1, <2>3 DEF RequestOK, SignsIn, HasCode
  <2>5. QED
    BY <1>1, <1>4, <2>1, <2>4, NewRows, InsertingStep
<1>5. CASE UNCHANGED <<users, lastUser>> /\ GoesTo(c, "winner")
  <2>1. /\ DOMAIN request' = Client /\ \A d \in Client \ {c} : request'[d] = request[d]
        /\ DOMAIN t = DOMAIN r /\ t.op = r.op /\ t.phase = "winner"
    BY <1>2, <1>5, MovedRequest DEF AccountsInv
  <2>2. RequestOK(request[c])' /\ ~HasCode(t)
    BY <1>1, <1>2, <2>1 DEF RequestOK, SignsIn, HasCode
  <2>3. QED
    BY <1>1, <1>5, <2>1, <2>2, QuietStep
<1>6. QED
  BY <1>1, <1>4, <1>5

LEMMA UndoAccountStep ==
    ASSUME AccountsInv, NEW c \in Client, UndoAccount(c)
    PROVE  AccountsInv'
<1> DEFINE r == request[c]
           t == request'[c]
<1>1. /\ r.op = "register" /\ r.phase = "undo" /\ GoesTo(c, "undo-code")
      /\ users' = [users EXCEPT ![r.user] = NoUser]
      /\ UNCHANGED <<lastUser, codes, refresh, inbox, lastCode, issued, spent>>
  BY DEF UndoAccount, In, redisKeys
<1>2. AsksForCode(r) /\ {"op", "phase"} \subseteq DOMAIN r
  BY <1>1, UnderWay DEF AccountsInv
<1>3. /\ DOMAIN request' = Client /\ \A d \in Client \ {c} : request'[d] = request[d]
      /\ DOMAIN t = DOMAIN r /\ t.op = r.op /\ t.phase = "undo-code"
      /\ \A f \in DOMAIN r \ {"phase"} : t[f] = r[f]
  BY <1>1, <1>2, MovedRequest DEF AccountsInv
<1>4. t["email"] = r["email"]
  BY <1>2, <1>3 DEF AsksForCode
<1>5. RequestOK(request[c])' /\ ~HasCode(t)
  BY <1>1, <1>2, <1>3, <1>4 DEF RequestOK, AsksForCode, HasCode
<1>6. RowsInv' /\ UsersGrow
  BY <1>1, NewRows, UserSaved DEF AccountsInv
<1>7. TokensInv' /\ TokensGrow
  BY <1>1, <1>6, TokensRemain DEF AccountsInv
<1>8. CodesInv'
  BY <1>1, <1>3, <1>5, CodesRemain DEF AccountsInv, CodesInv
<1>9. QED
  BY <1>3, <1>5, <1>6, <1>7, <1>8, StepOfOne

-----------------------------------------------------------------------------
\* The steps of codes and tokens.

LEMMA KeyIsKey ==
    ASSUME NEW c, request[c].email \in Address
    PROVE  KeyOf(c) = KeyFor(request[c]) /\ KeyOf(c) \in Purpose \X Address
BY DEF KeyOf, KeyFor, PurposeOf, Purpose

\* A new code is one that nobody has.
LEMMA SetCodeStep ==
    ASSUME AccountsInv, NEW c \in Client, SetCode(c)
    PROVE  AccountsInv'
<1> DEFINE r == request[c]
           t == request'[c]
           key == KeyOf(c)
           new == lastCode + 1
           memory == [code |-> new]
<1>1. /\ r.op \in {"register", "resend", "forgot"} /\ r.phase = "code"
      /\ lastCode' = new /\ codes' = [codes EXCEPT ![key] = new] /\ Keeps(c, "mail", memory)
      /\ UNCHANGED <<users, lastUser, refresh, inbox, issued, spent>>
  BY DEF SetCode, In
<1>2. AsksForCode(r) /\ {"op", "phase"} \subseteq DOMAIN r
  BY <1>1, UnderWay DEF AccountsInv
<1>3. key = KeyFor(r) /\ key \in Purpose \X Address
  BY <1>2, KeyIsKey DEF AsksForCode
<1>4. DOMAIN memory = {"code"} /\ memory["code"] = new
  OBVIOUS
<1> HIDE DEF memory, key
<1>5. /\ DOMAIN request' = Client /\ \A d \in Client \ {c} : request'[d] = request[d]
      /\ DOMAIN t = {"code"} \cup DOMAIN r /\ t.op = r.op /\ t.phase = "mail" /\ t["code"] = new
      /\ \A f \in DOMAIN r \ {"code", "phase"} : t[f] = r[f]
  BY <1>1, <1>2, <1>4, KeptRequest DEF AccountsInv
<1>6. t["email"] = r["email"]
  BY <1>2, <1>5 DEF AsksForCode
<1>7. RequestOK(request[c])'
  BY <1>1, <1>2, <1>5, <1>6 DEF RequestOK, AsksForCode
<1>8. ASSUME NEW k, NEW it, Around(k, it)' PROVE Around(k, it) \/ (k = key /\ it = new)
  <2>1. CASE k \in Purpose \X Address /\ codes'[k] = it /\ it # 0
    BY <1>1, <1>3, <2>1 DEF Around, AccountsInv, CodesInv
  <2>2. CASE [key |-> k, code |-> it] \in inbox'
    BY <1>1, <2>2 DEF Around
  <2>3. ASSUME NEW d \in Client, HasCode(request'[d]), KeyFor(request'[d]) = k, request'[d].code = it
        PROVE  Around(k, it) \/ (k = key /\ it = new)
    <3>1. CASE d = c
      BY <1>3, <1>5, <1>6, <2>3, <3>1 DEF KeyFor
    <3>2. CASE d # c
      BY <1>5, <2>3, <3>2 DEF Around
    <3>3. QED
      BY <3>1, <3>2
  <2>4. QED
    BY <1>8, <2>1, <2>2, <2>3 DEF Around
<1>9. CodesInv'
  <2>1. \A k, it : Around(k, it) => it \in 1..lastCode
    BY DEF AccountsInv, CodesInv
  <2>2. lastCode \in Nat /\ lastCode' = lastCode + 1
    BY <1>1 DEF AccountsInv, CodesInv
  <2>3. \A k, it : Around(k, it)' => it \in 1..lastCode'
    BY <1>8, <2>1, <2>2
  <2>4. \A k, other, it : Around(k, it)' /\ Around(other, it)' => k = other
    BY <1>8, <2>1, <2>2 DEF AccountsInv, CodesInv
  <2>5. \A it : <<"code", it>> \in spent' => it \in 1..lastCode' /\ \A k \in Purpose \X Address : codes'[k] # it
    BY <1>1, <1>3, <2>2 DEF AccountsInv, CodesInv
  <2>6. codes' \in [Purpose \X Address -> Nat] /\ inbox' \subseteq [key : Purpose \X Address, code : Nat]
    <3>1. codes \in [Purpose \X Address -> Nat] /\ codes' = [codes EXCEPT ![key] = new] /\ new \in Nat
      BY <1>1, <2>2 DEF AccountsInv, CodesInv
    <3> HIDE DEF new
    <3>2. codes' \in [Purpose \X Address -> Nat]
      BY <3>1
    <3>3. QED
      BY <1>1, <3>2 DEF AccountsInv, CodesInv
  <2>7. QED
    BY <2>2, <2>3, <2>4, <2>5, <2>6 DEF CodesInv
<1>10. RowsInv' /\ UsersGrow
  BY <1>1, UsersRemain DEF AccountsInv
<1>11. TokensInv' /\ TokensGrow
  BY <1>1, <1>10, TokensRemain DEF AccountsInv
<1>12. QED
  BY <1>5, <1>7, <1>9, <1>10, <1>11, StepOfOne

\* A code is deleted, and the request goes on without it or ends.
LEMMA UndoCodeStep ==
    ASSUME AccountsInv, NEW c \in Client, UndoCode(c)
    PROVE  AccountsInv'
<1>1. /\ request[c].op = "register" /\ request[c].phase = "undo-code" /\ Close(c)
      /\ codes' = [codes EXCEPT ![KeyOf(c)] = 0]
      /\ UNCHANGED <<users, lastUser, refresh, inbox, lastCode, issued, spent>>
  BY DEF UndoCode, In
<1>2. /\ DOMAIN request' = Client /\ \A d \in Client \ {c} : request'[d] = request[d]
      /\ request'[c] = NoRequest
  BY <1>1, ClosedRequest DEF AccountsInv
<1>3. RequestOK(request[c])' /\ ~HasCode(request'[c])
  BY <1>2 DEF RequestOK, HasCode, NoRequest
<1>4. RowsInv' /\ UsersGrow
  BY <1>1, UsersRemain DEF AccountsInv
<1>5. TokensInv' /\ TokensGrow
  BY <1>1, <1>4, TokensRemain DEF AccountsInv
<1>6. CodesInv'
  <2>1. codes' \in [Purpose \X Address -> Nat] /\ \A key \in Purpose \X Address : codes'[key] \in {0, codes[key]}
    BY <1>1 DEF AccountsInv, CodesInv
  <2>2. QED
    BY <1>1, <1>2, <1>3, <2>1, CodesRemain DEF AccountsInv, CodesInv
<1>7. QED
  BY <1>2, <1>3, <1>4, <1>5, <1>6, StepOfOne

\* The code that served is not in Redis any more, under its key or another.
LEMMA BurnCodeStep ==
    ASSUME AccountsInv, NEW c \in Client, BurnCode(c)
    PROVE  AccountsInv'
<1> DEFINE r == request[c]
           key == KeyOf(c)
<1>1. /\ r.op \in {"verify", "reset"} /\ r.phase = "burn" /\ Close(c)
      /\ codes' = [codes EXCEPT ![key] = 0]
      /\ spent' = spent \cup {<<"code", r.code>>}
      /\ UNCHANGED <<users, lastUser, refresh, inbox, lastCode, issued>>
  BY DEF BurnCode, Burnt, In
<1>2. EntersCode(r)
  BY <1>1, UnderWay DEF AccountsInv
<1>3. key = KeyFor(r) /\ key \in Purpose \X Address
  BY <1>2, KeyIsKey DEF EntersCode
<1> HIDE DEF key
<1>4. /\ DOMAIN request' = Client /\ \A d \in Client \ {c} : request'[d] = request[d]
      /\ request'[c] = NoRequest
  BY <1>1, ClosedRequest DEF AccountsInv
<1>5. RequestOK(request[c])' /\ ~HasCode(request'[c])
  BY <1>4 DEF RequestOK, HasCode, NoRequest
<1>6. RowsInv' /\ UsersGrow
  BY <1>1, UsersRemain DEF AccountsInv
<1>7. TokensInv' /\ TokensGrow
  <2>1. \A j : <<"token", j>> \in spent' => <<"token", j>> \in spent
    BY <1>1
  <2>2. QED
    BY <1>1, <1>6, <2>1, TokensRemain DEF AccountsInv
<1>8. ASSUME NEW k, NEW it, Around(k, it)' PROVE Around(k, it)
  <2>1. CASE k \in Purpose \X Address /\ codes'[k] = it /\ it # 0
    BY <1>1, <2>1 DEF Around, AccountsInv, CodesInv
  <2>2. CASE [key |-> k, code |-> it] \in inbox'
    BY <1>1, <2>2 DEF Around
  <2>3. ASSUME NEW d \in Client, HasCode(request'[d]), KeyFor(request'[d]) = k, request'[d].code = it
        PROVE  Around(k, it)
    BY <1>4, <1>5, <2>3 DEF Around
  <2>4. QED
    BY <1>8, <2>1, <2>2, <2>3 DEF Around
<1>9. r.code \in 1..lastCode /\ \A k \in Purpose \X Address : codes'[k] # r.code
  <2>1. Around(key, r.code)
    BY <1>1, <1>3 DEF Around, HasCode
  <2>2. r.code \in 1..lastCode /\ r.code # 0
    BY <2>1 DEF AccountsInv, CodesInv
  <2>3. ASSUME NEW k \in Purpose \X Address, codes'[k] = r.code PROVE FALSE
    <3>1. k # key /\ codes[k] = r.code
      BY <1>1, <2>2, <2>3 DEF AccountsInv, CodesInv
    <3>2. Around(k, r.code)
      BY <2>2, <3>1 DEF Around
    <3>3. QED
      BY <2>1, <3>1, <3>2 DEF AccountsInv, CodesInv
  <2>4. QED
    BY <2>2, <2>3
<1>10. CodesInv'
  <2>1. codes' \in [Purpose \X Address -> Nat] /\ \A k \in Purpose \X Address : codes'[k] \in {0, codes[k]}
    BY <1>1 DEF AccountsInv, CodesInv
  <2>2. \A it : <<"code", it>> \in spent' =>
          it \in 1..lastCode' /\ \A k \in Purpose \X Address : codes'[k] # it
    <3>1. ASSUME NEW it, <<"code", it>> \in spent'
          PROVE  it \in 1..lastCode' /\ \A k \in Purpose \X Address : codes'[k] # it
      <4>1. it = r.code \/ <<"code", it>> \in spent
        BY <1>1, <3>1
      <4>2. QED
        BY <1>1, <1>9, <2>1, <4>1 DEF AccountsInv, CodesInv
    <3>2. QED
      BY <3>1
  <2>3. QED
    BY <1>1, <1>8, <2>1, <2>2 DEF AccountsInv, CodesInv
<1>11. QED
  BY <1>4, <1>5, <1>6, <1>7, <1>10, StepOfOne

\* A mail holds the code of its request.
LEMMA MailStep ==
    ASSUME AccountsInv, NEW c \in Client, SendMail(c) \/ MailFails(c)
    PROVE  AccountsInv'
<1> DEFINE r == request[c]
           t == request'[c]
           key == KeyOf(c)
<1>1. /\ r.op \in {"register", "resend", "forgot"} /\ r.phase = "mail"
      /\ inbox' \subseteq inbox \cup {[key |-> key, code |-> r.code]}
      /\ GoesTo(c, "undo") \/ Close(c)
      /\ UNCHANGED <<users, lastUser, codes, refresh, lastCode, issued, spent>>
  BY DEF SendMail, MailFails, Mailed, In, redisKeys
<1>2. AsksForCode(r) /\ {"op", "phase"} \subseteq DOMAIN r
  BY <1>1, UnderWay DEF AccountsInv
<1>3. key = KeyFor(r) /\ key \in Purpose \X Address
  BY <1>2, KeyIsKey DEF AsksForCode
<1>4. Around(key, r.code)
  BY <1>1, <1>3 DEF Around, HasCode
<1> HIDE DEF key
<1>5. /\ DOMAIN request' = Client /\ \A d \in Client \ {c} : request'[d] = request[d]
      /\ RequestOK(request[c])' /\ ~HasCode(t)
  <2>1. CASE GoesTo(c, "undo")
    <3>1. /\ DOMAIN request' = Client /\ \A d \in Client \ {c} : request'[d] = request[d]
          /\ DOMAIN t = DOMAIN r /\ t.op = r.op /\ t.phase = "undo"
          /\ \A f \in DOMAIN r \ {"phase"} : t[f] = r[f]
      BY <1>2, <2>1, MovedRequest DEF AccountsInv
    <3>2. t["email"] = r["email"]
      BY <1>2, <3>1 DEF AsksForCode
    <3>3. QED
      BY <1>1, <1>2, <3>1, <3>2 DEF RequestOK, AsksForCode, HasCode
  <2>2. CASE Close(c)
    BY <2>2, ClosedRequest DEF AccountsInv, RequestOK, HasCode, NoRequest
  <2>3. QED
    BY <1>1, <2>1, <2>2
<1>6. ASSUME NEW k, NEW it, Around(k, it)' PROVE Around(k, it)
  <2>1. CASE k \in Purpose \X Address /\ codes'[k] = it /\ it # 0
    BY <1>1, <2>1 DEF Around
  <2>2. CASE [key |-> k, code |-> it] \in inbox'
    <3>1. CASE [key |-> k, code |-> it] \in inbox
      BY <3>1 DEF Around
    <3>2. CASE [key |-> k, code |-> it] = [key |-> key, code |-> r.code]
      BY <1>4, <3>2
    <3>3. QED
      BY <1>1, <2>2, <3>1, <3>2
  <2>3. ASSUME NEW d \in Client, HasCode(request'[d]), KeyFor(request'[d]) = k, request'[d].code = it
        PROVE  Around(k, it)
    BY <1>5, <2>3 DEF Around
  <2>4. QED
    BY <1>6, <2>1, <2>2, <2>3 DEF Around
<1>7. CodesInv'
  <2>1. r.code \in Nat
    BY <1>4 DEF AccountsInv, CodesInv
  <2>2. inbox' \subseteq [key : Purpose \X Address, code : Nat]
    BY <1>1, <1>3, <2>1 DEF AccountsInv, CodesInv
  <2>3. QED
    BY <1>1, <1>6, <2>2 DEF AccountsInv, CodesInv
<1>8. RowsInv' /\ UsersGrow
  BY <1>1, UsersRemain DEF AccountsInv
<1>9. TokensInv' /\ TokensGrow
  BY <1>1, <1>8, TokensRemain DEF AccountsInv
<1>10. QED
  BY <1>5, <1>7, <1>8, <1>9, StepOfOne

\* Whoever gets tokens is vouched for.
LEMMA IssueStep ==
    ASSUME AccountsInv, NEW c \in Client, Issue(c)
    PROVE  AccountsInv'
<1> DEFINE r == request[c]
           n == Len(issued) + 1
<1>1. /\ r.phase = "issue" /\ Close(c)
      /\ issued' = Append(issued, r.user) /\ refresh' = refresh \cup {Len(issued')}
      /\ UNCHANGED <<users, lastUser, codes, inbox, lastCode, spent>>
  BY DEF Issue
<1>2. Vouched(r.user)
  <2>1. RequestOK(r) /\ r # NoRequest
    BY <1>1 DEF AccountsInv, NoRequest
  <2>2. CASE SignsIn(r)
    BY <1>1, <2>2 DEF SignsIn
  <2>3. CASE Rotates(r)
    BY <2>3 DEF Rotates, AccountsInv, TokensInv
  <2>4. ~AsksForCode(r) /\ ~EntersCode(r) /\ ~ChangesPassword(r)
    BY <1>1 DEF AsksForCode, EntersCode, ChangesPassword
  <2>5. QED
    BY <2>1, <2>2, <2>3, <2>4 DEF RequestOK
<1>3. /\ issued' \in Seq(User) /\ Len(issued') = n /\ issued'[n] = r.user /\ Len(issued) \in Nat
      /\ \A j \in 1..Len(issued) : issued'[j] = issued[j]
  BY <1>1, <1>2 DEF AccountsInv, TokensInv, Vouched
<1>4. RowsInv' /\ UsersGrow
  BY <1>1, UsersRemain DEF AccountsInv
<1>5. TokensInv' /\ TokensGrow
  <2>1. TokensGrow
    BY <1>3 DEF TokensGrow
  <2>2. ASSUME NEW j \in 1..n PROVE Vouched(issued[j])'
    <3>1. j \in 1..Len(issued) \/ j = n
      BY <1>3
    <3>2. QED
      BY <1>1, <1>2, <1>3, <3>1 DEF AccountsInv, TokensInv, Vouched
  <2>3. refresh' \subseteq 1..n
    <3>1. refresh' = refresh \cup {n} /\ n = Len(issued) + 1
      BY <1>1, <1>3
    <3>2. refresh \subseteq 1..Len(issued)
      BY DEF AccountsInv, TokensInv
    <3>3. Len(issued) \in Nat
      BY <1>3
    <3> HIDE DEF n
    <3>4. ASSUME NEW j \in refresh' PROVE j \in 1..n
      <4>1. j = n \/ j \in 1..Len(issued)
        BY <3>1, <3>2
      <4>2. QED
        BY <3>1, <3>3, <4>1
    <3>5. QED
      BY <3>4
  <2>4. ASSUME NEW j, <<"token", j>> \in spent' PROVE j \in (1..n) \ refresh'
    <3>1. j \in (1..Len(issued)) \ refresh
      BY <1>1, <2>4 DEF AccountsInv, TokensInv
    <3>2. QED
      BY <1>1, <1>3, <3>1
  <2>5. QED
    BY <1>3, <2>1, <2>2, <2>3, <2>4 DEF TokensInv
<1>6. /\ DOMAIN request' = Client /\ \A d \in Client \ {c} : request'[d] = request[d]
      /\ request'[c] = NoRequest
  BY <1>1, ClosedRequest DEF AccountsInv
<1>7. RequestOK(request[c])' /\ ~HasCode(request'[c])
  BY <1>6 DEF RequestOK, HasCode, NoRequest
<1>8. CodesInv'
  BY <1>1, <1>6, <1>7, CodesRemain DEF AccountsInv, CodesInv
<1>9. QED
  BY <1>4, <1>5, <1>6, <1>7, <1>8, StepOfOne

LEMMA DeleteTokenStep ==
    ASSUME AccountsInv, NEW c \in Client, DeleteToken(c)
    PROVE  AccountsInv'
<1> DEFINE r == request[c]
           t == request'[c]
<1>1. /\ r.op = "rotate" /\ r.phase = "delete" /\ GoesTo(c, "reload")
      /\ refresh' = refresh \ {r.jti} /\ spent' = spent \cup {<<"token", r.jti>>}
      /\ UNCHANGED <<users, lastUser, codes, inbox, lastCode, issued>>
  BY DEF DeleteToken, RevokedToken, In
<1>2. Rotates(r) /\ {"op", "phase"} \subseteq DOMAIN r
  BY <1>1, UnderWay DEF AccountsInv
<1>3. /\ DOMAIN request' = Client /\ \A d \in Client \ {c} : request'[d] = request[d]
      /\ DOMAIN t = DOMAIN r /\ t.op = r.op /\ t.phase = "reload"
      /\ \A f \in DOMAIN r \ {"phase"} : t[f] = r[f]
  BY <1>1, <1>2, MovedRequest DEF AccountsInv
<1>4. t["jti"] = r["jti"] /\ t["user"] = r["user"] /\ t["before"] = r["before"]
  BY <1>2, <1>3 DEF Rotates
<1>5. RequestOK(request[c])' /\ ~HasCode(t)
  BY <1>1, <1>2, <1>3, <1>4 DEF RequestOK, Rotates, HasCode
<1>6. RowsInv' /\ UsersGrow
  BY <1>1, UsersRemain DEF AccountsInv
<1>7. TokensInv' /\ TokensGrow
  <2>1. ASSUME NEW j, <<"token", j>> \in spent' PROVE j \in (1..Len(issued)) \ refresh'
    <3>1. j = r.jti \/ <<"token", j>> \in spent
      BY <1>1, <2>1
    <3>2. QED
      BY <1>1, <1>2, <3>1 DEF Rotates, AccountsInv, TokensInv
  <2>2. ASSUME NEW j \in 1..Len(issued) PROVE Vouched(issued[j])'
    BY <1>1 DEF AccountsInv, TokensInv, Vouched
  <2>3. Len(issued) \in Nat
    BY DEF AccountsInv, TokensInv
  <2>4. TokensGrow
    BY <1>1, <2>3 DEF TokensGrow
  <2>5. TokensInv'
    BY <1>1, <2>1, <2>2 DEF AccountsInv, TokensInv
  <2>6. QED
    BY <2>4, <2>5
<1>8. CodesInv'
  <2>1. \A k : <<"code", k>> \in spent' => <<"code", k>> \in spent
    BY <1>1
  <2>2. QED
    BY <1>1, <1>3, <1>5, <2>1, CodesRemain DEF AccountsInv, CodesInv
<1>9. QED
  BY <1>3, <1>5, <1>6, <1>7, <1>8, StepOfOne

\* Keys that expire, and a step that changes nothing of the accounts.
LEMMA ExpiryStep ==
    ASSUME AccountsInv, KeyExpires \/ UNCHANGED accountVars
    PROVE  AccountsInv'
<1>1. /\ codes' = codes \/ \E key \in Purpose \X Address : codes' = [codes EXCEPT ![key] = 0]
      /\ refresh' \subseteq refresh
      /\ UNCHANGED <<users, lastUser, inbox, lastCode, issued, spent, request>>
  BY DEF KeyExpires, accountVars, redisKeys, AccountsInv, CodesInv
<1>2. RowsInv' /\ UsersGrow
  BY <1>1, UsersRemain DEF AccountsInv
<1>3. TokensInv' /\ TokensGrow
  BY <1>1, <1>2, TokensRemain DEF AccountsInv
<1>4. codes' \in [Purpose \X Address -> Nat] /\ \A key \in Purpose \X Address : codes'[key] \in {0, codes[key]}
  BY <1>1 DEF AccountsInv, CodesInv
<1>5. \A key, k : Around(key, k)' => Around(key, k)
  BY <1>1, <1>4 DEF Around
<1>6. CodesInv'
  <2>1. \A k : <<"code", k>> \in spent' =>
          k \in 1..lastCode' /\ \A key \in Purpose \X Address : codes'[key] # k
    BY <1>1, <1>4 DEF AccountsInv, CodesInv
  <2>2. QED
    BY <1>1, <1>4, <1>5, <2>1 DEF AccountsInv, CodesInv
<1>7. ASSUME NEW d \in Client PROVE RequestOK(request[d])'
  BY <1>1, <1>2, <1>3, OthersRemain DEF AccountsInv, RowsInv
<1>8. QED
  BY <1>1, <1>2, <1>3, <1>6, <1>7 DEF AccountsInv

-----------------------------------------------------------------------------
\* The theorems.

LEMMA AccountsStartInOrder == InitAccounts => AccountsInv
<1> SUFFICES ASSUME InitAccounts PROVE AccountsInv
  OBVIOUS
<1>1. RowsInv
  <2>1. PICK email \in Address, v \in BOOLEAN :
          \E first \in {NoUser, FromGoogle, Registered(email, v)} :
            users = [u \in User |-> IF u = 1 THEN first ELSE NoUser]
    BY DEF InitAccounts
  <2>2. PICK first \in {NoUser, FromGoogle, Registered(email, v)} :
          users = [u \in User |-> IF u = 1 THEN first ELSE NoUser]
    BY <2>1
  <2>3. first \in UserRow /\ (first.google => first.verified)
    <3>1. CASE first = NoUser
      BY <3>1, NewRows DEF NoUser
    <3>2. CASE first = FromGoogle
      BY <3>2, NewRows
    <3>3. CASE first = Registered(email, v)
      BY <3>3, NewRows
    <3>4. QED
      BY <2>2, <3>1, <3>2, <3>3
  <2>4. QED
    BY <2>2, <2>3, NewRows DEF InitAccounts, RowsInv, User
<1>2. TokensInv
  BY DEF InitAccounts, TokensInv
<1>3. \A c \in Client : request[c] = NoRequest
  BY DEF InitAccounts
<1>4. \A key, k : ~Around(key, k)
  BY <1>3 DEF InitAccounts, Around, HasCode, NoRequest
<1>5. CodesInv
  BY <1>4 DEF InitAccounts, CodesInv
<1>6. QED
  BY <1>1, <1>2, <1>3, <1>5 DEF InitAccounts, AccountsInv, RequestOK

LEMMA AccountsStayInOrder == AccountsInv /\ [NextAccounts]_accountVars => AccountsInv'
<1> SUFFICES ASSUME AccountsInv, [NextAccounts]_accountVars PROVE AccountsInv'
  OBVIOUS
<1>1. ASSUME NEW c \in Client, Register(c) \/ Resend(c) \/ Forgot(c) PROVE AccountsInv'
  BY <1>1, OpensForCode
<1>2. ASSUME NEW c \in Client, EnterCode(c) PROVE AccountsInv'
  BY <1>2, EnterCodeStep
<1>3. ASSUME NEW c \in Client, Login(c) PROVE AccountsInv'
  BY <1>3, LoginStep
<1>4. ASSUME NEW c \in Client, GoogleById(c) PROVE AccountsInv'
  BY <1>4, GoogleByIdStep
<1>5. ASSUME NEW c \in Client, LoadForPassword(c) PROVE AccountsInv'
  BY <1>5, LoadForPasswordStep
<1>6. ASSUME NEW c \in Client, Rotate(c) PROVE AccountsInv'
  BY <1>6, RotateStep
<1>7. ASSUME NEW c \in Client, Cool(c) \/ FindUnverified(c) PROVE AccountsInv'
  BY <1>7, LookingStep
<1>8. ASSUME NEW c \in Client, FindForCode(c) PROVE AccountsInv'
  BY <1>8, FindForCodeStep
<1>9. ASSUME NEW c \in Client, GoogleByEmail(c) PROVE AccountsInv'
  BY <1>9, GoogleByEmailStep
<1>10. ASSUME NEW c \in Client, ReadWinner(c) PROVE AccountsInv'
  BY <1>10, ReadWinnerStep
<1>11. ASSUME NEW c \in Client, Reload(c) PROVE AccountsInv'
  BY <1>11, ReloadStep
<1>12. ASSUME NEW c \in Client, SaveVerified(c) PROVE AccountsInv'
  BY <1>12, SaveVerifiedStep
<1>13. ASSUME NEW c \in Client, LinkGoogle(c) PROVE AccountsInv'
  BY <1>13, LinkGoogleStep
<1>14. ASSUME NEW c \in Client, SavePassword(c) PROVE AccountsInv'
  BY <1>14, SavePasswordStep
<1>15. ASSUME NEW c \in Client, Insert(c) PROVE AccountsInv'
  BY <1>15, InsertStep
<1>16. ASSUME NEW c \in Client, CreateFromGoogle(c) PROVE AccountsInv'
  BY <1>16, CreateFromGoogleStep
<1>17. ASSUME NEW c \in Client, UndoAccount(c) PROVE AccountsInv'
  BY <1>17, UndoAccountStep
<1>18. ASSUME NEW c \in Client, SetCode(c) PROVE AccountsInv'
  BY <1>18, SetCodeStep
<1>19. ASSUME NEW c \in Client, UndoCode(c) PROVE AccountsInv'
  BY <1>19, UndoCodeStep
<1>20. ASSUME NEW c \in Client, BurnCode(c) PROVE AccountsInv'
  BY <1>20, BurnCodeStep
<1>21. ASSUME NEW c \in Client, SendMail(c) \/ MailFails(c) PROVE AccountsInv'
  BY <1>21, MailStep
<1>22. ASSUME NEW c \in Client, Issue(c) PROVE AccountsInv'
  BY <1>22, IssueStep
<1>23. ASSUME NEW c \in Client, DeleteToken(c) PROVE AccountsInv'
  BY <1>23, DeleteTokenStep
<1>24. CASE KeyExpires \/ UNCHANGED accountVars
  BY <1>24, ExpiryStep
<1>25. QED
  BY <1>1, <1>2, <1>3, <1>4, <1>5, <1>6, <1>7, <1>8, <1>9, <1>10, <1>11, <1>12, <1>13,
     <1>14, <1>15, <1>16, <1>17, <1>18, <1>19, <1>20, <1>21, <1>22, <1>23, <1>24 DEF NextAccounts

LEMMA AccountsAreInOrder == AccountSpec => []AccountsInv
<1>1. QED
  BY AccountsStartInOrder, AccountsStayInOrder, PTL DEF AccountSpec

\* Whoever holds tokens of an account that is there is verified, however the
\* saves of the row overtook each other: none of them saves a row as loaded
\* that was not verified, and an id is never given twice.
THEOREM SignedInMeansVerifiedHolds == AccountSpec => []SignedInMeansVerified
<1>1. AccountsInv => SignedInMeansVerified
  <2> SUFFICES ASSUME AccountsInv, NEW u \in UserRows \cap Range(issued) PROVE users[u].verified
    BY DEF SignedInMeansVerified
  <2>1. PICK j \in 1..Len(issued) : issued[j] = u
    BY DEF Range, AccountsInv, TokensInv
  <2>2. QED
    BY <2>1 DEF AccountsInv, TokensInv, Vouched, UserRows, IsUser
<1>2. QED
  BY <1>1, AccountsAreInOrder, PTL

\* A code or a refresh token that served is not in Redis any more, so only the
\* requests that had read it by then are served again.
THEOREM ServesOnceHolds == AccountSpec => ServesOnce
<1> DEFINE Once(c) ==
      /\ In(c, "save", {"verify", "reset"}) /\ request'[c].phase = "burn"
           => <<"code", request[c].code>> \notin request[c].before
      /\ In(c, "delete", {"rotate"}) /\ request'[c].phase = "reload"
           => <<"token", request[c].jti>> \notin request[c].before
<1>1. ASSUME AccountsInv, NEW c \in Client PROVE Once(c)
  <2>1. In(c, "save", {"verify", "reset"}) => EntersCode(request[c])
    BY <1>1, UnderWay DEF AccountsInv, In
  <2>2. In(c, "delete", {"rotate"}) => Rotates(request[c])
    BY <1>1, UnderWay DEF AccountsInv, In
  <2>3. QED
    BY <2>1, <2>2 DEF EntersCode, Rotates
<1>2. AccountsInv => [\A c \in Client : Once(c)]_accountVars
  BY <1>1
<1>3. QED
  BY <1>2, AccountsAreInOrder, PTL DEF ServesOnce

-----------------------------------------------------------------------------
\* The account of a Google identity.

\* One row carries the identity, and of the accounts it signed in to, one that is
\* there does.
JoinInv ==
    /\ \A u, v \in ByGoogleId : u = v
    /\ joined \cap UserRows \subseteq ByGoogleId
    /\ \A u \in joined : u \in Nat /\ u <= lastUser

\* One row is written, or removed.
LEMMA RowJoins ==
    ASSUME RowsInv, JoinInv, lastUser' \in Nat, lastUser <= lastUser', NEW id \in User, NEW row \in UserRow,
           users' = [users EXCEPT ![id] = row],
           row.there /\ row.google => \A v \in UserRows \ {id} : ~users[v].google,
           joined' \subseteq joined \cup {id}, id \in joined' => id <= lastUser',
           id \in joined' /\ row.there => row.google
    PROVE  JoinInv'
<1>1. \A v \in User : users'[v] = IF v = id THEN row ELSE users[v]
  BY DEF RowsInv
<1>2. id \in Nat
  BY AccountBounds DEF User
<1>3. ASSUME NEW u \in ByGoogleId', NEW v \in ByGoogleId' PROVE u = v
  <2>1. /\ u \in User /\ users'[u].there /\ users'[u].google
        /\ v \in User /\ users'[v].there /\ users'[v].google
    BY <1>3 DEF ByGoogleId, UserRows, IsUser
  <2>2. CASE u # id /\ v # id
    <3>1. u \in ByGoogleId /\ v \in ByGoogleId
      BY <1>1, <2>1, <2>2 DEF ByGoogleId, UserRows, IsUser
    <3>2. QED
      BY <3>1 DEF JoinInv
  <2>3. ASSUME NEW x \in User, x # id, users'[x].there, users'[x].google, users'[id].there, users'[id].google
        PROVE  FALSE
    <3>1. x \in UserRows \ {id} /\ users[x].google /\ row.there /\ row.google
      BY <1>1, <2>3 DEF UserRows, IsUser
    <3>2. QED
      BY <3>1
  <2>4. QED
    BY <2>1, <2>2, <2>3
<1>4. ASSUME NEW u \in joined', u \in UserRows' PROVE u \in ByGoogleId'
  <2>1. u \in User /\ users'[u].there
    BY <1>4 DEF UserRows, IsUser
  <2>2. CASE u = id
    BY <1>1, <1>4, <2>1, <2>2 DEF ByGoogleId, UserRows, IsUser
  <2>3. CASE u # id
    <3>1. u \in joined /\ u \in UserRows
      BY <1>1, <1>4, <2>1, <2>3 DEF UserRows, IsUser
    <3>2. users[u].google
      BY <3>1 DEF JoinInv, ByGoogleId
    <3>3. QED
      BY <1>1, <2>1, <2>3, <3>2 DEF ByGoogleId, UserRows, IsUser
  <2>4. QED
    BY <2>2, <2>3
<1>5. ASSUME NEW u \in joined' PROVE u \in Nat /\ u <= lastUser'
  BY <1>2, <1>5 DEF JoinInv, RowsInv
<1>6. QED
  BY <1>3, <1>4, <1>5 DEF JoinInv

\* A save of a copy keeps the account joined only with the identity in it.
LEMMA SavedJoins ==
    ASSUME RowsInv, JoinInv, RowsInv', NEW u \in User, u <= lastUser, NEW row \in UserRow, WriteUser(u, row),
           ~Clashes(SavedAs(u), row),
           joined' = Keepers(u, row) \/ (row.google /\ joined' = joined \cup {SavedAs(u)})
    PROVE  JoinInv'
<1>1. PICK id : id = SavedAs(u)
  OBVIOUS
<1>2. /\ users' = [users EXCEPT ![id] = row] /\ id \in User /\ lastUser' \in Nat
      /\ lastUser <= lastUser' /\ id <= lastUser'
      /\ id = u \/ id = lastUser + 1
  BY <1>1 DEF WriteUser, SavedAs, InsertUser, NextId, RowsInv
<1>3. row.there /\ row.google => \A v \in UserRows \ {id} : ~users[v].google
  BY <1>1 DEF Clashes
<1>4. lastUser + 1 \notin joined
  BY DEF JoinInv, RowsInv
<1>5. joined' \subseteq joined \cup {id} /\ (id \in joined' => row.google)
  <2>1. CASE joined' = Keepers(u, row)
    BY <1>2, <1>4, <2>1 DEF Keepers
  <2>2. CASE row.google /\ joined' = joined \cup {SavedAs(u)}
    BY <1>1, <2>2
  <2>3. QED
    BY <2>1, <2>2
<1>6. QED
  BY <1>2, <1>3, <1>5, RowJoins

\* A row is inserted under an id nobody was given.
LEMMA InsertedJoins ==
    ASSUME RowsInv, JoinInv, RowsInv', NEW row \in UserRow, InsertUser(row), ~Clashes(NextId, row),
           joined' = joined \/ (row.google /\ joined' = joined \cup {NextId})
    PROVE  JoinInv'
<1>1. PICK id : id = NextId
  OBVIOUS
<1>2. /\ users' = [users EXCEPT ![id] = row] /\ id \in User /\ lastUser' \in Nat
      /\ lastUser <= lastUser' /\ id <= lastUser' /\ id = lastUser + 1
  BY <1>1 DEF InsertUser, NextId, RowsInv
<1>3. row.there /\ row.google => \A v \in UserRows \ {id} : ~users[v].google
  BY <1>1 DEF Clashes
<1>4. joined' \subseteq joined \cup {id} /\ (id \in joined' => row.google)
  BY <1>1, <1>2 DEF JoinInv, RowsInv
<1>5. QED
  BY <1>2, <1>3, <1>4, RowJoins

\* A sign-in that finds the identity finds the row that carries it.
LEMMA FoundJoins ==
    ASSUME RowsInv, JoinInv, UNCHANGED <<users, lastUser>>,
           joined' = joined \cup ({First(ByGoogleId)} \ {NoRow})
    PROVE  JoinInv'
<1>1. ByGoogleId' = ByGoogleId /\ UserRows' = UserRows
  BY DEF ByGoogleId, UserRows, IsUser
<1>2. ByGoogleId \subseteq User /\ \A u \in ByGoogleId : u <= lastUser
  BY RowsAreUsers
<1>3. First(ByGoogleId) # NoRow => First(ByGoogleId) \in ByGoogleId
  BY <1>2, FirstIsThere
<1>4. User \subseteq Nat
  BY AccountBounds DEF User
<1>5. QED
  BY <1>1, <1>2, <1>3, <1>4 DEF JoinInv

LEMMA JoinsStay == AccountsInv /\ JoinInv /\ [NextAccounts]_accountVars => JoinInv'
<1> SUFFICES ASSUME AccountsInv, JoinInv, [NextAccounts]_accountVars PROVE JoinInv'
  OBVIOUS
<1>1. RowsInv /\ RowsInv'
  BY AccountsStayInOrder DEF AccountsInv
<1>2. ASSUME UNCHANGED <<users, lastUser, joined>> PROVE JoinInv'
  BY <1>2 DEF JoinInv, ByGoogleId, UserRows, IsUser
<1>3. ASSUME NEW c \in Client, Insert(c) PROVE JoinInv'
  <2> DEFINE row == Registered(request[c].email, FALSE)
  <2>1. AsksForCode(request[c])
    BY <1>3, UnderWay DEF AccountsInv, Insert, In
  <2>2. row \in UserRow
    BY <2>1, NewRows DEF AsksForCode
  <2>3. UNCHANGED <<users, lastUser, joined>> \/ (~Clashes(NextId, row) /\ InsertUser(row) /\ joined' = joined)
    BY <1>3 DEF Insert
  <2> HIDE DEF row
  <2>4. QED
    BY <1>1, <1>2, <2>2, <2>3, InsertedJoins
<1>4. ASSUME NEW c \in Client, UndoAccount(c) PROVE JoinInv'
  <2>1. PICK u : u = request[c].user
    OBVIOUS
  <2>2. users' = [users EXCEPT ![u] = NoUser] /\ UNCHANGED <<lastUser, joined>>
    BY <1>4, <2>1 DEF UndoAccount
  <2>3. CASE u \in User
    <3>1. PICK row \in UserRow : row = NoUser /\ ~row.there
      BY NewRows
    <3>2. lastUser \in Nat /\ (u \in joined => u <= lastUser)
      BY <1>1 DEF JoinInv, RowsInv
    <3>3. users' = [users EXCEPT ![u] = row] /\ lastUser' = lastUser /\ joined' = joined
      BY <2>2, <3>1
    <3>4. lastUser' \in Nat /\ lastUser <= lastUser' /\ joined' \subseteq joined \cup {u}
      BY <3>2, <3>3
    <3>5. u \in joined' => u <= lastUser'
      BY <3>2, <3>3
    <3>6. QED
      BY <1>1, <2>3, <3>1, <3>3, <3>4, <3>5, RowJoins
  <2>4. CASE u \notin User
    <3>1. users' = users
      BY <1>1, <2>2, <2>4 DEF RowsInv
    <3>2. QED
      BY <1>2, <2>2, <3>1
  <2>5. QED
    BY <2>3, <2>4
<1>5. ASSUME NEW c \in Client, SaveVerified(c) PROVE JoinInv'
  <2> DEFINE r == request[c]
             row == [r.row EXCEPT !.verified = TRUE]
             saved == Saved(r.user, row, r.op = "reset")
  <2>1. EntersCode(r) /\ r.phase = "save"
    BY <1>5, UnderWay DEF AccountsInv, SaveVerified, In
  <2>2. r.user \in User /\ r.user <= lastUser /\ row \in UserRow
    BY <2>1 DEF EntersCode, UserRow
  <2>3. \/ UNCHANGED <<users, lastUser, joined>>
        \/ ~Clashes(SavedAs(r.user), saved) /\ WriteUser(r.user, saved) /\ joined' = Keepers(r.user, saved)
    BY <1>5 DEF SaveVerified
  <2>4. saved \in UserRow
    <3> HIDE DEF row
    <3>1. QED
      BY <1>1, <2>2, SavedRow
  <2> HIDE DEF saved
  <2>5. QED
    BY <1>1, <1>2, <2>2, <2>3, <2>4, SavedJoins
<1>6. ASSUME NEW c \in Client, SavePassword(c) PROVE JoinInv'
  <2> DEFINE r == request[c]
             saved == Saved(r.user, r.row, TRUE)
  <2>1. ChangesPassword(r)
    BY <1>6, UnderWay DEF AccountsInv, SavePassword, In
  <2>2. r.user \in User /\ r.user <= lastUser /\ r.row \in UserRow
    BY <2>1 DEF ChangesPassword
  <2>3. \/ UNCHANGED <<users, lastUser, joined>>
        \/ ~Clashes(SavedAs(r.user), saved) /\ WriteUser(r.user, saved) /\ joined' = Keepers(r.user, saved)
    BY <1>6 DEF SavePassword
  <2>4. saved \in UserRow
    BY <1>1, <2>2, SavedRow
  <2> HIDE DEF saved
  <2>5. QED
    BY <1>1, <1>2, <2>2, <2>3, <2>4, SavedJoins
<1>7. ASSUME NEW c \in Client, LinkGoogle(c) PROVE JoinInv'
  <2> DEFINE r == request[c]
             row == Linked(r.row)
             saved == Saved(r.user, row, FALSE)
  <2>1. SignsIn(r) /\ r.phase = "link"
    BY <1>7, UnderWay DEF AccountsInv, LinkGoogle, In
  <2>2. r.user \in User /\ r.user <= lastUser /\ row \in UserRow /\ row.google
    BY <2>1 DEF SignsIn, Linked, UserRow
  <2>3. \/ UNCHANGED <<users, lastUser, joined>>
        \/ /\ ~Clashes(SavedAs(r.user), saved) /\ WriteUser(r.user, saved)
           /\ joined' = joined \cup {SavedAs(r.user)}
    BY <1>7 DEF LinkGoogle
  <2>4. saved \in UserRow /\ saved.google
    <3>1. saved \in UserRow
      <4> HIDE DEF row
      <4>1. QED
        BY <1>1, <2>2, SavedRow
    <3>2. saved.google = row.google
      <4> HIDE DEF row
      <4>1. QED
        BY <2>2 DEF Saved, UserRow
    <3>3. QED
      BY <2>2, <3>1, <3>2
  <2> HIDE DEF saved
  <2>5. QED
    BY <1>1, <1>2, <2>2, <2>3, <2>4, SavedJoins
<1>8. ASSUME NEW c \in Client, CreateFromGoogle(c) PROVE JoinInv'
  <2>1. \/ UNCHANGED <<users, lastUser, joined>>
        \/ ~Clashes(NextId, FromGoogle) /\ InsertUser(FromGoogle) /\ joined' = joined \cup {NextId}
    BY <1>8 DEF CreateFromGoogle
  <2>2. FromGoogle \in UserRow /\ FromGoogle.google
    BY NewRows DEF FromGoogle
  <2> HIDE DEF FromGoogle
  <2>3. QED
    BY <1>1, <1>2, <2>1, <2>2, InsertedJoins
<1>9. ASSUME NEW c \in Client, GoogleById(c) \/ ReadWinner(c) PROVE JoinInv'
  <2>1. UNCHANGED <<users, lastUser>> /\ joined' = joined \cup ({First(ByGoogleId)} \ {NoRow})
    BY <1>9 DEF GoogleById, ReadWinner
  <2>2. QED
    BY <1>1, <2>1, FoundJoins
<1>10. ASSUME NEW c \in Client, Register(c) \/ Resend(c) \/ Forgot(c) \/ EnterCode(c) \/ Login(c)
                                \/ LoadForPassword(c) \/ Rotate(c)
       PROVE  UNCHANGED <<users, lastUser, joined>>
  BY <1>10 DEF Register, Resend, Forgot, EnterCode, Login, LoadForPassword, Rotate
<1>11. ASSUME NEW c \in Client, SetCode(c) \/ SendMail(c) \/ MailFails(c) \/ UndoCode(c) \/ Cool(c)
                                \/ FindUnverified(c) \/ FindForCode(c) \/ BurnCode(c)
       PROVE  UNCHANGED <<users, lastUser, joined>>
  BY <1>11 DEF SetCode, SendMail, MailFails, UndoCode, Cool, FindUnverified, FindForCode, BurnCode
<1>12. ASSUME NEW c \in Client, GoogleByEmail(c) \/ Issue(c) \/ DeleteToken(c) \/ Reload(c)
       PROVE  UNCHANGED <<users, lastUser, joined>>
  BY <1>12 DEF GoogleByEmail, Issue, DeleteToken, Reload
<1>13. CASE KeyExpires \/ UNCHANGED accountVars
  <2>1. UNCHANGED <<users, lastUser, joined>>
    BY <1>13 DEF KeyExpires, accountVars
  <2>2. QED
    BY <1>2, <2>1
<1>14. QED
  BY <1>2, <1>3, <1>4, <1>5, <1>6, <1>7, <1>8, <1>9, <1>10, <1>11, <1>12, <1>13 DEF NextAccounts

\* Sign-ins of one identity that raced a registration, a removal or each other
\* hold tokens of one account: the unique index on googleId lets one row carry
\* the identity, a sign-in that loses reads that row, and no other save but one
\* of an older copy takes the identity off.
THEOREM GoogleKeepsToOneAccountHolds == AccountSpec => []GoogleKeepsToOneAccount
<1>1. InitAccounts => JoinInv
  <2> SUFFICES ASSUME InitAccounts PROVE JoinInv
    OBVIOUS
  <2>1. joined = {} /\ \A u \in User : u # 1 => ~users[u].there
    BY NewRows DEF InitAccounts
  <2>2. \A u \in ByGoogleId : u = 1
    BY <2>1 DEF ByGoogleId, UserRows, IsUser
  <2>3. QED
    BY <2>1, <2>2 DEF JoinInv
<1>2. JoinInv => GoogleKeepsToOneAccount
  BY DEF JoinInv, GoogleKeepsToOneAccount
<1>3. QED
  BY <1>1, <1>2, JoinsStay, AccountsAreInOrder, PTL DEF AccountSpec

-----------------------------------------------------------------------------
\* The onboarding of SiteBuilder.

BuilderSpec == InitBuilder /\ [][NextBuilder]_builderVars

DraftRow == [there : BOOLEAN, step : 0..Published, logo : Nat]
ShopRow == [there : BOOLEAN, slug : Slug \cup {""}, live : BOOLEAN, logo : Nat, monogram : BOOLEAN]

At(v, op, phases) == v.op = op /\ v.phase \in phases

\* The requests that have a copy of the store to save, and those that have
\* chosen the logo it will have.
HasShop(v) == At(v, "confirm", {"save-store"}) \/ (v.op = "publish" /\ v.phase # "save") \/ v.op = "hero"
HasLogo(v) == At(v, "publish", {"destroy", "live"})

VisitRow(v) ==
    /\ {"op", "phase", "draft", "over"} \subseteq DOMAIN v /\ v.draft \in DraftRow /\ v.over \in BOOLEAN
    /\ \/ At(v, "brainstorm", {"logo", "save", "prefill"})
       \/ At(v, "brainstorm", {"destroy"}) /\ "old" \in DOMAIN v
       \/ At(v, "answers", {"save"}) /\ "to" \in DOMAIN v /\ v.to = Answered
       \/ At(v, "generate", {"themes", "save"}) /\ "to" \in DOMAIN v /\ v.to = Themed
       \/ At(v, "confirm", {"store", "save-store", "save"})
          /\ {"to", "slug"} \subseteq DOMAIN v /\ v.to = DomainConfirmed /\ v.slug \in Slug
       \/ At(v, "publish", {"clear", "select", "logo", "destroy", "live", "save"})
          /\ {"to", "theme"} \subseteq DOMAIN v /\ v.to = Published
       \/ At(v, "hero", {"save"})
    /\ HasShop(v) => "shop" \in DOMAIN v /\ v.shop \in ShopRow
    /\ HasLogo(v) => "old" \in DOMAIN v

VisitsOK == DOMAIN visit = Window /\ \A w \in Window : visit[w] = NoVisit \/ VisitRow(visit[w])

\* What a request that nobody overtook has of the rows is still true of them.
Current(v, d, s) ==
    v.over \/
    /\ v.draft.step = d.step
    /\ At(v, "confirm", {"store", "save-store"}) => d.step # Published
    /\ At(v, "confirm", {"save-store"})
         => v.shop.live = s.live /\ v.shop.logo = s.logo /\ v.shop.monogram = s.monogram
    /\ HasShop(v) /\ v.op = "publish" => v.shop.slug = s.slug
    /\ v.op = "hero" => v.shop = s

\* A store is live when its draft is published, or about to be.
StepsOK ==
    /\ draft \in DraftRow /\ shop \in ShopRow /\ torn \in BOOLEAN
    /\ torn \/ \A w \in Window : visit[w] = NoVisit \/ Current(visit[w], draft, shop)
    /\ torn \/ ~shop.live \/ draft.step = Published \/ \E w \in Window : At(visit[w], "publish", {"save"})

\* Somebody has chosen a theme, and nobody else can have cleared it.
Wears == shop.live \/ \E w \in Window : Publishing(w) \/ (HasShop(visit[w]) /\ visit[w].shop.live)
ThemeOK ==
    \/ crossed
    \/ selected = {} /\ \E w \in Window : Selecting(w)
    \/ selected = {} /\ ~Wears
    \/ \E theme : selected = {theme} /\ \A w \in Window : ~Selecting(w)

\* Logos uploaded and logos drawn are told apart by a set of the former.
ShowsLogo(row, up) ==
    IF row.monogram THEN row.logo \in 1..lastLogo \ up ELSE row.logo \in up \cup {0}
LiveHasLogo(row) == row.live => row.logo # 0

VisitShows(v, up) ==
    /\ v.draft.logo \in up \cup {0}
    /\ HasShop(v) => ShowsLogo(v.shop, up) /\ LiveHasLogo(v.shop)
    /\ At(v, "publish", {"destroy"}) => v.old \in 1..lastLogo \ up
    /\ HasLogo(v) => v.shop.live

\* A monogram is its publication's own until the store has it.
Draws(v) == HasLogo(v) /\ v.shop.monogram
OwnMonogram(w, logo) ==
    /\ logo \in logoAssets \cup retired
    /\ shop.logo # logo
    /\ \A v \in Window \ {w} : HasShop(visit[v]) => visit[v].shop.logo # logo
    /\ \A v \in Window : At(visit[v], "publish", {"destroy"}) => visit[v].old # logo

\* The monogram of the store is there, or its successor is on the way.
MonogramIsThere ==
    \/ torn \/ ~shop.monogram \/ shop.logo \in logoAssets \cup retired
    \/ \E w \in Window : At(visit[w], "publish", {"live"}) /\ visit[w].old = shop.logo

LogosOK(up) ==
    /\ lastLogo \in Nat
    /\ up \subseteq 1..lastLogo /\ up \subseteq logoAssets \cup retired
    /\ draft.logo \in up \cup {0} /\ ShowsLogo(shop, up) /\ LiveHasLogo(shop)
    /\ \A w \in Window : visit[w] = NoVisit \/ VisitShows(visit[w], up)
    /\ \A w \in Window : Draws(visit[w]) => OwnMonogram(w, visit[w].shop.logo)
    /\ MonogramIsThere

BuilderInv == VisitsOK /\ StepsOK /\ ThemeOK /\ \E up : LogosOK(up)


\* Of the requests but that of w, some may be overtaken and the rest is as it was.
Twin(a, b) ==
    \/ a = NoVisit /\ b = NoVisit
    \/ /\ VisitRow(a) /\ VisitRow(b) /\ b.op = a.op /\ b.phase = a.phase /\ b.draft = a.draft
       /\ HasShop(a) => b.shop = a.shop
       /\ HasLogo(a) => b.old = a.old
OthersAlike(w) == DOMAIN visit' = Window /\ \A v \in Window \ {w} : Twin(visit[v], visit'[v])

\* The request of w moves while the others stay; or it saves and overtakes them.
OneVisits(w) == DOMAIN visit' = Window /\ \A v \in Window \ {w} : visit'[v] = visit[v]

LEMMA NoVisitIsNoRow ==
    /\ NoVisit.op = "none" /\ ~VisitRow(NoVisit) /\ ~HasShop(NoVisit) /\ ~HasLogo(NoVisit)
    /\ \A op, phases : op # "none" => ~At(NoVisit, op, phases)
BY DEF NoVisit, VisitRow, HasShop, HasLogo, At

LEMMA OvertakenRow ==
    ASSUME NEW v, VisitRow(v)
    PROVE  /\ Twin(v, [v EXCEPT !.over = TRUE])
           /\ [v EXCEPT !.over = TRUE].over = TRUE
<1> DEFINE b == [v EXCEPT !.over = TRUE]
<1>1. DOMAIN b = DOMAIN v /\ b.over = TRUE /\ \A f \in DOMAIN v \ {"over"} : b[f] = v[f]
  BY DEF VisitRow
<1> HIDE DEF b
<1>2. b.op = v.op /\ b.phase = v.phase /\ b.draft = v.draft
  BY <1>1 DEF VisitRow
<1>3. (HasShop(v) => b.shop = v.shop) /\ (HasLogo(v) => b.old = v.old)
  BY <1>1 DEF VisitRow
<1>4. (HasShop(b) <=> HasShop(v)) /\ (HasLogo(b) <=> HasLogo(v))
  BY <1>2 DEF HasShop, HasLogo, At
<1>5. /\ "to" \in DOMAIN v => b.to = v.to
      /\ "slug" \in DOMAIN v => b.slug = v.slug
      /\ \A op, phases : At(b, op, phases) <=> At(v, op, phases)
  BY <1>1, <1>2 DEF At
<1>6. VisitRow(b)
  BY <1>1, <1>2, <1>3, <1>4, <1>5 DEF VisitRow
<1>7. QED
  BY <1>1, <1>2, <1>3, <1>6 DEF Twin, b

LEMMA VisitsAlike == ASSUME VisitsOK, NEW w \in Window, OneVisits(w) PROVE OthersAlike(w)
BY DEF VisitsOK, OneVisits, OthersAlike, Twin

LEMMA SaversAlike ==
    ASSUME VisitsOK, NEW w \in Window, NEW next, visit' = Overtake(w, next)
    PROVE  /\ OthersAlike(w) /\ visit'[w] = next
           /\ \A v \in Window \ {w} : visit'[v] = NoVisit \/ visit'[v].over
<1>1. DOMAIN visit' = Window /\ visit'[w] = next
  BY DEF Overtake
<1>2. ASSUME NEW v \in Window \ {w}
      PROVE  Twin(visit[v], visit'[v]) /\ (visit'[v] = NoVisit \/ visit'[v].over)
  <2>1. CASE visit[v] = NoVisit
    BY <2>1 DEF Overtake, Twin
  <2>2. CASE visit[v] # NoVisit
    <3>1. visit'[v] = [visit[v] EXCEPT !.over = TRUE] /\ VisitRow(visit[v])
      BY <2>2 DEF Overtake, VisitsOK
    <3>2. QED
      BY <3>1, OvertakenRow
  <2>3. QED
    BY <2>1, <2>2
<1>3. QED
  BY <1>1, <1>2 DEF OthersAlike

\* A request that goes on keeps what it had, but for what it now notes.
LEMMA VisitProceeds ==
    ASSUME VisitsOK, NEW w \in Window, visit[w] # NoVisit, NEW phase, NEW memory,
           "phase" \notin DOMAIN memory, ProceedWith(w, phase, memory)
    PROVE  /\ OneVisits(w)
           /\ visit'[w].phase = phase
           /\ DOMAIN visit'[w] = DOMAIN visit[w] \cup DOMAIN memory
           /\ \A f \in DOMAIN memory : visit'[w][f] = memory[f]
           /\ \A f \in DOMAIN visit[w] \ (DOMAIN memory \cup {"phase"}) : visit'[w][f] = visit[w][f]
<1> DEFINE row == [visit[w] EXCEPT !.phase = phase]
<1>1. "phase" \in DOMAIN visit[w]
  BY DEF VisitsOK, VisitRow
<1>2. /\ DOMAIN row = DOMAIN visit[w]
      /\ row.phase = phase
      /\ \A f \in DOMAIN visit[w] \ {"phase"} : row[f] = visit[w][f]
  BY <1>1
<1>3. visit' = [visit EXCEPT ![w] = Spread(memory, row)]
  BY DEF ProceedWith
<1> HIDE DEF row
<1>4. OneVisits(w) /\ visit'[w] = Spread(memory, row)
  BY <1>3 DEF OneVisits, VisitsOK
<1>5. QED
  BY <1>1, <1>2, <1>4 DEF Spread

LEMMA VisitProceedsAlone ==
    ASSUME VisitsOK, NEW w \in Window, visit[w] # NoVisit, NEW phase, Proceed(w, phase)
    PROVE  /\ OneVisits(w)
           /\ visit'[w].phase = phase
           /\ DOMAIN visit'[w] = DOMAIN visit[w]
           /\ \A f \in DOMAIN visit[w] \ {"phase"} : visit'[w][f] = visit[w][f]
<1>1. "phase" \in DOMAIN visit[w]
  BY DEF VisitsOK, VisitRow
<1>2. visit'[w] = [visit[w] EXCEPT !.phase = phase] /\ OneVisits(w)
  BY DEF Proceed, OneVisits, VisitsOK
<1>3. QED
  BY <1>1, <1>2

LEMMA VisitLeaves ==
    ASSUME VisitsOK, NEW w \in Window, Leave(w) PROVE OneVisits(w) /\ visit'[w] = NoVisit
BY DEF VisitsOK, Leave, OneVisits

\* What a request notes besides is not among what every request has.
Besides(memory) == \A f \in {"op", "phase", "draft", "over"} : f \notin DOMAIN memory

\* A request that just came in, with what it notes.
Notes(v, op, phase, row, memory) ==
    /\ v.op = op /\ v.phase = phase /\ v.draft = row /\ v.over = FALSE
    /\ DOMAIN v = {"op", "phase", "draft", "over"} \cup DOMAIN memory
    /\ \A f \in DOMAIN memory : v[f] = memory[f]

LEMMA VisitArrives ==
    ASSUME VisitsOK, NEW w \in Window, NEW op, NEW phase, NEW memory,
           Besides(memory), Arrive(w, op, phase, memory)
    PROVE  OneVisits(w) /\ visit[w] = NoVisit /\ Notes(visit'[w], op, phase, draft, memory)
<1> DEFINE row == [op |-> op, phase |-> phase, draft |-> draft, over |-> FALSE]
<1>1. /\ DOMAIN row = {"op", "phase", "draft", "over"}
      /\ row.op = op /\ row.phase = phase /\ row.draft = draft /\ row.over = FALSE
  OBVIOUS
<1>2. visit[w] = NoVisit /\ visit' = [visit EXCEPT ![w] = Spread(memory, row)]
  BY DEF Arrive
<1> HIDE DEF row
<1>3. OneVisits(w) /\ visit'[w] = Spread(memory, row)
  BY <1>2 DEF OneVisits, VisitsOK
<1>4. QED
  BY <1>1, <1>2, <1>3 DEF Spread, Besides, Notes

LEMMA VisitsStayOK ==
    ASSUME NEW w \in Window, OthersAlike(w), visit'[w] = NoVisit \/ VisitRow(visit'[w])
    PROVE  VisitsOK'
BY DEF OthersAlike, Twin, VisitsOK

\* What two records say of themselves when one is the other, overtaken or not.
LEMMA TwinsAgree ==
    ASSUME NEW a, NEW b, Twin(a, b)
    PROVE  /\ (a = NoVisit) <=> (b = NoVisit)
           /\ b.op = a.op /\ b.phase = a.phase
           /\ \A op, phases : At(b, op, phases) <=> At(a, op, phases)
           /\ (HasShop(b) <=> HasShop(a)) /\ (HasLogo(b) <=> HasLogo(a))
           /\ HasShop(a) => b.shop = a.shop
           /\ HasLogo(a) => b.old = a.old
           /\ Draws(b) <=> Draws(a)
<1>1. CASE a = NoVisit /\ b = NoVisit
  BY <1>1, NoVisitIsNoRow
<1>2. CASE ~(a = NoVisit /\ b = NoVisit)
  <2>1. /\ VisitRow(a) /\ VisitRow(b) /\ b.op = a.op /\ b.phase = a.phase
        /\ HasShop(a) => b.shop = a.shop
        /\ HasLogo(a) => b.old = a.old
    BY <1>2 DEF Twin
  <2>2. /\ \A op, phases : At(b, op, phases) <=> At(a, op, phases)
        /\ (HasShop(b) <=> HasShop(a)) /\ (HasLogo(b) <=> HasLogo(a))
    BY <2>1 DEF At, HasShop, HasLogo
  <2>3. HasLogo(a) => HasShop(a)
    BY DEF HasLogo, HasShop, At
  <2>4. a # NoVisit /\ b # NoVisit
    BY <2>1, NoVisitIsNoRow
  <2>5. QED
    BY <2>1, <2>2, <2>3, <2>4 DEF Draws
<1>3. QED
  BY <1>1, <1>2

\* The steps of the draft and the state of the store, when nobody saves.
LEMMA StepsStay ==
    ASSUME StepsOK, NEW w \in Window, OneVisits(w), UNCHANGED <<draft, shop>>,
           torn' \in BOOLEAN, torn => torn',
           torn' \/ visit'[w] = NoVisit \/ Current(visit'[w], draft, shop),
           torn' \/ ~At(visit[w], "publish", {"save"})
    PROVE  StepsOK'
<1>1. torn' \/ \A v \in Window : visit'[v] = NoVisit \/ Current(visit'[v], draft, shop)
  BY DEF StepsOK, OneVisits
<1>2. \/ torn' \/ ~shop.live \/ draft.step = Published
      \/ \E v \in Window : At(visit'[v], "publish", {"save"})
  BY DEF StepsOK, OneVisits
<1>3. QED
  BY <1>1, <1>2 DEF StepsOK

\* They are, too, when a request saves that nobody overtook.
LEMMA StepsAreSaved ==
    ASSUME StepsOK, VisitsOK, NEW w \in Window, visit[w] # NoVisit, NEW next, Saves(w, next),
           draft' \in DraftRow, shop' \in ShopRow,
           torn' \/ next = NoVisit \/ Current(next, draft', shop'),
           Current(visit[w], draft, shop) /\ ~visit[w].over /\ ~torn /\ shop'.live
             => \/ draft'.step = Published
                \/ At(next, "publish", {"save"})
                \/ \E v \in Window \ {w} : At(visit[v], "publish", {"save"})
    PROVE  StepsOK'
<1>1. /\ torn' = (torn \/ visit[w].over) /\ visit' = Overtake(w, next)
  BY DEF Saves
<1>2. /\ OthersAlike(w) /\ visit'[w] = next
      /\ \A v \in Window \ {w} : visit'[v] = NoVisit \/ visit'[v].over
  BY <1>1, SaversAlike
<1>3. visit[w].over \in BOOLEAN
  BY DEF VisitsOK, VisitRow
<1>4. torn' \/ \A v \in Window : visit'[v] = NoVisit \/ Current(visit'[v], draft', shop')
  BY <1>2 DEF Current
<1>5. \/ torn' \/ ~shop'.live \/ draft'.step = Published
      \/ \E v \in Window : At(visit'[v], "publish", {"save"})
  <2>1. CASE torn'
    BY <2>1
  <2>2. CASE ~torn' /\ shop'.live
    <3>1. ~torn /\ ~visit[w].over
      BY <1>1, <2>2
    <3>2. Current(visit[w], draft, shop)
      BY <3>1 DEF StepsOK
    <3>3. \/ draft'.step = Published \/ At(visit'[w], "publish", {"save"})
          \/ \E v \in Window \ {w} : At(visit[v], "publish", {"save"})
      BY <1>2, <2>2, <3>1, <3>2
    <3>4. \A v \in Window \ {w} : At(visit[v], "publish", {"save"}) => At(visit'[v], "publish", {"save"})
      BY <1>2, TwinsAgree DEF OthersAlike
    <3>5. QED
      BY <3>3, <3>4
  <2>3. QED
    BY <2>1, <2>2
<1>6. QED
  BY <1>1, <1>3, <1>4, <1>5 DEF StepsOK

\* The choice of a theme is of no concern to the other steps.
LEMMA ThemeStays ==
    ASSUME ThemeOK, NEW w \in Window, OthersAlike(w), selected' = selected, crossed => crossed',
           crossed' \/ ~Selecting(w), ~At(visit'[w], "publish", {"select"}),
           shop'.live => Wears,
           At(visit'[w], "publish", {"logo", "destroy", "live", "save"}) => Wears,
           HasShop(visit'[w]) /\ visit'[w].shop.live => Wears
    PROVE  ThemeOK'
<1>1. \A v \in Window \ {w} : /\ Selecting(v)' <=> Selecting(v)
                              /\ Publishing(v)' <=> Publishing(v)
                              /\ HasShop(visit'[v]) /\ visit'[v].shop.live => HasShop(visit[v]) /\ visit[v].shop.live
  <2>1. ASSUME NEW v \in Window \ {w}
        PROVE  /\ Selecting(v)' <=> Selecting(v)
               /\ Publishing(v)' <=> Publishing(v)
               /\ HasShop(visit'[v]) /\ visit'[v].shop.live => HasShop(visit[v]) /\ visit[v].shop.live
    <3>1. Twin(visit[v], visit'[v])
      BY DEF OthersAlike
    <3>2. QED
      BY <3>1, TwinsAgree DEF Selecting, Phase, Publishing
  <2>2. QED
    BY <2>1
<1>2. Wears' => Wears
  BY <1>1 DEF Wears, Publishing, At
<1>3. CASE crossed'
  BY <1>3 DEF ThemeOK
<1>4. CASE ~crossed'
  <2>1. ~crossed /\ ~Selecting(w) /\ ~Selecting(w)'
    BY <1>4 DEF Selecting, Phase, At
  <2>2. \A v \in Window : Selecting(v)' <=> Selecting(v)
    BY <1>1, <2>1
  <2>3. \/ selected = {} /\ \E v \in Window : Selecting(v)
        \/ selected = {} /\ ~Wears
        \/ \E theme : selected = {theme} /\ \A v \in Window : ~Selecting(v)
    BY <2>1 DEF ThemeOK
  <2>4. \/ selected' = {} /\ \E v \in Window : Selecting(v)'
        \/ selected' = {} /\ ~Wears'
        \/ \E theme : selected' = {theme} /\ \A v \in Window : ~Selecting(v)'
    BY <1>2, <2>2, <2>3
  <2>5. QED
    BY <2>4 DEF ThemeOK
<1>5. QED
  BY <1>3, <1>4

\* The logos that are there, or went with the brainstorm that replaced them.
Kept == logoAssets \cup retired

\* Ids are given once: what was uploaded or drawn before stays so.
LEMMA OldLogosShow ==
    ASSUME NEW up, NEW up2, lastLogo \in Nat, lastLogo' \in Nat, lastLogo <= lastLogo',
           up \subseteq 1..lastLogo, up2 \cap 1..lastLogo = up
    PROVE  /\ \A row : ShowsLogo(row, up) => ShowsLogo(row, up2)'
           /\ \A v : VisitShows(v, up) => VisitShows(v, up2)'
<1>1. 1..lastLogo \subseteq 1..lastLogo' /\ up \subseteq up2
  OBVIOUS
<1>2. \A n : n \in 1..lastLogo \ up => n \in 1..lastLogo' \ up2
  BY <1>1
<1>3. \A row : ShowsLogo(row, up) => ShowsLogo(row, up2)'
  BY <1>1, <1>2 DEF ShowsLogo
<1>4. QED
  BY <1>1, <1>2, <1>3 DEF VisitShows, HasShop, HasLogo, At, LiveHasLogo

\* The logos are in order when those of the request that moved are, and it
\* takes neither the monogram of another request nor the store's.
LEMMA LogosMove ==
    ASSUME VisitsOK, NEW up, NEW up2, LogosOK(up), NEW w \in Window, OthersAlike(w),
           lastLogo' \in Nat, lastLogo <= lastLogo',
           up2 \subseteq 1..lastLogo', up2 \cap 1..lastLogo = up, up2 \subseteq Kept',
           draft'.logo \in up2 \cup {0}, ShowsLogo(shop, up2)', LiveHasLogo(shop)',
           visit'[w] = NoVisit \/ VisitShows(visit[w], up2)',
           \A v \in Window \ {w} : Draws(visit[v]) =>
             LET logo == visit[v].shop.logo
             IN  /\ logo \in Kept' /\ shop'.logo # logo
                 /\ HasShop(visit'[w]) => visit'[w].shop.logo # logo
                 /\ At(visit'[w], "publish", {"destroy"}) => visit'[w].old # logo,
           Draws(visit'[w]) => OwnMonogram(w, visit[w].shop.logo)',
           MonogramIsThere'
    PROVE  \E set : LogosOK(set)'
<1>1. /\ lastLogo \in Nat /\ up \subseteq 1..lastLogo
      /\ \A v \in Window : visit[v] = NoVisit \/ VisitShows(visit[v], up)
      /\ \A v \in Window : Draws(visit[v]) => OwnMonogram(v, visit[v].shop.logo)
  BY DEF LogosOK
<1>2. \A v \in Window \ {w} : Twin(visit[v], visit'[v])
  BY DEF OthersAlike
<1>3. ASSUME NEW v \in Window \ {w}, visit'[v] # NoVisit
      PROVE  VisitShows(visit[v], up2)'
  <2>1. visit[v] # NoVisit /\ VisitShows(visit[v], up)
    BY <1>1, <1>2, <1>3, TwinsAgree
  <2>2. VisitShows(visit'[v], up)
    <3>1. Twin(visit[v], visit'[v]) /\ visit'[v].draft = visit[v].draft
      BY <1>2, <2>1 DEF Twin
    <3>2. /\ HasShop(visit'[v]) <=> HasShop(visit[v])
          /\ HasLogo(visit'[v]) <=> HasLogo(visit[v])
          /\ HasShop(visit[v]) => visit'[v].shop = visit[v].shop
          /\ HasLogo(visit[v]) => visit'[v].old = visit[v].old
          /\ At(visit'[v], "publish", {"destroy"}) <=> At(visit[v], "publish", {"destroy"})
      BY <3>1, TwinsAgree
    <3>3. /\ At(visit[v], "publish", {"destroy"}) => HasLogo(visit[v])
          /\ HasLogo(visit[v]) => HasShop(visit[v])
      BY DEF HasLogo, HasShop, At
    <3>4. QED
      BY <2>1, <3>1, <3>2, <3>3 DEF VisitShows
  <2>3. QED
    BY <1>1, <2>2, OldLogosShow
<1>4. ASSUME NEW v \in Window \ {w}, Draws(visit'[v])
      PROVE  OwnMonogram(v, visit[v].shop.logo)'
  <2>1. Draws(visit[v]) /\ visit'[v].shop = visit[v].shop
    <3>1. Draws(visit[v]) /\ HasLogo(visit[v])
      BY <1>2, <1>4, TwinsAgree DEF Draws
    <3>2. HasShop(visit[v])
      BY <3>1 DEF HasLogo, HasShop, At
    <3>3. QED
      BY <1>2, <3>1, <3>2, TwinsAgree
  <2> DEFINE logo == visit[v].shop.logo
  <2>2. OwnMonogram(v, logo)
    BY <1>1, <2>1
  <2>3. /\ logo \in Kept' /\ shop'.logo # logo
        /\ HasShop(visit'[w]) => visit'[w].shop.logo # logo
        /\ At(visit'[w], "publish", {"destroy"}) => visit'[w].old # logo
    BY <2>1
  <2>4. \A x \in Window \ {v} : HasShop(visit'[x]) => visit'[x].shop.logo # logo
    <3>1. ASSUME NEW x \in Window \ {v, w}, HasShop(visit'[x]) PROVE visit'[x].shop.logo # logo
      BY <1>2, <2>2, <3>1, TwinsAgree DEF OwnMonogram
    <3>2. QED
      BY <2>3, <3>1
  <2>5. \A x \in Window : At(visit'[x], "publish", {"destroy"}) => visit'[x].old # logo
    <3>1. ASSUME NEW x \in Window \ {w}, At(visit'[x], "publish", {"destroy"}) PROVE visit'[x].old # logo
      <4>1. At(visit[x], "publish", {"destroy"})
        BY <1>2, <3>1, TwinsAgree
      <4>2. HasLogo(visit[x])
        BY <4>1 DEF HasLogo, At
      <4>3. visit'[x].old = visit[x].old
        BY <1>2, <4>2, TwinsAgree
      <4>4. QED
        BY <2>2, <4>1, <4>3 DEF OwnMonogram
    <3>2. QED
      BY <2>3, <3>1
  <2>6. QED
    BY <2>1, <2>3, <2>4, <2>5 DEF OwnMonogram, Kept
<1>5. \A v \in Window : visit'[v] = NoVisit \/ VisitShows(visit[v], up2)'
  BY <1>3
<1>6. \A v \in Window : Draws(visit'[v]) => OwnMonogram(v, visit[v].shop.logo)'
  BY <1>4
<1>7. LogosOK(up2)'
  BY <1>5, <1>6 DEF LogosOK, Kept
<1>8. QED
  BY <1>7

\* The steps that neither bring nor destroy a logo, nor save a row.
LEMMA LogosStay ==
    ASSUME VisitsOK, NEW up, LogosOK(up), NEW w \in Window, OneVisits(w),
           UNCHANGED <<lastLogo, draft, shop, logoAssets, retired>>, torn => torn',
           visit'[w] = NoVisit \/ VisitShows(visit'[w], up),
           HasShop(visit'[w]) => \/ HasShop(visit[w]) /\ visit'[w].shop.logo = visit[w].shop.logo
                                 \/ visit'[w].shop.logo = shop.logo,
           ~HasLogo(visit'[w]),
           torn' \/ ~At(visit[w], "publish", {"live"})
    PROVE  \E set : LogosOK(set)'
<1>1. OthersAlike(w)
  BY VisitsAlike
<1>2. /\ lastLogo \in Nat /\ up \subseteq 1..lastLogo /\ up \subseteq Kept
      /\ draft.logo \in up \cup {0} /\ ShowsLogo(shop, up) /\ LiveHasLogo(shop)
      /\ \A v \in Window : Draws(visit[v]) => OwnMonogram(v, visit[v].shop.logo)
      /\ MonogramIsThere
  BY DEF LogosOK, Kept
<1>3. up \cap 1..lastLogo = up /\ lastLogo <= lastLogo
  <2>1. up \cap 1..lastLogo = up
    BY <1>2, Zenon
  <2>2. QED
    BY <1>2, <2>1
<1>4. ~Draws(visit'[w]) /\ ~At(visit'[w], "publish", {"destroy"})
  BY DEF Draws, HasLogo, At
<1>5. \A v \in Window \ {w} : Draws(visit[v]) =>
        LET logo == visit[v].shop.logo
        IN  /\ logo \in Kept' /\ shop'.logo # logo
            /\ HasShop(visit'[w]) => visit'[w].shop.logo # logo
            /\ At(visit'[w], "publish", {"destroy"}) => visit'[w].old # logo
  BY <1>2, <1>4 DEF OwnMonogram, Kept
<1>6. MonogramIsThere'
  BY <1>2 DEF MonogramIsThere, OneVisits
<1>7. visit'[w] = NoVisit \/ VisitShows(visit[w], up)'
  BY DEF VisitShows, ShowsLogo
<1>8. /\ lastLogo' \in Nat /\ lastLogo <= lastLogo' /\ up \subseteq 1..lastLogo' /\ up \subseteq Kept'
      /\ draft'.logo \in up \cup {0} /\ ShowsLogo(shop, up)' /\ LiveHasLogo(shop)'
  BY <1>2, <1>3 DEF ShowsLogo, LiveHasLogo, Kept
<1>9. QED
  BY <1>1, <1>3, <1>4, <1>5, <1>6, <1>7, <1>8, LogosMove

LEMMA InitBuilderInv == InitBuilder => BuilderInv
<1> SUFFICES ASSUME InitBuilder PROVE BuilderInv
  OBVIOUS
<1>1. /\ \A w \in Window : visit[w] = NoVisit
      /\ DOMAIN visit = Window /\ selected = {} /\ lastLogo = 0 /\ torn = FALSE /\ crossed = FALSE
  BY DEF InitBuilder
<1>2. draft \in DraftRow /\ draft.logo = 0
  <2>1. draft = NoDraft \/ draft = [there |-> TRUE, step |-> Themed, logo |-> 0]
    BY DEF InitBuilder
  <2>2. 0 \in 0..Published /\ Themed \in 0..Published
    BY DEF Published, Themed
  <2>3. NoDraft \in DraftRow /\ NoDraft.logo = 0
    BY <2>2 DEF NoDraft, DraftRow
  <2>4. /\ [there |-> TRUE, step |-> Themed, logo |-> 0] \in DraftRow
        /\ [there |-> TRUE, step |-> Themed, logo |-> 0].logo = 0
    BY <2>2 DEF DraftRow
  <2>5. QED
    BY <2>1, <2>3, <2>4
<1>3. shop \in ShopRow /\ ~shop.live /\ shop.logo = 0 /\ ~shop.monogram
  <2>1. shop = NoShop \/ \E slug \in Slug : shop = [NoShop EXCEPT !.there = TRUE, !.slug = slug]
    BY DEF InitBuilder
  <2>2. NoShop \in ShopRow /\ ~NoShop.live /\ NoShop.logo = 0 /\ ~NoShop.monogram
    BY DEF NoShop, ShopRow
  <2>3. ASSUME NEW slug \in Slug, shop = [NoShop EXCEPT !.there = TRUE, !.slug = slug]
        PROVE  shop \in ShopRow /\ shop.live = NoShop.live /\ shop.logo = NoShop.logo
               /\ shop.monogram = NoShop.monogram
    BY <2>2, <2>3 DEF ShopRow
  <2>4. QED
    BY <2>1, <2>2, <2>3
<1>4. VisitsOK
  BY <1>1 DEF VisitsOK
<1>5. StepsOK
  BY <1>1, <1>2, <1>3 DEF StepsOK
<1>6. ThemeOK
  BY <1>1, <1>3, NoVisitIsNoRow DEF ThemeOK, Wears, Publishing
<1>7. LogosOK({})
  BY <1>1, <1>2, <1>3, NoVisitIsNoRow
     DEF LogosOK, ShowsLogo, LiveHasLogo, Draws, MonogramIsThere
<1>8. QED
  BY <1>4, <1>5, <1>6, <1>7 DEF BuilderInv

\* A request that comes in copies rows, and decides nothing yet.
LEMMA ArriveKeeps ==
    ASSUME BuilderInv, NEW w \in Window, NEW op, NEW phase, NEW memory,
           Besides(memory), Arrive(w, op, phase, memory),
           VisitRow(visit'[w]), HasShop(visit'[w]) => visit'[w].shop = shop,
           op = "publish" => phase = "clear", op = "confirm" => phase = "store" /\ draft.step # Published
    PROVE  BuilderInv'
<1> USE DEF BuilderInv
<1>1. /\ OneVisits(w) /\ visit[w] = NoVisit
      /\ visit'[w].op = op /\ visit'[w].phase = phase
      /\ visit'[w].draft = draft /\ visit'[w].over = FALSE
  BY VisitArrives DEF Notes
<1>2. UNCHANGED <<draft, shop, themes, selected, logoAssets, lastLogo, torn, crossed, retired>>
  BY DEF Arrive
<1>3. OthersAlike(w)
  BY <1>1, VisitsAlike
<1>4. VisitsOK'
  BY <1>3, VisitsStayOK
<1>5. StepsOK'
  <2>1. Current(visit'[w], draft, shop)
    BY <1>1 DEF Current, At, HasShop
  <2>2. ~At(visit[w], "publish", {"save"})
    BY <1>1, NoVisitIsNoRow
  <2>3. torn' \in BOOLEAN /\ (torn => torn') /\ StepsOK
    BY <1>2 DEF StepsOK
  <2>4. QED
    BY <1>1, <1>2, <2>1, <2>2, <2>3, StepsStay
<1>6. ThemeOK'
  <2>1. ~Selecting(w)
    BY <1>1, NoVisitIsNoRow DEF Selecting, Phase, At
  <2>2. ~At(visit'[w], "publish", {"select"}) /\ ~At(visit'[w], "publish", {"logo", "destroy", "live", "save"})
    BY <1>1 DEF At
  <2>3. HasShop(visit'[w]) /\ visit'[w].shop.live => Wears
    BY DEF Wears
  <2>4. (shop'.live => Wears) /\ ThemeOK /\ (crossed => crossed')
    BY <1>2 DEF Wears
  <2>5. QED
    BY <1>2, <1>3, <2>1, <2>2, <2>3, <2>4, ThemeStays
<1>7. \E set : LogosOK(set)'
  <2>1. PICK up : LogosOK(up)
    OBVIOUS
  <2>2. ~HasLogo(visit'[w])
    BY <1>1 DEF HasLogo, At
  <2>3. VisitShows(visit'[w], up)
    BY <1>1, <2>1, <2>2 DEF VisitShows, LogosOK, HasLogo, At
  <2>4. ~At(visit[w], "publish", {"live"})
    BY <1>1, NoVisitIsNoRow
  <2>5. QED
    BY <1>1, <1>2, <2>1, <2>2, <2>3, <2>4, LogosStay
<1>8. QED
  BY <1>4, <1>5, <1>6, <1>7

LEMMA ArrivalsKeep ==
    ASSUME BuilderInv, NEW w \in Window,
           \/ Brainstorm(w) \/ Answer(w) \/ Generate(w) \/ ConfirmDomain(w) \/ Publish(w) \/ UpdateHero(w)
    PROVE  BuilderInv'
<1>1. VisitsOK /\ draft \in DraftRow /\ shop \in ShopRow
  BY DEF BuilderInv, StepsOK
<1> DEFINE v == visit'[w]
<1>2. ASSUME NEW phase \in {"save", "logo"}, Arrive(w, "brainstorm", phase, <<>>) PROVE BuilderInv'
  <2>1. DOMAIN <<>> = {}
    OBVIOUS
  <2>1a. Besides(<<>>)
    BY <2>1 DEF Besides
  <2>2. /\ v.op = "brainstorm" /\ v.phase = phase /\ v.draft = draft /\ v.over = FALSE
        /\ DOMAIN v = {"op", "phase", "draft", "over"} \cup {}
    BY <1>1, <1>2, <2>1, <2>1a, VisitArrives DEF Notes
  <2>3. VisitRow(v) /\ ~HasShop(v)
    BY <1>1, <2>2 DEF VisitRow, HasShop, HasLogo, At
  <2>4. QED
    BY <1>2, <2>1a, <2>3, ArriveKeeps
<1>3. ASSUME NEW op, NEW phase, NEW to, Arrive(w, op, phase, [to |-> to]),
             \/ op = "answers" /\ phase = "save" /\ to = Answered
             \/ op = "generate" /\ phase = "themes" /\ to = Themed
      PROVE  BuilderInv'
  <2> DEFINE memory == [to |-> to]
  <2>1. DOMAIN memory = {"to"} /\ Besides(memory) /\ memory["to"] = to /\ Arrive(w, op, phase, memory)
    BY <1>3 DEF Besides
  <2> HIDE DEF memory
  <2>2a. Notes(v, op, phase, draft, memory)
    BY <1>1, <2>1, VisitArrives
  <2>2. /\ v.op = op /\ v.phase = phase /\ v.draft = draft /\ v.over = FALSE
        /\ DOMAIN v = {"op", "phase", "draft", "over"} \cup {"to"} /\ v.to = to
    BY <2>1, <2>2a DEF Notes
  <2>3. VisitRow(v) /\ ~HasShop(v)
    BY <1>1, <1>3, <2>2 DEF VisitRow, HasShop, HasLogo, At
  <2>4. QED
    BY <1>3, <2>1, <2>3, ArriveKeeps
<1>4. ASSUME ConfirmDomain(w) PROVE BuilderInv'
  <2>1. PICK slug \in Slug :
          MayConfirm(draft) /\ Arrive(w, "confirm", "store", [to |-> DomainConfirmed, slug |-> slug])
    BY <1>4 DEF ConfirmDomain
  <2> DEFINE memory == [to |-> DomainConfirmed, slug |-> slug]
  <2>2. /\ DOMAIN memory = {"to", "slug"} /\ Besides(memory) /\ memory["to"] = DomainConfirmed /\ memory["slug"] = slug
        /\ Arrive(w, "confirm", "store", memory)
    BY <2>1 DEF Besides
  <2> HIDE DEF memory
  <2>3a. Notes(v, "confirm", "store", draft, memory)
    BY <1>1, <2>2, VisitArrives
  <2>3. /\ v.op = "confirm" /\ v.phase = "store" /\ v.draft = draft /\ v.over = FALSE
        /\ DOMAIN v = {"op", "phase", "draft", "over"} \cup {"to", "slug"}
        /\ v.to = DomainConfirmed /\ v.slug = slug
    BY <2>2, <2>3a DEF Notes
  <2>4. VisitRow(v) /\ ~HasShop(v)
    BY <1>1, <2>3 DEF VisitRow, HasShop, HasLogo, At
  <2>5. draft.step # Published
    BY <2>1 DEF MayConfirm
  <2>6. QED
    BY <2>2, <2>4, <2>5, ArriveKeeps
<1>5. ASSUME Publish(w) PROVE BuilderInv'
  <2>1. PICK theme : Arrive(w, "publish", "clear", [to |-> Published, theme |-> theme, shop |-> shop])
    BY <1>5 DEF Publish
  <2> DEFINE memory == [to |-> Published, theme |-> theme, shop |-> shop]
  <2>2. /\ DOMAIN memory = {"to", "theme", "shop"} /\ Besides(memory) /\ memory["to"] = Published /\ memory["shop"] = shop
        /\ Arrive(w, "publish", "clear", memory)
    BY <2>1 DEF Besides
  <2> HIDE DEF memory
  <2>3a. Notes(v, "publish", "clear", draft, memory)
    BY <1>1, <2>2, VisitArrives
  <2>3. /\ v.op = "publish" /\ v.phase = "clear" /\ v.draft = draft /\ v.over = FALSE
        /\ DOMAIN v = {"op", "phase", "draft", "over"} \cup {"to", "theme", "shop"}
        /\ v.to = Published /\ v.shop = shop
    BY <2>2, <2>3a DEF Notes
  <2>4. VisitRow(v)
    BY <1>1, <2>3 DEF VisitRow, HasShop, HasLogo, At
  <2>5. QED
    BY <2>2, <2>3, <2>4, ArriveKeeps
<1>6. ASSUME UpdateHero(w) PROVE BuilderInv'
  <2> DEFINE memory == [shop |-> shop]
  <2>1. /\ DOMAIN memory = {"shop"} /\ Besides(memory) /\ memory["shop"] = shop
        /\ Arrive(w, "hero", "save", memory)
    BY <1>6 DEF UpdateHero, Besides
  <2> HIDE DEF memory
  <2>2a. Notes(v, "hero", "save", draft, memory)
    BY <1>1, <2>1, VisitArrives
  <2>2. /\ v.op = "hero" /\ v.phase = "save" /\ v.draft = draft /\ v.over = FALSE
        /\ DOMAIN v = {"op", "phase", "draft", "over"} \cup {"shop"} /\ v.shop = shop
    BY <2>1, <2>2a DEF Notes
  <2>3. VisitRow(v)
    BY <1>1, <2>2 DEF VisitRow, HasShop, HasLogo, At
  <2>4. QED
    BY <2>1, <2>2, <2>3, ArriveKeeps
<1>7. QED
  BY <1>2, <1>3, <1>4, <1>5, <1>6 DEF Brainstorm, Answer, Generate

LEMMA PhaseRow ==
    ASSUME VisitsOK, NEW w \in Window, NEW phase, NEW ops, "none" \notin ops, Phase(w, phase, ops)
    PROVE  visit[w] # NoVisit /\ VisitRow(visit[w]) /\ visit[w].phase = phase /\ visit[w].op \in ops
BY NoVisitIsNoRow DEF VisitsOK, Phase

\* A request saves the draft: with the logo it has, and no step back.
LEMMA DraftIsSaved ==
    ASSUME BuilderInv, NEW w \in Window, VisitRow(visit[w]), NEW next, Saves(w, next),
           UNCHANGED <<shop, selected, logoAssets, lastLogo, crossed, retired>>,
           draft' \in DraftRow, draft'.logo = visit[w].draft.logo, draft'.step >= visit[w].draft.step,
           next = NoVisit \/ (VisitRow(next) /\ At(next, "brainstorm", {"prefill"}) /\ next.draft = draft'),
           ~At(visit[w], "publish", {"select", "live"}),
           At(visit[w], "publish", {"save"}) => draft'.step = Published
    PROVE  BuilderInv'
<1> USE DEF BuilderInv
<1>1. visit[w] # NoVisit /\ visit' = Overtake(w, next) /\ torn' = (torn \/ visit[w].over)
  BY NoVisitIsNoRow DEF Saves
<1>2. OthersAlike(w) /\ visit'[w] = next
  BY <1>1, SaversAlike
<1>3. ~HasShop(next) /\ ~HasLogo(next) /\ ~At(next, "publish", {"select", "logo", "destroy", "live", "save"})
  BY NoVisitIsNoRow DEF HasShop, HasLogo, At
<1>4. VisitsOK'
  BY <1>2, VisitsStayOK
<1>5. StepsOK'
  <2>1. next = NoVisit \/ Current(next, draft', shop')
    BY <1>3 DEF Current, HasShop, At
  <2>2. ASSUME Current(visit[w], draft, shop), ~visit[w].over, ~torn, shop'.live
        PROVE  draft'.step = Published \/ \E v \in Window \ {w} : At(visit[v], "publish", {"save"})
    <3>1. shop.live
      BY <2>2
    <3>2. draft.step = Published \/ \E v \in Window : At(visit[v], "publish", {"save"})
      BY <2>2, <3>1 DEF StepsOK
    <3>3. ASSUME draft.step = Published PROVE draft'.step = Published
      <4>1. visit[w].draft.step = Published
        BY <2>2, <3>3 DEF Current
      <4>2. draft'.step \in 0..Published /\ Published \in Nat
        BY DEF DraftRow, Published
      <4>3. QED
        BY <4>1, <4>2
    <3>4. QED
      BY <3>2, <3>3
  <2>3. StepsOK /\ shop' \in ShopRow
    BY DEF StepsOK
  <2>4. QED
    BY <1>1, <2>1, <2>2, <2>3, StepsAreSaved
<1>6. ThemeOK'
  <2>1. ~Selecting(w) /\ ~At(visit'[w], "publish", {"select"})
        /\ ~At(visit'[w], "publish", {"logo", "destroy", "live", "save"})
    BY <1>2, <1>3 DEF Selecting, Phase, At
  <2>2. ~HasShop(visit'[w]) /\ (shop'.live => Wears)
    BY <1>2, <1>3 DEF Wears
  <2>3. QED
    BY <1>2, <2>1, <2>2, ThemeStays
<1>7. \E set : LogosOK(set)'
  <2>1. PICK up : LogosOK(up)
    OBVIOUS
  <2>2. /\ lastLogo \in Nat /\ lastLogo <= lastLogo /\ up \subseteq 1..lastLogo /\ up \subseteq Kept
        /\ ShowsLogo(shop, up) /\ LiveHasLogo(shop)
        /\ MonogramIsThere /\ visit[w].draft.logo \in up \cup {0}
    BY <1>1, <2>1 DEF LogosOK, Kept, VisitShows
  <2>3. up \cap 1..lastLogo = up
    BY <2>2, Zenon
  <2>4. ~HasShop(visit'[w]) /\ ~Draws(visit'[w]) /\ ~At(visit'[w], "publish", {"destroy"})
    BY <1>2, <1>3 DEF Draws, At
  <2>5. visit'[w] = NoVisit \/ VisitShows(visit[w], up)'
    BY <1>2, <1>3, <2>2 DEF VisitShows, At
  <2>6. \A v \in Window \ {w} : Draws(visit[v]) => visit[v].shop.logo \in Kept /\ shop.logo # visit[v].shop.logo
    BY <2>1 DEF LogosOK, OwnMonogram, Kept
  <2>7. Kept' = Kept /\ ShowsLogo(shop, up)' /\ LiveHasLogo(shop)'
    BY <2>2 DEF Kept, ShowsLogo, LiveHasLogo
  <2>8. MonogramIsThere'
    <3>1. CASE \E v \in Window : At(visit[v], "publish", {"live"}) /\ visit[v].old = shop.logo
      <4>1. PICK v \in Window : At(visit[v], "publish", {"live"}) /\ visit[v].old = shop.logo
        BY <3>1
      <4>2. v # w /\ HasLogo(visit[v])
        BY <4>1 DEF At, HasLogo
      <4>3. Twin(visit[v], visit'[v])
        BY <1>2, <4>2 DEF OthersAlike
      <4>4. At(visit'[v], "publish", {"live"}) /\ visit'[v].old = shop.logo
        BY <4>1, <4>2, <4>3, TwinsAgree
      <4>5. QED
        BY <4>4 DEF MonogramIsThere
    <3>2. CASE torn \/ ~shop.monogram \/ shop.logo \in Kept
      BY <1>1, <3>2 DEF MonogramIsThere, Kept
    <3>3. QED
      BY <2>2, <3>1, <3>2 DEF MonogramIsThere, Kept
  <2>9. QED
    BY <1>2, <2>1, <2>2, <2>3, <2>4, <2>5, <2>6, <2>7, <2>8, LogosMove
<1>8. QED
  BY <1>4, <1>5, <1>6, <1>7

\* A request saves the store as it has it.
LEMMA ShopIsSaved ==
    ASSUME BuilderInv, NEW w \in Window, VisitRow(visit[w]), HasShop(visit[w]), NEW next, Saves(w, next),
           shop' = visit[w].shop, UNCHANGED <<draft, selected, logoAssets, lastLogo, crossed, retired>>,
           At(visit[w], "confirm", {"save-store"}) \/ At(visit[w], "publish", {"live"}) \/ visit[w].op = "hero",
           \/ next = NoVisit /\ visit[w].op # "publish"
           \/ /\ VisitRow(next) /\ next.op = visit[w].op /\ next.op # "hero" /\ next.phase = "save"
              /\ next.draft = visit[w].draft /\ next.over = visit[w].over
    PROVE  BuilderInv'
<1> USE DEF BuilderInv
<1>1. visit[w] # NoVisit /\ visit' = Overtake(w, next) /\ torn' = (torn \/ visit[w].over)
  BY NoVisitIsNoRow DEF Saves
<1>2. OthersAlike(w) /\ visit'[w] = next
  BY <1>1, SaversAlike
<1>3. ~HasShop(next) /\ ~HasLogo(next) /\ ~At(next, "publish", {"select", "logo", "destroy", "live"})
      /\ ~At(next, "publish", {"destroy"})
      /\ ~At(next, "confirm", {"store", "save-store"}) /\ ~At(next, "confirm", {"save-store"})
      /\ next.op # "hero"
  BY NoVisitIsNoRow DEF HasShop, HasLogo, At
<1>4. VisitsOK'
  BY <1>2, VisitsStayOK
<1>5. shop' \in ShopRow /\ ~At(visit[w], "publish", {"save"})
  BY DEF VisitRow, At
<1>6. ASSUME ~torn, ~visit[w].over PROVE Current(visit[w], draft, shop)
  BY <1>1, <1>6 DEF StepsOK
<1>7. StepsOK'
  <2>1. ASSUME ~torn', next # NoVisit PROVE Current(next, draft', shop')
    BY <1>1, <1>3, <1>6, <2>1 DEF Current
  <2>2. ASSUME Current(visit[w], draft, shop), ~visit[w].over, ~torn, shop'.live
        PROVE  \/ draft'.step = Published
               \/ At(next, "publish", {"save"})
               \/ \E v \in Window \ {w} : At(visit[v], "publish", {"save"})
    <3>1. CASE At(visit[w], "publish", {"live"})
      BY <3>1, NoVisitIsNoRow DEF At
    <3>2. CASE At(visit[w], "confirm", {"save-store"}) \/ visit[w].op = "hero"
      <4>1. shop.live
        BY <2>2, <3>2 DEF Current
      <4>2. draft.step = Published \/ \E v \in Window : At(visit[v], "publish", {"save"})
        BY <2>2, <4>1 DEF StepsOK
      <4>3. QED
        BY <1>5, <4>2
    <3>3. QED
      BY <3>1, <3>2
  <2>3. draft' \in DraftRow /\ StepsOK
    BY DEF StepsOK
  <2>4. QED
    BY <1>1, <1>5, <2>1, <2>2, <2>3, StepsAreSaved
<1>8. ThemeOK'
  <2>1. ~Selecting(w) /\ ~At(visit'[w], "publish", {"select"})
    BY <1>2, <1>3 DEF Selecting, Phase, At
  <2>2. ~HasShop(visit'[w]) /\ (shop'.live => Wears)
    BY <1>2, <1>3 DEF Wears
  <2>3. At(visit'[w], "publish", {"logo", "destroy", "live", "save"}) => Wears
    BY <1>2, NoVisitIsNoRow DEF Wears, Publishing, At
  <2>4. QED
    BY <1>2, <2>1, <2>2, <2>3, ThemeStays
<1>9. \E set : LogosOK(set)'
  <2>1. PICK up : LogosOK(up)
    OBVIOUS
  <2>2. /\ lastLogo \in Nat /\ lastLogo <= lastLogo /\ up \subseteq 1..lastLogo /\ up \subseteq Kept
        /\ ShowsLogo(visit[w].shop, up) /\ LiveHasLogo(visit[w].shop)
        /\ MonogramIsThere /\ draft.logo \in up \cup {0} /\ visit[w].draft.logo \in up \cup {0}
    BY <1>1, <2>1 DEF LogosOK, Kept, VisitShows
  <2>3. up \cap 1..lastLogo = up
    BY <2>2, Zenon
  <2>4. ~HasShop(visit'[w]) /\ ~Draws(visit'[w]) /\ ~At(visit'[w], "publish", {"destroy"})
    BY <1>2, <1>3 DEF Draws
  <2>5. visit'[w] = NoVisit \/ VisitShows(visit[w], up)'
    BY <1>2, <1>3, <2>2 DEF VisitShows
  <2>6. \A v \in Window \ {w} : Draws(visit[v]) =>
          visit[v].shop.logo \in Kept /\ visit[w].shop.logo # visit[v].shop.logo
    BY <2>1 DEF LogosOK, OwnMonogram, Kept
  <2>7. Kept' = Kept /\ ShowsLogo(shop, up)' /\ LiveHasLogo(shop)'
    BY <2>2 DEF Kept, ShowsLogo, LiveHasLogo
  <2>8. MonogramIsThere'
    <3>1. CASE torn'
      BY <3>1 DEF MonogramIsThere
    <3>2. CASE ~torn' /\ HasLogo(visit[w])
      <4>1. shop'.monogram => OwnMonogram(w, shop'.logo)
        BY <2>1, <3>2 DEF LogosOK, Draws
      <4>2. QED
        BY <4>1 DEF OwnMonogram, MonogramIsThere
    <3>3. CASE ~torn' /\ ~HasLogo(visit[w])
      <4>1. ~At(visit[w], "publish", {"live"}) /\ Current(visit[w], draft, shop) /\ ~visit[w].over /\ ~torn
        BY <1>1, <1>6, <3>3 DEF HasLogo, At
      <4>2. shop'.monogram = shop.monogram /\ shop'.logo = shop.logo
        BY <4>1 DEF Current
      <4>3. CASE ~shop.monogram \/ shop.logo \in Kept
        BY <4>2, <4>3 DEF MonogramIsThere, Kept
      <4>4. CASE \E v \in Window : At(visit[v], "publish", {"live"}) /\ visit[v].old = shop.logo
        <5>1. PICK v \in Window : At(visit[v], "publish", {"live"}) /\ visit[v].old = shop.logo
          BY <4>4
        <5>2. v # w /\ HasLogo(visit[v])
          BY <4>1, <5>1 DEF At, HasLogo
        <5>3. Twin(visit[v], visit'[v])
          BY <1>2, <5>2 DEF OthersAlike
        <5>4. At(visit'[v], "publish", {"live"}) /\ visit'[v].old = shop.logo
          BY <5>1, <5>2, <5>3, TwinsAgree
        <5>5. QED
          BY <4>2, <5>4 DEF MonogramIsThere
      <4>5. QED
        BY <2>2, <4>1, <4>3, <4>4 DEF MonogramIsThere, Kept
    <3>4. QED
      BY <3>1, <3>2, <3>3
  <2>9. QED
    BY <1>2, <2>1, <2>2, <2>3, <2>4, <2>5, <2>6, <2>7, <2>8, LogosMove
<1>10. QED
  BY <1>4, <1>7, <1>8, <1>9

\* What a request that goes on without a save leaves to show.
LEMMA GoesOn ==
    ASSUME BuilderInv, NEW w \in Window, OneVisits(w), VisitRow(visit'[w]), UNCHANGED <<draft, shop, torn>>,
           torn \/ Current(visit'[w], draft, shop), ~At(visit[w], "publish", {"save"}),
           ThemeOK', \E set : LogosOK(set)'
    PROVE  BuilderInv'
<1>1. OthersAlike(w) /\ VisitsOK'
  BY VisitsAlike, VisitsStayOK DEF BuilderInv
<1>2. StepsOK /\ torn' \in BOOLEAN /\ (torn => torn')
  BY DEF BuilderInv, StepsOK
<1>3. StepsOK'
  BY <1>2, StepsStay
<1>4. QED
  BY <1>1, <1>3 DEF BuilderInv

LEMMA SaveThemesKeeps == ASSUME BuilderInv, NEW w \in Window, SaveThemes(w) PROVE BuilderInv'
<1>1. VisitsOK /\ StepsOK /\ ThemeOK
  BY DEF BuilderInv
<1>2. visit[w] # NoVisit /\ VisitRow(visit[w]) /\ visit[w].phase = "themes" /\ visit[w].op = "generate"
  BY <1>1, PhaseRow DEF SaveThemes
<1>3. /\ OneVisits(w) /\ visit'[w].phase = "save" /\ DOMAIN visit'[w] = DOMAIN visit[w]
      /\ \A f \in DOMAIN visit[w] \ {"phase"} : visit'[w][f] = visit[w][f]
  BY <1>1, <1>2, VisitProceedsAlone DEF SaveThemes
<1>4. /\ visit'[w].op = "generate" /\ visit'[w].draft = visit[w].draft /\ visit'[w].over = visit[w].over
      /\ "to" \in DOMAIN visit[w] /\ visit'[w].to = visit[w].to
  BY <1>2, <1>3 DEF VisitRow, At
<1>5. VisitRow(visit'[w]) /\ ~HasShop(visit'[w]) /\ ~HasLogo(visit'[w])
  BY <1>2, <1>3, <1>4 DEF VisitRow, HasShop, HasLogo, At
<1>6. UNCHANGED <<draft, shop, selected, logoAssets, lastLogo, builderHistory>>
  BY DEF SaveThemes
<1>7. torn \/ Current(visit'[w], draft, shop)
  BY <1>1, <1>2, <1>4, <1>5 DEF StepsOK, Current, At
<1>8. \A phases : ~At(visit[w], "publish", phases) /\ ~At(visit'[w], "publish", phases)
  BY <1>2, <1>4 DEF At
<1>9. ThemeOK'
  <2>1. ~Selecting(w) /\ (shop'.live => Wears)
    BY <1>2, <1>6 DEF Selecting, Phase, Wears
  <2>2. OthersAlike(w)
    BY <1>1, <1>3, VisitsAlike
  <2>3. QED
    BY <1>1, <1>5, <1>6, <1>8, <2>1, <2>2, ThemeStays DEF builderHistory
<1>10. \E set : LogosOK(set)'
  <2>1. PICK up : LogosOK(up)
    BY DEF BuilderInv
  <2>2. VisitShows(visit'[w], up)
    BY <1>2, <1>4, <1>5, <1>8, <2>1 DEF LogosOK, VisitShows
  <2>3. QED
    BY <1>1, <1>3, <1>5, <1>6, <1>8, <2>1, <2>2, LogosStay DEF builderHistory
<1>11. QED
  BY <1>3, <1>5, <1>6, <1>7, <1>8, <1>9, <1>10, GoesOn DEF builderHistory

LEMMA UploadLogoKeeps == ASSUME BuilderInv, NEW w \in Window, UploadLogo(w) PROVE BuilderInv'
<1>1. VisitsOK /\ StepsOK /\ ThemeOK
  BY DEF BuilderInv
<1>2. visit[w] # NoVisit /\ VisitRow(visit[w]) /\ visit[w].phase = "logo" /\ visit[w].op = "brainstorm"
  BY <1>1, PhaseRow DEF UploadLogo
<1>3. PICK up : LogosOK(up)
  BY DEF BuilderInv
<1>4. PICK logo : logo = lastLogo + 1
  OBVIOUS
<1>5. /\ lastLogo' = logo /\ logoAssets' = logoAssets \cup {logo}
      /\ UNCHANGED <<draft, shop, selected, torn, crossed, retired>>
  BY <1>4 DEF UploadLogo, builderHistory
<1>6. PICK next : next = [visit[w].draft EXCEPT !.logo = logo]
  OBVIOUS
<1>7. next \in DraftRow /\ next.logo = logo /\ next.step = visit[w].draft.step
  <2>1. visit[w].draft \in DraftRow /\ logo \in Nat
    BY <1>2, <1>3, <1>4 DEF VisitRow, LogosOK
  <2>2. QED
    BY <1>6, <2>1 DEF DraftRow
<1>8. PICK old : old = visit[w].draft.logo
  OBVIOUS
<1> DEFINE memory == [old |-> old, draft |-> next]
<1>9. PICK phase \in {"save", "destroy"} : ProceedWith(w, phase, memory)
  BY <1>4, <1>5, <1>6, <1>8 DEF UploadLogo
<1>10. DOMAIN memory = {"old", "draft"} /\ memory["old"] = old /\ memory["draft"] = next
  OBVIOUS
<1> HIDE DEF memory
<1>11. "phase" \notin DOMAIN memory
  BY <1>10
<1>12. /\ OneVisits(w) /\ visit'[w].phase = phase
       /\ DOMAIN visit'[w] = DOMAIN visit[w] \cup DOMAIN memory
       /\ \A f \in DOMAIN memory : visit'[w][f] = memory[f]
       /\ \A f \in DOMAIN visit[w] \ (DOMAIN memory \cup {"phase"}) : visit'[w][f] = visit[w][f]
  BY <1>1, <1>2, <1>9, <1>11, VisitProceeds
<1>13. /\ visit'[w].op = "brainstorm" /\ visit'[w].over = visit[w].over
       /\ visit'[w].draft = next /\ "old" \in DOMAIN visit'[w]
  BY <1>2, <1>10, <1>12 DEF VisitRow
<1>14. VisitRow(visit'[w]) /\ ~HasShop(visit'[w]) /\ ~HasLogo(visit'[w])
  BY <1>2, <1>7, <1>9, <1>12, <1>13 DEF VisitRow, HasShop, HasLogo, At
<1>15. torn \/ Current(visit'[w], draft, shop)
  BY <1>1, <1>2, <1>7, <1>13, <1>14 DEF StepsOK, Current, At
<1>16. \A phases : ~At(visit[w], "publish", phases) /\ ~At(visit'[w], "publish", phases)
  BY <1>2, <1>13 DEF At
<1>17. OthersAlike(w)
  BY <1>1, <1>12, VisitsAlike
<1>18. ThemeOK'
  <2>1. ~Selecting(w) /\ (shop'.live => Wears)
    BY <1>2, <1>5 DEF Selecting, Phase, Wears
  <2>2. QED
    BY <1>1, <1>5, <1>14, <1>16, <1>17, <2>1, ThemeStays
<1>19. \E set : LogosOK(set)'
  <2> DEFINE up2 == up \cup {logo}
  <2>1. /\ lastLogo \in Nat /\ up \subseteq 1..lastLogo /\ up \subseteq Kept
        /\ draft.logo \in up \cup {0} /\ ShowsLogo(shop, up) /\ LiveHasLogo(shop) /\ MonogramIsThere
    BY <1>3 DEF LogosOK, Kept
  <2>2. Kept' = Kept \cup {logo} /\ logo \in up2
    BY <1>5 DEF Kept
  <2>3. lastLogo' \in Nat /\ lastLogo <= lastLogo' /\ up2 \subseteq 1..lastLogo' /\ up2 \cap 1..lastLogo = up
    <3>1. lastLogo' = logo /\ lastLogo \in Nat /\ logo = lastLogo + 1
      BY <1>4, <1>5, <2>1
    <3>2. lastLogo' \in Nat /\ lastLogo <= lastLogo' /\ logo \in 1..lastLogo' /\ logo \notin 1..lastLogo
      BY <3>1
    <3>3. 1..lastLogo \subseteq 1..lastLogo'
      BY <3>1
    <3>4. QED
      BY <2>1, <3>2, <3>3, Zenon
  <2>4. up2 \subseteq Kept' /\ draft'.logo \in up2 \cup {0} /\ LiveHasLogo(shop)'
    BY <1>5, <2>1, <2>2 DEF LiveHasLogo
  <2>5. ShowsLogo(shop, up2)'
    BY <1>5, <2>1, <2>3, OldLogosShow
  <2>6. VisitShows(visit[w], up2)'
    BY <1>7, <1>13, <1>14, <1>16, <2>2 DEF VisitShows
  <2>7. \A v \in Window \ {w} : Draws(visit[v]) =>
          visit[v].shop.logo \in Kept' /\ shop'.logo # visit[v].shop.logo
    BY <1>3, <1>5, <2>2 DEF LogosOK, OwnMonogram, Kept
  <2>8. ~Draws(visit'[w])
    BY <1>14 DEF Draws
  <2>9. MonogramIsThere'
    BY <1>5, <1>12, <1>16, <2>1, <2>2 DEF MonogramIsThere, OneVisits, Kept
  <2> HIDE DEF up2
  <2>10. QED
    BY <1>1, <1>3, <1>14, <1>16, <1>17, <2>3, <2>4, <2>5, <2>6, <2>7, <2>8, <2>9, LogosMove
<1>20. QED
  BY <1>5, <1>12, <1>14, <1>15, <1>16, <1>18, <1>19, GoesOn

LEMMA DestroyLogoKeeps == ASSUME BuilderInv, NEW w \in Window, DestroyLogo(w) PROVE BuilderInv'
<1>1. VisitsOK /\ StepsOK /\ ThemeOK
  BY DEF BuilderInv
<1>2. visit[w] # NoVisit /\ VisitRow(visit[w]) /\ visit[w].phase = "destroy" /\ visit[w].op = "brainstorm"
  BY <1>1, PhaseRow DEF DestroyLogo
<1>3. /\ OneVisits(w) /\ visit'[w].phase = "save" /\ DOMAIN visit'[w] = DOMAIN visit[w]
      /\ \A f \in DOMAIN visit[w] \ {"phase"} : visit'[w][f] = visit[w][f]
  BY <1>1, <1>2, VisitProceedsAlone DEF DestroyLogo
<1>4. visit'[w].op = "brainstorm" /\ visit'[w].draft = visit[w].draft /\ visit'[w].over = visit[w].over
  BY <1>2, <1>3 DEF VisitRow
<1>5. VisitRow(visit'[w]) /\ ~HasShop(visit'[w]) /\ ~HasLogo(visit'[w])
  BY <1>2, <1>3, <1>4 DEF VisitRow, HasShop, HasLogo, At
<1>6. UNCHANGED <<draft, shop, selected, lastLogo, torn, crossed>> /\ Kept \subseteq Kept'
  BY DEF DestroyLogo, Kept
<1>7. torn \/ Current(visit'[w], draft, shop)
  BY <1>1, <1>2, <1>4, <1>5 DEF StepsOK, Current, At
<1>8. \A phases : ~At(visit[w], "publish", phases) /\ ~At(visit'[w], "publish", phases)
  BY <1>2, <1>4 DEF At
<1>9. OthersAlike(w)
  BY <1>1, <1>3, VisitsAlike
<1>10. ThemeOK'
  <2>1. ~Selecting(w) /\ (shop'.live => Wears)
    BY <1>2, <1>6 DEF Selecting, Phase, Wears
  <2>2. QED
    BY <1>1, <1>5, <1>6, <1>8, <1>9, <2>1, ThemeStays
<1>11. \E set : LogosOK(set)'
  <2>1. PICK up : LogosOK(up)
    BY DEF BuilderInv
  <2>2. /\ lastLogo \in Nat /\ lastLogo <= lastLogo /\ up \subseteq 1..lastLogo /\ up \subseteq Kept
        /\ draft.logo \in up \cup {0} /\ ShowsLogo(shop, up) /\ LiveHasLogo(shop) /\ MonogramIsThere
    BY <2>1 DEF LogosOK, Kept
  <2>3. up \cap 1..lastLogo = up
    BY <2>2, Zenon
  <2>4. ShowsLogo(shop, up)' /\ LiveHasLogo(shop)'
    BY <1>6, <2>2 DEF ShowsLogo, LiveHasLogo
  <2>5. VisitShows(visit[w], up)'
    BY <1>2, <1>4, <1>5, <1>8, <2>1 DEF LogosOK, VisitShows
  <2>6. \A v \in Window \ {w} : Draws(visit[v]) =>
          visit[v].shop.logo \in Kept' /\ shop'.logo # visit[v].shop.logo
    BY <1>6, <2>1 DEF LogosOK, OwnMonogram, Kept
  <2>7. ~Draws(visit'[w])
    BY <1>5 DEF Draws
  <2>8. MonogramIsThere'
    BY <1>3, <1>6, <1>8, <2>2 DEF MonogramIsThere, OneVisits, Kept
  <2>9. QED
    BY <1>1, <1>5, <1>6, <1>8, <1>9, <2>1, <2>2, <2>3, <2>4, <2>5, <2>6, <2>7, <2>8, LogosMove
<1>12. QED
  BY <1>3, <1>5, <1>6, <1>7, <1>8, <1>10, <1>11, GoesOn

\* A request that ends without a save.
LEMMA LeavingKeeps ==
    ASSUME BuilderInv, NEW w \in Window, Leave(w),
           UNCHANGED <<draft, shop, selected, logoAssets, lastLogo, retired>>,
           torn' \in BOOLEAN, torn => torn', crossed => crossed',
           torn' \/ ~At(visit[w], "publish", {"live", "save"}), crossed' \/ ~Selecting(w)
    PROVE  BuilderInv'
<1>1. VisitsOK /\ StepsOK /\ ThemeOK
  BY DEF BuilderInv
<1>2. OneVisits(w) /\ visit'[w] = NoVisit
  BY <1>1, VisitLeaves
<1>3. OthersAlike(w) /\ VisitsOK'
  BY <1>1, <1>2, VisitsAlike, VisitsStayOK
<1>4. /\ ~HasShop(visit'[w]) /\ ~HasLogo(visit'[w])
      /\ \A phases : ~At(visit'[w], "publish", phases)
  BY <1>2, NoVisitIsNoRow
<1>5. torn' \/ (~At(visit[w], "publish", {"live"}) /\ ~At(visit[w], "publish", {"save"}))
  BY DEF At
<1>6. StepsOK'
  BY <1>1, <1>2, <1>5, StepsStay
<1>7. ThemeOK'
  <2>1. shop'.live => Wears
    BY DEF Wears
  <2>2. QED
    BY <1>1, <1>3, <1>4, <2>1, ThemeStays
<1>8. \E set : LogosOK(set)'
  <2>1. PICK up : LogosOK(up)
    BY DEF BuilderInv
  <2>2. QED
    BY <1>1, <1>2, <1>4, <1>5, <2>1, LogosStay
<1>9. QED
  BY <1>3, <1>6, <1>7, <1>8 DEF BuilderInv

LEMMA CutShortKeeps == ASSUME BuilderInv, NEW w \in Window, CutShort(w) PROVE BuilderInv'
<1>1. torn \in BOOLEAN
  BY DEF BuilderInv, StepsOK
<1>2. /\ Leave(w) /\ UNCHANGED <<draft, shop, selected, logoAssets, lastLogo, retired>>
      /\ torn' = (torn \/ (visit[w].op = "publish" /\ visit[w].phase \in {"live", "save"}))
      /\ crossed' = (crossed \/ Selecting(w))
  BY DEF CutShort
<1>3. (crossed => crossed') /\ (crossed' \/ ~Selecting(w))
  BY <1>2
<1>4. torn' \in BOOLEAN /\ (torn => torn') /\ (torn' \/ ~At(visit[w], "publish", {"live", "save"}))
  BY <1>1, <1>2 DEF At
<1>5. QED
  BY <1>2, <1>3, <1>4, LeavingKeeps

\* What advanceStep makes of a draft.
LEMMA AdvancedRow ==
    ASSUME NEW row \in DraftRow, NEW step \in 0..Published
    PROVE  /\ Advanced(row, step) \in DraftRow
           /\ Advanced(row, step).logo = row.logo /\ Advanced(row, step).step >= row.step
           /\ step = Published => Advanced(row, step).step = Published
<1> DEFINE next == IF row.step < step THEN step ELSE row.step
<1>1. next \in 0..Published /\ next >= row.step /\ (step = Published => next = Published)
  BY DEF DraftRow, Published
<1>2. Advanced(row, step) = [row EXCEPT !.there = TRUE, !.step = next]
  BY DEF Advanced, DraftRow
<1> HIDE DEF next
<1>3. /\ Advanced(row, step) \in DraftRow
      /\ Advanced(row, step).logo = row.logo /\ Advanced(row, step).step = next
  BY <1>1, <1>2 DEF DraftRow
<1>4. QED
  BY <1>1, <1>3

LEMMA SaveBrainstormKeeps == ASSUME BuilderInv, NEW w \in Window, SaveBrainstorm(w) PROVE BuilderInv'
<1>1. VisitsOK /\ torn \in BOOLEAN
  BY DEF BuilderInv, StepsOK
<1>2. visit[w] # NoVisit /\ VisitRow(visit[w]) /\ visit[w].phase = "save" /\ visit[w].op = "brainstorm"
  BY <1>1, PhaseRow DEF SaveBrainstorm
<1>3. \A phases : ~At(visit[w], "publish", phases)
  BY <1>2 DEF At
<1>4. UNCHANGED <<shop, selected, logoAssets, lastLogo, crossed, retired>>
  BY DEF SaveBrainstorm
<1>5. CASE Clash(w)
  <2>1. Leave(w) /\ UNCHANGED <<draft, torn>>
    BY <1>5 DEF SaveBrainstorm
  <2>2. ~Selecting(w)
    BY <1>2 DEF Selecting, Phase
  <2>3. QED
    BY <1>1, <1>3, <1>4, <2>1, <2>2, LeavingKeeps
<1>6. CASE ~Clash(w)
  <2> DEFINE row == Advanced(visit[w].draft, Brainstormed)
             next == [visit[w] EXCEPT !.phase = "prefill", !.draft = row]
  <2>1. draft' = row /\ Saves(w, next)
    BY <1>6 DEF SaveBrainstorm
  <2>2. visit[w].draft \in DraftRow /\ Brainstormed \in 0..Published
    BY <1>2 DEF VisitRow, Brainstormed, Published
  <2>3. row \in DraftRow /\ row.logo = visit[w].draft.logo /\ row.step >= visit[w].draft.step
    BY <2>2, AdvancedRow
  <2> HIDE DEF row
  <2>4. /\ DOMAIN next = DOMAIN visit[w] /\ next.op = "brainstorm" /\ next.phase = "prefill"
        /\ next.draft = row /\ next.over = visit[w].over
    BY <1>2 DEF VisitRow
  <2> HIDE DEF next
  <2>5. VisitRow(next) /\ At(next, "brainstorm", {"prefill"})
    BY <1>2, <2>3, <2>4 DEF VisitRow, HasShop, HasLogo, At
  <2>6. QED
    BY <1>2, <1>3, <1>4, <2>1, <2>3, <2>4, <2>5, DraftIsSaved
<1>7. QED
  BY <1>5, <1>6

LEMMA SavePrefilledKeeps == ASSUME BuilderInv, NEW w \in Window, SavePrefilled(w) PROVE BuilderInv'
<1>1. VisitsOK
  BY DEF BuilderInv
<1>2. VisitRow(visit[w]) /\ visit[w].op = "brainstorm"
  BY <1>1, PhaseRow DEF SavePrefilled
<1>3. /\ \A phases : ~At(visit[w], "publish", phases)
      /\ visit[w].draft \in DraftRow /\ visit[w].draft.step >= visit[w].draft.step
  <2>1. visit[w].draft \in DraftRow
    BY <1>2 DEF VisitRow
  <2>2. visit[w].draft.step \in 0..Published /\ Published \in Nat
    BY <2>1 DEF DraftRow, Published
  <2>3. QED
    BY <1>2, <2>1, <2>2 DEF At
<1>4. draft' = visit[w].draft /\ Saves(w, NoVisit)
      /\ UNCHANGED <<shop, selected, logoAssets, lastLogo, crossed, retired>>
  BY DEF SavePrefilled
<1>5. QED
  BY <1>2, <1>3, <1>4, DraftIsSaved

LEMMA SaveDraftKeeps == ASSUME BuilderInv, NEW w \in Window, SaveDraft(w) PROVE BuilderInv'
<1>1. VisitsOK
  BY DEF BuilderInv
<1>2. VisitRow(visit[w]) /\ visit[w].phase = "save"
      /\ visit[w].op \in {"answers", "generate", "confirm", "publish"}
  BY <1>1, PhaseRow DEF SaveDraft
<1>3. visit[w].draft \in DraftRow /\ visit[w].to \in 0..Published
      /\ (At(visit[w], "publish", {"save"}) => visit[w].to = Published)
  BY <1>2 DEF VisitRow, At, Answered, Themed, DomainConfirmed, Published
<1>4. ~At(visit[w], "publish", {"select", "live"})
  BY <1>2 DEF At
<1>5. draft' = Advanced(visit[w].draft, visit[w].to) /\ Saves(w, NoVisit)
      /\ UNCHANGED <<shop, selected, logoAssets, lastLogo, crossed, retired>>
  BY DEF SaveDraft
<1>6. /\ draft' \in DraftRow /\ draft'.logo = visit[w].draft.logo /\ draft'.step >= visit[w].draft.step
      /\ At(visit[w], "publish", {"save"}) => draft'.step = Published
  BY <1>3, <1>5, AdvancedRow
<1>7. QED
  BY <1>2, <1>4, <1>5, <1>6, DraftIsSaved

\* The request that goes on after it has saved the store.
LEMMA SavedShopRow ==
    ASSUME NEW v, VisitRow(v), v.op \in {"confirm", "publish"}
    PROVE  LET next == [v EXCEPT !.phase = "save"]
           IN  VisitRow(next) /\ next.op = v.op /\ next.phase = "save" /\ next.draft = v.draft /\ next.over = v.over
<1> DEFINE next == [v EXCEPT !.phase = "save"]
<1>1. /\ DOMAIN next = DOMAIN v /\ next.phase = "save"
      /\ \A f \in DOMAIN v \ {"phase"} : next[f] = v[f]
  BY DEF VisitRow
<1> HIDE DEF next
<1>2. /\ next.op = v.op /\ next.draft = v.draft /\ next.over = v.over
      /\ "to" \in DOMAIN v => next.to = v.to
      /\ "slug" \in DOMAIN v => next.slug = v.slug
  BY <1>1 DEF VisitRow
<1>3. VisitRow(next)
  <2>1. CASE v.op = "confirm"
    BY <1>1, <1>2, <2>1 DEF VisitRow, HasShop, HasLogo, At
  <2>2. CASE v.op = "publish"
    BY <1>1, <1>2, <2>2 DEF VisitRow, HasShop, HasLogo, At
  <2>3. QED
    BY <2>1, <2>2
<1>4. QED
  BY <1>1, <1>2, <1>3 DEF next

LEMMA SaveShopKeeps == ASSUME BuilderInv, NEW w \in Window, SaveShop(w) PROVE BuilderInv'
<1>1. VisitsOK /\ torn \in BOOLEAN
  BY DEF BuilderInv, StepsOK
<1>2. VisitRow(visit[w]) /\ visit[w].phase = "save-store" /\ visit[w].op = "confirm"
  BY <1>1, PhaseRow DEF SaveShop
<1>3. UNCHANGED <<draft, selected, logoAssets, lastLogo, crossed, retired>>
  BY DEF SaveShop
<1>4. CASE visit[w].fresh /\ shop.there
  <2>1. Leave(w) /\ UNCHANGED <<shop, torn>>
    BY <1>4 DEF SaveShop
  <2>2. ~Selecting(w) /\ ~At(visit[w], "publish", {"live", "save"})
    BY <1>2 DEF Selecting, Phase, At
  <2>3. QED
    BY <1>1, <1>3, <2>1, <2>2, LeavingKeeps
<1>5. CASE ~(visit[w].fresh /\ shop.there)
  <2>1. shop' = visit[w].shop /\ Saves(w, [visit[w] EXCEPT !.phase = "save"])
    BY <1>5 DEF SaveShop
  <2>2. HasShop(visit[w]) /\ At(visit[w], "confirm", {"save-store"})
    BY <1>2 DEF HasShop, At
  <2> DEFINE next == [visit[w] EXCEPT !.phase = "save"]
  <2>3. /\ VisitRow(next) /\ next.op = visit[w].op /\ next.phase = "save"
        /\ next.draft = visit[w].draft /\ next.over = visit[w].over
    BY <1>2, SavedShopRow
  <2> HIDE DEF next
  <2>4. Saves(w, next) /\ next.op # "hero"
    BY <1>2, <2>1, <2>3 DEF next
  <2>5. QED
    BY <1>2, <1>3, <2>1, <2>2, <2>3, <2>4, ShopIsSaved
<1>6. QED
  BY <1>4, <1>5

LEMMA GoLiveKeeps == ASSUME BuilderInv, NEW w \in Window, GoLive(w) PROVE BuilderInv'
<1>1. VisitsOK
  BY DEF BuilderInv
<1>2. VisitRow(visit[w]) /\ visit[w].phase = "live" /\ visit[w].op = "publish"
  BY <1>1, PhaseRow DEF GoLive
<1>3. UNCHANGED <<draft, selected, logoAssets, lastLogo, crossed, retired>>
  BY DEF GoLive
<1>4. shop' = visit[w].shop /\ Saves(w, [visit[w] EXCEPT !.phase = "save"])
  BY DEF GoLive
<1>5. HasShop(visit[w]) /\ At(visit[w], "publish", {"live"})
  BY <1>2 DEF HasShop, At
<1> DEFINE next == [visit[w] EXCEPT !.phase = "save"]
<1>6. /\ VisitRow(next) /\ next.op = visit[w].op /\ next.phase = "save"
      /\ next.draft = visit[w].draft /\ next.over = visit[w].over
  BY <1>2, SavedShopRow
<1> HIDE DEF next
<1>7. Saves(w, next) /\ next.op # "hero"
  BY <1>2, <1>4, <1>6 DEF next
<1>8. QED
  BY <1>2, <1>3, <1>4, <1>5, <1>6, <1>7, ShopIsSaved

LEMMA SaveHeroKeeps == ASSUME BuilderInv, NEW w \in Window, SaveHero(w) PROVE BuilderInv'
<1>1. VisitsOK
  BY DEF BuilderInv
<1>2. VisitRow(visit[w]) /\ visit[w].op = "hero" /\ HasShop(visit[w])
  BY <1>1, PhaseRow DEF SaveHero, HasShop
<1>3. shop' = visit[w].shop /\ Saves(w, NoVisit)
      /\ UNCHANGED <<draft, selected, logoAssets, lastLogo, crossed, retired>>
  BY DEF SaveHero
<1>4. QED
  BY <1>2, <1>3, ShopIsSaved

LEMMA LoadShopKeeps == ASSUME BuilderInv, NEW w \in Window, LoadShop(w) PROVE BuilderInv'
<1>1. VisitsOK /\ StepsOK /\ ThemeOK /\ shop \in ShopRow
  BY DEF BuilderInv, StepsOK
<1>2. visit[w] # NoVisit /\ VisitRow(visit[w]) /\ visit[w].phase = "store" /\ visit[w].op = "confirm"
  BY <1>1, PhaseRow DEF LoadShop
<1>3. PICK next : next = [shop EXCEPT !.there = TRUE, !.slug = visit[w].slug]
  OBVIOUS
<1>4. /\ next \in ShopRow /\ next.live = shop.live /\ next.logo = shop.logo
      /\ next.monogram = shop.monogram
  <2>1. visit[w].slug \in Slug
    BY <1>2 DEF VisitRow, At
  <2>2. QED
    BY <1>1, <1>3, <2>1 DEF ShopRow
<1>5. PICK fresh : fresh = ~shop.there
  OBVIOUS
<1> DEFINE memory == [shop |-> next, fresh |-> fresh]
<1>6. ProceedWith(w, "save-store", memory)
  BY <1>3, <1>5 DEF LoadShop
<1>7. DOMAIN memory = {"shop", "fresh"} /\ memory["shop"] = next
  OBVIOUS
<1> HIDE DEF memory
<1>8. "phase" \notin DOMAIN memory
  BY <1>7
<1>9. /\ OneVisits(w) /\ visit'[w].phase = "save-store"
      /\ DOMAIN visit'[w] = DOMAIN visit[w] \cup DOMAIN memory
      /\ \A f \in DOMAIN memory : visit'[w][f] = memory[f]
      /\ \A f \in DOMAIN visit[w] \ (DOMAIN memory \cup {"phase"}) : visit'[w][f] = visit[w][f]
  BY <1>1, <1>2, <1>6, <1>8, VisitProceeds
<1>10. /\ visit'[w].op = "confirm" /\ visit'[w].over = visit[w].over /\ visit'[w].draft = visit[w].draft
       /\ visit'[w].to = visit[w].to /\ visit'[w].slug = visit[w].slug
       /\ visit'[w].shop = next /\ "shop" \in DOMAIN visit'[w]
  BY <1>2, <1>7, <1>9 DEF VisitRow, At
<1>11. VisitRow(visit'[w]) /\ ~HasLogo(visit'[w])
  BY <1>2, <1>4, <1>9, <1>10 DEF VisitRow, HasShop, HasLogo, At
<1>12. UNCHANGED <<draft, shop, selected, logoAssets, lastLogo, torn, crossed, retired>>
  BY DEF LoadShop, builderHistory
<1>13. torn \/ Current(visit'[w], draft, shop)
  <2>1. torn \/ Current(visit[w], draft, shop)
    BY <1>1, <1>2 DEF StepsOK
  <2>2. QED
    BY <1>2, <1>4, <1>9, <1>10, <2>1 DEF Current, At
<1>14. \A phases : ~At(visit[w], "publish", phases) /\ ~At(visit'[w], "publish", phases)
  BY <1>2, <1>10 DEF At
<1>15. ThemeOK'
  <2>1. ~Selecting(w) /\ (shop'.live => Wears) /\ (visit'[w].shop.live => Wears)
    BY <1>2, <1>4, <1>10, <1>12 DEF Selecting, Phase, Wears
  <2>2. OthersAlike(w)
    BY <1>1, <1>9, VisitsAlike
  <2>3. QED
    BY <1>1, <1>12, <1>14, <2>1, <2>2, ThemeStays
<1>16. \E set : LogosOK(set)'
  <2>1. PICK up : LogosOK(up)
    BY DEF BuilderInv
  <2>2. ShowsLogo(next, up) /\ LiveHasLogo(next)
    BY <1>4, <2>1 DEF LogosOK, ShowsLogo, LiveHasLogo
  <2>3. VisitShows(visit'[w], up)
    BY <1>2, <1>10, <1>11, <1>14, <2>1, <2>2 DEF LogosOK, VisitShows
  <2>4. QED
    BY <1>1, <1>4, <1>9, <1>10, <1>11, <1>12, <1>14, <2>1, <2>3, LogosStay
<1>17. QED
  BY <1>9, <1>11, <1>12, <1>13, <1>14, <1>15, <1>16, GoesOn

\* A publication that goes on with what it has.
LEMMA PublicationGoesOn ==
    ASSUME VisitsOK, NEW w \in Window, NEW phase, Phase(w, phase, {"publish"}), phase \in {"clear", "select", "destroy"},
           NEW next \in {"select", "logo", "live"}, next = "live" => phase = "destroy", Proceed(w, next)
    PROVE  /\ visit[w] # NoVisit /\ OneVisits(w) /\ OthersAlike(w)
           /\ HasShop(visit[w]) /\ HasShop(visit'[w]) /\ At(visit[w], "publish", {phase})
           /\ VisitRow(visit'[w]) /\ visit'[w].op = "publish" /\ visit'[w].phase = next
           /\ visit'[w].draft = visit[w].draft /\ visit'[w].over = visit[w].over
           /\ visit'[w].shop = visit[w].shop
           /\ "old" \in DOMAIN visit[w] => visit'[w].old = visit[w].old
           /\ \A d, s : Current(visit[w], d, s) => Current(visit'[w], d, s)
<1>1. visit[w] # NoVisit /\ VisitRow(visit[w]) /\ visit[w].phase = phase /\ visit[w].op = "publish"
  BY PhaseRow
<1>2. /\ OneVisits(w) /\ visit'[w].phase = next /\ DOMAIN visit'[w] = DOMAIN visit[w]
      /\ \A f \in DOMAIN visit[w] \ {"phase"} : visit'[w][f] = visit[w][f]
  BY <1>1, VisitProceedsAlone
<1>3. /\ visit'[w].op = "publish" /\ visit'[w].draft = visit[w].draft /\ visit'[w].over = visit[w].over
      /\ visit'[w].to = visit[w].to
      /\ "old" \in DOMAIN visit[w] => visit'[w].old = visit[w].old
  BY <1>1, <1>2 DEF VisitRow, At
<1>4. HasShop(visit[w]) /\ HasShop(visit'[w]) /\ visit'[w].shop = visit[w].shop
  BY <1>1, <1>2, <1>3 DEF VisitRow, HasShop
<1>5. VisitRow(visit'[w])
  BY <1>1, <1>2, <1>3, <1>4 DEF VisitRow, HasLogo, At
<1>6. \A d, s : Current(visit[w], d, s) => Current(visit'[w], d, s)
  BY <1>1, <1>3, <1>4 DEF Current, At
<1>7. QED
  BY <1>1, <1>2, <1>3, <1>4, <1>5, <1>6, VisitsAlike DEF At

LEMMA ClearSelectionKeeps == ASSUME BuilderInv, NEW w \in Window, ClearSelection(w) PROVE BuilderInv'
<1>1. VisitsOK /\ StepsOK /\ Phase(w, "clear", {"publish"}) /\ Proceed(w, "select")
  BY DEF BuilderInv, ClearSelection
<1>2. /\ visit[w] # NoVisit /\ OneVisits(w) /\ HasShop(visit[w]) /\ At(visit[w], "publish", {"clear"})
      /\ VisitRow(visit'[w]) /\ visit'[w].op = "publish" /\ visit'[w].phase = "select"
      /\ visit'[w].draft = visit[w].draft /\ visit'[w].shop = visit[w].shop
      /\ Current(visit[w], draft, shop) => Current(visit'[w], draft, shop)
  BY <1>1, PublicationGoesOn
<1>3. UNCHANGED <<draft, shop, logoAssets, lastLogo, torn, crossed, retired>> /\ selected' = {}
  BY DEF ClearSelection, Cleared, builderHistory
<1>4. torn \/ Current(visit'[w], draft, shop)
  BY <1>1, <1>2 DEF StepsOK
<1>5. /\ ~At(visit[w], "publish", {"save"}) /\ ~At(visit[w], "publish", {"live"})
      /\ ~HasLogo(visit'[w]) /\ ~At(visit'[w], "publish", {"destroy"})
  BY <1>2 DEF At, HasLogo
<1>6. ThemeOK'
  BY <1>2, <1>3 DEF ThemeOK, Selecting, Phase
<1>7. \E set : LogosOK(set)'
  <2>1. PICK up : LogosOK(up)
    BY DEF BuilderInv
  <2>2. VisitShows(visit'[w], up)
    BY <1>2, <1>5, <2>1 DEF LogosOK, VisitShows
  <2>3. QED
    BY <1>1, <1>2, <1>3, <1>5, <2>1, <2>2, LogosStay
<1>8. QED
  BY <1>2, <1>3, <1>4, <1>5, <1>6, <1>7, GoesOn

LEMMA SelectThemeKeeps == ASSUME BuilderInv, NEW w \in Window, SelectTheme(w) PROVE BuilderInv'
<1>1. VisitsOK /\ StepsOK /\ ThemeOK /\ Phase(w, "select", {"publish"}) /\ Proceed(w, "logo")
  BY DEF BuilderInv, SelectTheme, Selecting
<1>2. /\ visit[w] # NoVisit /\ OneVisits(w) /\ HasShop(visit[w]) /\ At(visit[w], "publish", {"select"})
      /\ VisitRow(visit'[w]) /\ visit'[w].op = "publish" /\ visit'[w].phase = "logo"
      /\ visit'[w].draft = visit[w].draft /\ visit'[w].shop = visit[w].shop
      /\ Current(visit[w], draft, shop) => Current(visit'[w], draft, shop)
  BY <1>1, PublicationGoesOn
<1>3. /\ UNCHANGED <<draft, shop, logoAssets, lastLogo, torn, retired>>
      /\ selected' = selected \cup {visit[w].theme}
      /\ crossed' = (crossed \/ \E v \in Window \ {w} : Selecting(v))
  BY DEF SelectTheme
<1>4. torn \/ Current(visit'[w], draft, shop)
  BY <1>1, <1>2 DEF StepsOK
<1>5. /\ ~At(visit[w], "publish", {"save"}) /\ ~At(visit[w], "publish", {"live"})
      /\ ~HasLogo(visit'[w]) /\ ~At(visit'[w], "publish", {"destroy"})
  BY <1>2 DEF At, HasLogo
<1>6. ThemeOK'
  <2>1. CASE crossed'
    BY <2>1 DEF ThemeOK
  <2>2. CASE ~crossed'
    <3>1. ~crossed /\ \A v \in Window \ {w} : ~Selecting(v)
      BY <1>3, <2>2
    <3>2. Selecting(w)
      BY DEF SelectTheme
    <3>3. selected = {}
      BY <1>1, <3>1, <3>2 DEF ThemeOK
    <3>4. selected' = {visit[w].theme}
      BY <1>3, <3>3
    <3>5. \A v \in Window : ~Selecting(v)'
      BY <1>2, <3>1 DEF OneVisits, Selecting, Phase
    <3>6. QED
      BY <3>4, <3>5 DEF ThemeOK
  <2>3. QED
    BY <2>1, <2>2
<1>7. \E set : LogosOK(set)'
  <2>1. PICK up : LogosOK(up)
    BY DEF BuilderInv
  <2>2. VisitShows(visit'[w], up)
    BY <1>2, <1>5, <2>1 DEF LogosOK, VisitShows
  <2>3. QED
    BY <1>1, <1>2, <1>3, <1>5, <2>1, <2>2, LogosStay
<1>8. QED
  BY <1>2, <1>3, <1>4, <1>5, <1>6, <1>7, GoesOn

LEMMA DestroyMonogramKeeps == ASSUME BuilderInv, NEW w \in Window, DestroyMonogram(w) PROVE BuilderInv'
<1>1. VisitsOK /\ StepsOK /\ ThemeOK /\ Phase(w, "destroy", {"publish"}) /\ Proceed(w, "live")
  BY DEF BuilderInv, DestroyMonogram
<1>2. /\ visit[w] # NoVisit /\ OneVisits(w) /\ OthersAlike(w)
      /\ HasShop(visit[w]) /\ HasShop(visit'[w]) /\ At(visit[w], "publish", {"destroy"})
      /\ VisitRow(visit'[w]) /\ visit'[w].op = "publish" /\ visit'[w].phase = "live"
      /\ visit'[w].draft = visit[w].draft /\ visit'[w].shop = visit[w].shop
      /\ "old" \in DOMAIN visit[w] => visit'[w].old = visit[w].old
      /\ Current(visit[w], draft, shop) => Current(visit'[w], draft, shop)
  BY <1>1, PublicationGoesOn
<1>3. UNCHANGED <<draft, shop, selected, lastLogo, torn, crossed, retired>>
      /\ logoAssets' = logoAssets \ {visit[w].old}
  BY DEF DestroyMonogram, builderHistory
<1>4. torn \/ Current(visit'[w], draft, shop)
  BY <1>1, <1>2 DEF StepsOK
<1>5. /\ ~At(visit[w], "publish", {"save"}) /\ ~At(visit[w], "publish", {"live"})
      /\ ~At(visit'[w], "publish", {"destroy"}) /\ ~At(visit'[w], "publish", {"select"})
      /\ HasLogo(visit[w]) /\ HasLogo(visit'[w])
  BY <1>2 DEF At, HasLogo
<1>6. visit'[w].old = visit[w].old
  <2>1. VisitRow(visit[w])
    BY <1>1, <1>2 DEF VisitsOK
  <2>2. QED
    BY <1>2, <1>5, <2>1 DEF VisitRow
<1>7. ThemeOK'
  <2>1. ~Selecting(w) /\ Wears /\ (shop'.live => Wears)
    BY <1>2 DEF Selecting, Phase, Wears, Publishing, At
  <2>2. QED
    BY <1>1, <1>2, <1>3, <1>5, <2>1, ThemeStays
<1>8. \E set : LogosOK(set)'
  <2>1. PICK up : LogosOK(up)
    BY DEF BuilderInv
  <2>2. /\ lastLogo \in Nat /\ lastLogo <= lastLogo /\ up \subseteq 1..lastLogo /\ up \subseteq Kept
        /\ draft.logo \in up \cup {0} /\ ShowsLogo(shop, up) /\ LiveHasLogo(shop) /\ MonogramIsThere
        /\ VisitShows(visit[w], up)
    BY <1>2, <2>1 DEF LogosOK, Kept
  <2>3. up \cap 1..lastLogo = up
    BY <2>2, Zenon
  <2>4. visit[w].old \notin up /\ Kept \ {visit[w].old} \subseteq Kept'
    BY <1>2, <1>3, <2>2 DEF VisitShows, Kept
  <2>5. up \subseteq Kept'
    BY <2>2, <2>4, Zenon
  <2>6. ShowsLogo(shop, up)' /\ LiveHasLogo(shop)'
    BY <1>3, <2>2 DEF ShowsLogo, LiveHasLogo
  <2>7. VisitShows(visit[w], up)'
    <3>1. VisitShows(visit'[w], up)
      BY <1>2, <1>5, <2>2 DEF VisitShows
    <3>2. QED
      BY <1>3, <3>1 DEF VisitShows, ShowsLogo
  <2>8. \A v \in Window : Draws(visit[v]) =>
          /\ visit[v].shop.logo \in Kept' /\ shop'.logo # visit[v].shop.logo
          /\ v # w => visit'[w].shop.logo # visit[v].shop.logo
    <3>1. ASSUME NEW v \in Window, Draws(visit[v])
          PROVE  /\ visit[v].shop.logo \in Kept' /\ shop'.logo # visit[v].shop.logo
                 /\ v # w => visit'[w].shop.logo # visit[v].shop.logo
      <4>1. OwnMonogram(v, visit[v].shop.logo)
        BY <2>1, <3>1 DEF LogosOK
      <4>2. visit[v].shop.logo \in Kept /\ visit[w].old # visit[v].shop.logo
        BY <1>2, <4>1 DEF OwnMonogram, Kept
      <4>3. visit[v].shop.logo \in Kept'
        BY <2>4, <4>2, Zenon
      <4>4. QED
        BY <1>2, <1>3, <4>1, <4>3 DEF OwnMonogram
    <3>2. QED
      BY <3>1
  <2>9. Draws(visit'[w]) => OwnMonogram(w, visit[w].shop.logo)'
    <3>1. SUFFICES ASSUME Draws(visit'[w]) PROVE OwnMonogram(w, visit[w].shop.logo)'
      OBVIOUS
    <3>2. Draws(visit[w])
      BY <1>2, <1>5, <3>1 DEF Draws
    <3>3. OwnMonogram(w, visit[w].shop.logo) /\ visit[w].shop.logo \in Kept'
      BY <2>1, <2>8, <3>2 DEF LogosOK
    <3>4. \A v \in Window \ {w} : visit'[v] = visit[v]
      BY <1>2 DEF OneVisits
    <3>5. QED
      BY <1>2, <1>3, <1>5, <3>3, <3>4 DEF OwnMonogram, Kept
  <2>10. MonogramIsThere'
    <3>1. CASE shop.logo = visit[w].old
      BY <1>2, <1>3, <1>6, <3>1 DEF MonogramIsThere, At
    <3>2. CASE shop.logo # visit[w].old
      BY <1>2, <1>3, <1>5, <2>2, <2>4, <3>2 DEF MonogramIsThere, OneVisits, Kept
    <3>3. QED
      BY <3>1, <3>2
  <2>11. QED
    BY <1>1, <1>2, <1>3, <1>5, <2>1, <2>2, <2>3, <2>5, <2>6, <2>7, <2>8, <2>9, <2>10, LogosMove
<1>9. QED
  BY <1>2, <1>3, <1>4, <1>5, <1>7, <1>8, GoesOn

LEMMA ResolveLogoKeeps == ASSUME BuilderInv, NEW w \in Window, ResolveLogo(w) PROVE BuilderInv'
<1>1. VisitsOK /\ StepsOK /\ ThemeOK
  BY DEF BuilderInv
<1>2. /\ visit[w] # NoVisit /\ VisitRow(visit[w]) /\ visit[w].phase = "logo" /\ visit[w].op = "publish"
      /\ HasShop(visit[w]) /\ visit[w].shop \in ShopRow /\ visit[w].draft \in DraftRow
  <2>1. visit[w] # NoVisit /\ VisitRow(visit[w]) /\ visit[w].phase = "logo" /\ visit[w].op = "publish"
    BY <1>1, PhaseRow DEF ResolveLogo
  <2>2. QED
    BY <2>1 DEF VisitRow, HasShop
<1>3. PICK up : LogosOK(up)
  BY DEF BuilderInv
<1>4. /\ lastLogo \in Nat /\ up \subseteq 1..lastLogo /\ up \subseteq Kept
      /\ draft.logo \in up \cup {0} /\ ShowsLogo(shop, up) /\ LiveHasLogo(shop) /\ MonogramIsThere
      /\ VisitShows(visit[w], up)
  BY <1>2, <1>3 DEF LogosOK, Kept
<1>5. PICK uploaded : uploaded = visit[w].draft.logo
  OBVIOUS
<1>6. PICK stale : stale = visit[w].shop
  OBVIOUS
<1>7. PICK logo : logo = IF uploaded # 0 THEN uploaded ELSE lastLogo + 1
  OBVIOUS
<1>8. PICK next : next = [stale EXCEPT !.live = TRUE, !.logo = logo, !.monogram = (uploaded = 0)]
  OBVIOUS
<1>9. PICK old : old = stale.logo
  OBVIOUS
<1> DEFINE memory == [old |-> old, shop |-> next]
<1>10. /\ lastLogo' = (IF uploaded # 0 THEN lastLogo ELSE logo)
       /\ logoAssets' = (IF uploaded # 0 THEN logoAssets ELSE logoAssets \cup {logo})
       /\ UNCHANGED <<draft, shop, selected, torn, crossed, retired>>
  BY <1>5, <1>7 DEF ResolveLogo, builderHistory
<1>11. ProceedWith(w, IF Outdated(stale, logo) THEN "destroy" ELSE "live", memory)
  BY <1>5, <1>6, <1>7, <1>8, <1>9 DEF ResolveLogo
<1>12. PICK phase : phase = IF Outdated(stale, logo) THEN "destroy" ELSE "live"
  OBVIOUS
<1>13. ProceedWith(w, phase, memory) /\ DOMAIN memory = {"old", "shop"}
       /\ memory["old"] = old /\ memory["shop"] = next
  BY <1>11, <1>12
<1> HIDE DEF memory
<1>14. phase \in {"destroy", "live"} /\ (phase = "destroy" => stale.monogram) /\ "phase" \notin DOMAIN memory
  BY <1>12, <1>13 DEF Outdated
<1>15. /\ OneVisits(w) /\ visit'[w].phase = phase
       /\ DOMAIN visit'[w] = DOMAIN visit[w] \cup DOMAIN memory
       /\ \A f \in DOMAIN memory : visit'[w][f] = memory[f]
       /\ \A f \in DOMAIN visit[w] \ (DOMAIN memory \cup {"phase"}) : visit'[w][f] = visit[w][f]
  BY <1>1, <1>2, <1>13, <1>14, VisitProceeds
<1>16. /\ visit'[w].op = "publish" /\ visit'[w].over = visit[w].over /\ visit'[w].draft = visit[w].draft
       /\ visit'[w].to = visit[w].to /\ visit'[w].shop = next /\ visit'[w].old = old
       /\ {"shop", "old"} \subseteq DOMAIN visit'[w]
  BY <1>2, <1>13, <1>15 DEF VisitRow, At
<1>17. uploaded \in up \cup {0} /\ uploaded \in Nat /\ ShowsLogo(stale, up)
  BY <1>2, <1>4, <1>5, <1>6 DEF VisitShows, DraftRow
<1>18. logo \in Nat /\ logo # 0 /\ (uploaded = 0 => logo = lastLogo + 1) /\ (uploaded # 0 => logo \in up)
  BY <1>4, <1>7, <1>17
<1>19. /\ next \in ShopRow /\ next.live = TRUE /\ next.logo = logo /\ next.monogram = (uploaded = 0)
       /\ next.slug = stale.slug
  <2>1. stale \in ShopRow /\ (uploaded = 0) \in BOOLEAN
    BY <1>2, <1>6
  <2>2. QED
    BY <1>8, <1>18, <2>1 DEF ShopRow
<1>20. VisitRow(visit'[w]) /\ HasShop(visit'[w]) /\ HasLogo(visit'[w])
  <2>1. HasShop(visit'[w]) /\ HasLogo(visit'[w])
    BY <1>14, <1>15, <1>16 DEF HasShop, HasLogo, At
  <2>2. QED
    BY <1>2, <1>13, <1>14, <1>15, <1>16, <1>19, <2>1 DEF VisitRow, At
<1>21. OthersAlike(w)
  BY <1>1, <1>15, VisitsAlike
<1>22. torn \/ Current(visit'[w], draft, shop)
  <2>1. torn \/ Current(visit[w], draft, shop)
    BY <1>1, <1>2 DEF StepsOK
  <2>2. QED
    BY <1>2, <1>6, <1>16, <1>19, <2>1 DEF Current, At
<1>23. ~At(visit[w], "publish", {"save"}) /\ ~At(visit'[w], "publish", {"select"})
       /\ ~At(visit[w], "publish", {"live"})
  BY <1>2, <1>14, <1>15 DEF At
<1>24. ThemeOK'
  <2>1. ~Selecting(w) /\ Wears /\ (shop'.live => Wears)
    BY <1>2 DEF Selecting, Phase, Wears, Publishing
  <2>2. QED
    BY <1>1, <1>10, <1>21, <1>23, <2>1, ThemeStays
<1>25. \E set : LogosOK(set)'
  <2>1. /\ lastLogo' \in Nat /\ lastLogo <= lastLogo' /\ logo \in 1..lastLogo'
        /\ 1..lastLogo \subseteq 1..lastLogo' /\ (uploaded = 0 => logo \notin 1..lastLogo)
    <3>1. CASE uploaded = 0
      BY <1>4, <1>10, <1>18, <3>1
    <3>2. CASE uploaded # 0
      BY <1>4, <1>10, <1>18, <3>2
    <3>3. QED
      BY <3>1, <3>2
  <2>2. up \cap 1..lastLogo = up /\ up \subseteq 1..lastLogo'
    BY <1>4, <2>1, Zenon
  <2>3. Kept \subseteq Kept' /\ up \subseteq Kept' /\ logo \in Kept'
    <3>1. Kept \subseteq Kept' /\ (uploaded = 0 => logo \in Kept')
      BY <1>10 DEF Kept
    <3>2. QED
      BY <1>4, <1>18, <3>1
  <2>4. /\ draft'.logo \in up \cup {0} /\ ShowsLogo(shop, up)' /\ LiveHasLogo(shop)'
        /\ ShowsLogo(stale, up)'
    <3>1. ShowsLogo(shop, up)' /\ ShowsLogo(stale, up)'
      BY <1>4, <1>10, <1>17, <2>1, <2>2, OldLogosShow
    <3>2. QED
      BY <1>4, <1>10, <3>1 DEF LiveHasLogo
  <2>5. VisitShows(visit[w], up)'
    <3>1. visit'[w].draft.logo \in up \cup {0}
      BY <1>5, <1>16, <1>17
    <3>2. ShowsLogo(next, up)' /\ LiveHasLogo(next)
      <4>1. CASE uploaded = 0
        <5>1. logo \notin up
          BY <1>4, <2>1, <4>1
        <5>2. next.monogram
          BY <1>19, <4>1, Zenon
        <5>3. next.logo = logo /\ logo # 0 /\ logo \in 1..lastLogo' \ up
          BY <1>18, <1>19, <2>1, <5>1, Zenon
        <5>4. QED
          BY <5>2, <5>3 DEF ShowsLogo, LiveHasLogo
      <4>2. CASE uploaded # 0
        BY <1>18, <1>19, <4>2 DEF ShowsLogo, LiveHasLogo
      <4>3. QED
        BY <4>1, <4>2
    <3>3. At(visit'[w], "publish", {"destroy"}) => visit'[w].old \in 1..lastLogo' \ up
      BY <1>9, <1>14, <1>15, <1>16, <2>4 DEF At, ShowsLogo
    <3>4. QED
      BY <1>16, <1>19, <3>1, <3>2, <3>3 DEF VisitShows, LiveHasLogo
  <2>6. ASSUME NEW v \in Window \ {w}, Draws(visit[v])
        PROVE  /\ visit[v].shop.logo \in Kept' /\ shop'.logo # visit[v].shop.logo
               /\ visit'[w].shop.logo # visit[v].shop.logo
               /\ visit'[w].old # visit[v].shop.logo
    <3>1. OwnMonogram(v, visit[v].shop.logo) /\ HasShop(visit[v]) /\ visit[v].shop.monogram
      BY <1>3, <2>6 DEF LogosOK, Draws, HasLogo, HasShop, At
    <3>2. visit[v].shop.logo \in 1..lastLogo \ up
      <4>1. visit[v] # NoVisit
        BY <2>6, NoVisitIsNoRow DEF Draws
      <4>2. ShowsLogo(visit[v].shop, up)
        BY <1>3, <3>1, <4>1 DEF LogosOK, VisitShows
      <4>3. QED
        BY <3>1, <4>2 DEF ShowsLogo
    <3>3. logo # visit[v].shop.logo
      BY <1>18, <2>1, <3>2
    <3>4. old # visit[v].shop.logo
      BY <1>2, <1>6, <1>9, <3>1 DEF OwnMonogram
    <3>5. visit[v].shop.logo \in Kept'
      BY <2>3, <3>1 DEF OwnMonogram, Kept
    <3>6. QED
      BY <1>10, <1>16, <1>19, <3>1, <3>3, <3>4, <3>5 DEF OwnMonogram
  <2>7. Draws(visit'[w]) => OwnMonogram(w, visit[w].shop.logo)'
    <3>1. SUFFICES ASSUME Draws(visit'[w]) PROVE OwnMonogram(w, visit[w].shop.logo)'
      OBVIOUS
    <3>2. uploaded = 0 /\ visit'[w].shop.logo = logo /\ logo \notin 1..lastLogo /\ logo # 0
      BY <1>16, <1>18, <1>19, <2>1, <3>1 DEF Draws
    <3>3. \A row : ShowsLogo(row, up) => row.logo # logo
      BY <1>4, <3>2 DEF ShowsLogo
    <3>4. \A v \in Window \ {w} : HasShop(visit'[v]) => visit'[v].shop.logo # logo
      <4>1. ASSUME NEW v \in Window \ {w}, HasShop(visit'[v]) PROVE visit'[v].shop.logo # logo
        <5>1. visit'[v] = visit[v] /\ visit[v] # NoVisit
          BY <1>15, <4>1, NoVisitIsNoRow DEF OneVisits
        <5>2. ShowsLogo(visit[v].shop, up)
          BY <1>3, <4>1, <5>1 DEF LogosOK, VisitShows
        <5>3. QED
          BY <3>3, <5>1, <5>2
      <4>2. QED
        BY <4>1
    <3>5. \A v \in Window : At(visit'[v], "publish", {"destroy"}) => visit'[v].old # logo
      <4>1. ASSUME NEW v \in Window \ {w}, At(visit'[v], "publish", {"destroy"}) PROVE visit'[v].old # logo
        <5>1. visit'[v] = visit[v] /\ visit[v] # NoVisit
          BY <1>15, <4>1, NoVisitIsNoRow DEF OneVisits
        <5>2. visit[v].old \in 1..lastLogo \ up
          BY <1>3, <4>1, <5>1 DEF LogosOK, VisitShows
        <5>3. QED
          BY <3>2, <5>1, <5>2
      <4>2. visit'[w].old # logo
        BY <1>9, <1>16, <1>17, <3>3
      <4>3. QED
        BY <4>1, <4>2
    <3>6. shop'.logo # logo /\ logo \in logoAssets' \cup retired'
      BY <1>4, <1>10, <2>3, <3>3 DEF Kept
    <3>7. QED
      BY <3>2, <3>4, <3>5, <3>6 DEF OwnMonogram
  <2>8. MonogramIsThere'
    BY <1>4, <1>10, <1>15, <1>23, <2>3 DEF MonogramIsThere, OneVisits, Kept
  <2>9. QED
    BY <1>1, <1>3, <1>10, <1>21, <2>1, <2>2, <2>3, <2>4, <2>5, <2>6, <2>7, <2>8, LogosMove
<1>26. QED
  BY <1>10, <1>15, <1>20, <1>22, <1>23, <1>24, <1>25, GoesOn

LEMMA NextBuilderInv == BuilderInv /\ [NextBuilder]_builderVars => BuilderInv'
<1> SUFFICES ASSUME BuilderInv, [NextBuilder]_builderVars PROVE BuilderInv'
  OBVIOUS
<1>1. CASE UNCHANGED builderVars
  <2>1. /\ UNCHANGED <<draft, shop, selected, logoAssets, lastLogo, visit>>
        /\ UNCHANGED <<torn, crossed, retired>>
    BY <1>1 DEF builderVars, builderHistory
  <2>2. VisitsOK'
    BY <2>1 DEF BuilderInv, VisitsOK
  <2>3. StepsOK'
    BY <2>1 DEF BuilderInv, StepsOK
  <2>4. ThemeOK'
    BY <2>1 DEF BuilderInv, ThemeOK, Wears, Selecting, Phase, Publishing
  <2>5. ASSUME NEW up, LogosOK(up) PROVE LogosOK(up)'
    <3>1. MonogramIsThere' /\ ShowsLogo(shop, up)' /\ LiveHasLogo(shop)'
      BY <2>1, <2>5 DEF LogosOK, MonogramIsThere, ShowsLogo, LiveHasLogo
    <3>2. ASSUME NEW w \in Window, visit[w] # NoVisit PROVE VisitShows(visit[w], up)'
      BY <2>1, <2>5, <3>2 DEF LogosOK, VisitShows, ShowsLogo
    <3>3. ASSUME NEW w \in Window, Draws(visit[w]) PROVE OwnMonogram(w, visit[w].shop.logo)'
      BY <2>1, <2>5, <3>3 DEF LogosOK, OwnMonogram
    <3>4. QED
      BY <2>1, <2>5, <3>1, <3>2, <3>3 DEF LogosOK
  <2>6. QED
    BY <2>2, <2>3, <2>4, <2>5 DEF BuilderInv
<1>2. ASSUME NEW w \in Window,
             \/ Brainstorm(w) \/ UploadLogo(w) \/ DestroyLogo(w) \/ SaveBrainstorm(w) \/ SavePrefilled(w)
             \/ Answer(w) \/ Generate(w) \/ SaveThemes(w) \/ SaveDraft(w)
             \/ ConfirmDomain(w) \/ LoadShop(w) \/ SaveShop(w)
             \/ Publish(w) \/ ClearSelection(w) \/ SelectTheme(w) \/ ResolveLogo(w)
             \/ DestroyMonogram(w) \/ GoLive(w)
             \/ UpdateHero(w) \/ SaveHero(w) \/ CutShort(w)
      PROVE  BuilderInv'
  BY <1>2, ArrivalsKeep, UploadLogoKeeps, DestroyLogoKeeps, SaveBrainstormKeeps, SavePrefilledKeeps,
     SaveThemesKeeps, SaveDraftKeeps, LoadShopKeeps, SaveShopKeeps, ClearSelectionKeeps, SelectThemeKeeps,
     ResolveLogoKeeps, DestroyMonogramKeeps, GoLiveKeeps, SaveHeroKeeps, CutShortKeeps
<1>3. QED
  BY <1>1, <1>2 DEF NextBuilder

LEMMA BuilderStaysInOrder == BuilderSpec => []BuilderInv
<1>1. QED
  BY InitBuilderInv, NextBuilderInv, PTL DEF BuilderSpec

\* A live store wears exactly one theme once no publication is under way and
\* no two have chosen at a time, and its logo is one that no publication has
\* deleted: SiteBuilderService.publish, StoreThemeService.selectTheme.
THEOREM LiveStoreIsCompleteHolds == BuilderSpec => []LiveStoreIsComplete
<1>1. BuilderInv => LiveStoreIsComplete
  <2> SUFFICES ASSUME BuilderInv, shop.live PROVE LiveStoreIsComplete
    BY DEF LiveStoreIsComplete
  <2>1. ASSUME ~crossed, \A w \in Window : visit[w].op # "publish" PROVE Cardinality(selected) = 1
    <3>1. \A w \in Window : ~Selecting(w)
      BY <2>1 DEF Selecting, Phase
    <3>2. PICK theme : selected = {theme}
      BY <2>1, <3>1 DEF BuilderInv, ThemeOK, Wears
    <3>3. QED
      BY <3>2, FS_Singleton
  <2>2. ASSUME ~torn, \A w \in Window : ~Publishing(w) PROVE shop.logo \in logoAssets \cup retired
    <3>1. PICK up : LogosOK(up)
      BY DEF BuilderInv
    <3>2. /\ up \subseteq logoAssets \cup retired /\ ShowsLogo(shop, up) /\ LiveHasLogo(shop) /\ MonogramIsThere
      BY <3>1 DEF LogosOK
    <3>3. \A w \in Window : ~At(visit[w], "publish", {"live"})
      BY <2>2 DEF Publishing, At
    <3>4. CASE shop.monogram
      BY <2>2, <3>2, <3>3, <3>4 DEF MonogramIsThere
    <3>5. CASE ~shop.monogram
      <4>1. shop.logo \in up
        BY <3>2, <3>5 DEF ShowsLogo, LiveHasLogo
      <4>2. QED
        BY <3>2, <4>1
    <3>6. QED
      BY <3>4, <3>5
  <2>3. QED
    BY <2>1, <2>2 DEF LiveStoreIsComplete
<1>2. QED
  BY <1>1, BuilderStaysInOrder, PTL

\* The draft only walks forwards and a live store stays live under its domain,
\* but for a request another one overtook and a publication that was cut:
\* SiteBuilderService.advanceStep and requireStep.
THEOREM OnlyOvertakenSavesGoBackHolds == BuilderSpec => OnlyOvertakenSavesGoBack
<1> DEFINE Forwards == /\ draft'.step >= draft.step
                       /\ shop.live => shop'.live
                       /\ shop.live => shop'.slug = shop.slug \/ \E w \in Window : Publishing(w)
<1>1. BuilderInv /\ [NextBuilder]_builderVars => [torn' \/ Forwards]_builderVars
  <2> SUFFICES ASSUME BuilderInv, NextBuilder, ~torn' PROVE Forwards
    OBVIOUS
  <2>1. /\ VisitsOK /\ draft \in DraftRow /\ draft.step \in 0..Published /\ Published \in Nat
        /\ torn \/ \A w \in Window : visit[w] = NoVisit \/ Current(visit[w], draft, shop)
    BY DEF BuilderInv, StepsOK, DraftRow, Published
  <2>2. ASSUME NEW w \in Window, NEW next, Saves(w, next), visit[w] # NoVisit
        PROVE  ~torn /\ ~visit[w].over /\ Current(visit[w], draft, shop)
    BY <2>1, <2>2 DEF Saves
  <2>3. ASSUME UNCHANGED <<draft, shop>> PROVE Forwards
    BY <2>1, <2>3
  <2>4. ASSUME NEW w \in Window, SaveBrainstorm(w) \/ SavePrefilled(w) \/ SaveDraft(w), draft' # draft
        PROVE  Forwards
    <3>1. /\ visit[w] # NoVisit /\ VisitRow(visit[w]) /\ visit[w].draft \in DraftRow
          /\ SaveDraft(w) => visit[w].to \in 0..Published
      <4>1. visit[w] # NoVisit /\ VisitRow(visit[w])
        BY <2>1, <2>4, PhaseRow DEF SaveBrainstorm, SavePrefilled, SaveDraft
      <4>2. SaveDraft(w) => visit[w].op \in {"answers", "generate", "confirm", "publish"}
        BY DEF SaveDraft, Phase
      <4>3. QED
        BY <4>1, <4>2 DEF VisitRow, At, Answered, Themed, DomainConfirmed, Published
    <3>2. PICK next : Saves(w, next)
      BY <2>4 DEF SaveBrainstorm, SavePrefilled, SaveDraft
    <3>3. visit[w].draft.step = draft.step
      BY <2>2, <3>1, <3>2 DEF Current
    <3>4. shop' = shop
      BY <2>4 DEF SaveBrainstorm, SavePrefilled, SaveDraft
    <3>5. draft'.step >= visit[w].draft.step
      <4>1. CASE SaveBrainstorm(w)
        <5>1. draft' = Advanced(visit[w].draft, Brainstormed)
          BY <2>4, <4>1 DEF SaveBrainstorm
        <5>2. Brainstormed \in 0..Published
          BY DEF Brainstormed, Published
        <5>3. QED
          BY <3>1, <5>1, <5>2, AdvancedRow
      <4>2. CASE SavePrefilled(w)
        BY <2>1, <3>3, <4>2 DEF SavePrefilled
      <4>3. CASE SaveDraft(w)
        <5>1. draft' = Advanced(visit[w].draft, visit[w].to)
          BY <4>3 DEF SaveDraft
        <5>2. QED
          BY <3>1, <4>3, <5>1, AdvancedRow
      <4>4. QED
        BY <2>4, <4>1, <4>2, <4>3
    <3>6. QED
      BY <3>3, <3>4, <3>5
  <2>5. ASSUME NEW w \in Window, SaveShop(w) \/ GoLive(w) \/ SaveHero(w), shop' # shop
        PROVE  Forwards
    <3>1. visit[w] # NoVisit /\ VisitRow(visit[w])
      BY <2>1, <2>5, PhaseRow DEF SaveShop, GoLive, SaveHero
    <3>2. PICK next : Saves(w, next)
      BY <2>5 DEF SaveShop, GoLive, SaveHero
    <3>3. ~torn /\ ~visit[w].over /\ Current(visit[w], draft, shop)
      BY <2>2, <3>1, <3>2
    <3>4. draft' = draft /\ shop' = visit[w].shop
      BY <2>5 DEF SaveShop, GoLive, SaveHero
    <3>5. CASE SaveShop(w)
      <4>1. At(visit[w], "confirm", {"save-store"}) /\ At(visit[w], "confirm", {"store", "save-store"})
        BY <3>5 DEF SaveShop, Phase, At
      <4>2. draft.step # Published /\ shop'.live = shop.live
        BY <3>3, <3>4, <4>1 DEF Current
      <4>3. shop.live => \E v \in Window : Publishing(v)
        BY <3>3, <4>2 DEF BuilderInv, StepsOK, Publishing, At
      <4>4. QED
        BY <2>1, <3>4, <4>2, <4>3
    <3>6. CASE GoLive(w)
      <4>1. Publishing(w) /\ HasLogo(visit[w])
        BY <3>6 DEF GoLive, Phase, Publishing, HasLogo, At
      <4>2. shop'.live
        BY <3>1, <3>4, <4>1 DEF BuilderInv, LogosOK, VisitShows
      <4>3. QED
        BY <2>1, <3>4, <4>1, <4>2
    <3>7. CASE SaveHero(w)
      <4>1. visit[w].shop = shop
        BY <3>3, <3>7 DEF SaveHero, Phase, Current
      <4>2. QED
        BY <2>5, <3>4, <4>1
    <3>8. QED
      BY <2>5, <3>5, <3>6, <3>7
  <2>6. \/ UNCHANGED <<draft, shop>>
        \/ \E w \in Window :
             \/ (SaveBrainstorm(w) \/ SavePrefilled(w) \/ SaveDraft(w)) /\ draft' # draft
             \/ (SaveShop(w) \/ GoLive(w) \/ SaveHero(w)) /\ shop' # shop
    <3>1. PICK w \in Window :
             \/ Brainstorm(w) \/ UploadLogo(w) \/ DestroyLogo(w) \/ SaveBrainstorm(w) \/ SavePrefilled(w)
             \/ Answer(w) \/ Generate(w) \/ SaveThemes(w) \/ SaveDraft(w)
             \/ ConfirmDomain(w) \/ LoadShop(w) \/ SaveShop(w)
             \/ Publish(w) \/ ClearSelection(w) \/ SelectTheme(w) \/ ResolveLogo(w)
             \/ DestroyMonogram(w) \/ GoLive(w)
             \/ UpdateHero(w) \/ SaveHero(w) \/ CutShort(w)
      BY DEF NextBuilder
    <3>2. (\/ Brainstorm(w) \/ Answer(w) \/ Generate(w) \/ ConfirmDomain(w) \/ Publish(w) \/ UpdateHero(w))
          => UNCHANGED <<draft, shop>>
      BY DEF Brainstorm, Answer, Generate, ConfirmDomain, Publish, UpdateHero, Arrive
    <3>3. (\/ UploadLogo(w) \/ DestroyLogo(w) \/ SaveThemes(w) \/ LoadShop(w) \/ ClearSelection(w)
           \/ SelectTheme(w) \/ ResolveLogo(w) \/ DestroyMonogram(w) \/ CutShort(w))
          => UNCHANGED <<draft, shop>>
      BY DEF UploadLogo, DestroyLogo, SaveThemes, LoadShop, ClearSelection, SelectTheme, ResolveLogo,
         DestroyMonogram, CutShort
    <3>4. /\ SaveBrainstorm(w) \/ SavePrefilled(w) \/ SaveDraft(w) => shop' = shop
          /\ SaveShop(w) \/ GoLive(w) \/ SaveHero(w) => draft' = draft
      BY DEF SaveBrainstorm, SavePrefilled, SaveDraft, SaveShop, GoLive, SaveHero
    <3>5. QED
      BY <3>1, <3>2, <3>3, <3>4
  <2>7. QED
    BY <2>3, <2>4, <2>5, <2>6
<1>2. QED
  BY <1>1, BuilderStaysInOrder, PTL DEF BuilderSpec, OnlyOvertakenSavesGoBack
=============================================================================
