------------------------------ MODULE Accounts ------------------------------
(***************************************************************************)
(* The accounts of one scope, the platform or a store, and what Redis      *)
(* keeps of them: one-time codes, the cooldown of their resending, and     *)
(* the refresh tokens.                                                     *)
(*                                                                         *)
(* Every call to PostgreSQL, Redis or the mail server is a step.  One      *)
(* Google identity signs in, with the address Canonical.  Passwords are    *)
(* typed right, a wrong one changes nothing; a row has one or none.        *)
(***************************************************************************)
EXTENDS Naturals, Sequences, SequencesExt, Records

CONSTANTS
    Client,       \* the callers
    Address,      \* spellings of one email address
    Canonical,    \* the spelling Google uses
    MaxUsers,     \* bounds the rows ever inserted
    MaxCodes,     \* bounds the codes
    MaxTokens,    \* bounds the token pairs
    MaxRequests   \* bounds the calls

ASSUME CanonicalIsAnAddress == Canonical \in Address
ASSUME AccountBounds == {MaxUsers, MaxCodes, MaxTokens, MaxRequests} \subseteq Nat

VARIABLES
    users,      \* the rows by id
    lastUser,   \* rows ever inserted; an id is never given twice
    codes,      \* otp:<purpose>:<scope>:<email>, 0 where there is none
    cooling,    \* the addresses with a cooldown
    refresh,    \* the refresh:<user>:<jti> keys, by jti
    inbox,      \* the codes that were mailed, with their purpose and address
    lastCode,   \* codes generated so far
    issued,     \* the user of each token pair issued
    spent,      \* history: the codes and tokens that served
    joined,     \* history: the rows Google signed in to, while they keep the identity
    request,    \* what each caller's request has in memory
    requests    \* requests so far

redisKeys == <<codes, cooling, refresh>>
accountVars == <<users, lastUser, redisKeys, inbox, lastCode, issued, spent, joined, request, requests>>

User == 1..MaxUsers
Purpose == {"verify-email", "reset-password"}
NoUser == [there |-> FALSE, email |-> Canonical, password |-> FALSE, google |-> FALSE, verified |-> FALSE]
NoRequest == [phase |-> "none"]

Registered(email, verified) ==
    [there |-> TRUE, email |-> email, password |-> TRUE, google |-> FALSE, verified |-> verified]
FromGoogle ==
    [there |-> TRUE, email |-> Canonical, password |-> FALSE, google |-> TRUE, verified |-> TRUE]

InitAccounts ==
    /\ \E email \in Address, v \in BOOLEAN : \E first \in {NoUser, FromGoogle, Registered(email, v)} :
         users = [u \in User |-> IF u = 1 THEN first ELSE NoUser]
    /\ lastUser = 1
    /\ codes = [key \in Purpose \X Address |-> 0]
    /\ cooling = {}
    /\ refresh = {}
    /\ inbox = {}
    /\ lastCode = 0
    /\ issued = <<>>
    /\ spent = {}
    /\ joined = {}
    /\ request = [c \in Client |-> NoRequest]
    /\ requests = 0

IsUser(u) == users[u].there
UserRows == {u \in User : IsUser(u)}
NoRow == 0

-----------------------------------------------------------------------------
\* What the requests are made of.

Open(c, op, phase, memory) ==
    /\ request[c] = NoRequest
    /\ requests < MaxRequests
    /\ requests' = requests + 1
    /\ request' = [request EXCEPT ![c] = Spread(memory, [op |-> op, phase |-> phase])]

In(c, phase, ops) == request[c].phase = phase /\ request[c].op \in ops
GoesTo(c, phase) == request' = [request EXCEPT ![c].phase = phase]
Keeps(c, phase, memory) == request' = [request EXCEPT ![c] = Spread(memory, [@ EXCEPT !.phase = phase])]
Close(c) == request' = [request EXCEPT ![c] = NoRequest]

\* findScopedUser compares the spelling.
WithEmail(email) == {u \in UserRows : users[u].email = email}

\* findUserByEmailIgnoringCase, for the identity's address; ids are in the order of createdAt.
ByEmailIgnoringCase == UserRows

\* findUserByGoogleId.
ByGoogleId == {u \in UserRows : users[u].google}

First(rows) == IF rows = {} THEN NoRow ELSE CHOOSE u \in rows : \A v \in rows : u <= v

\* Mutant of Clashes: no unique index on googleId.
ClashesByEmail(u, row) == \E v \in UserRows \ {u} : users[v].email = row.email

\* The unique indexes on email and on googleId.
Clashes(u, row) ==
    \E v \in UserRows \ {u} : users[v].email = row.email \/ (row.google /\ users[v].google)

NextId == lastUser + 1
InsertUser(row) ==
    /\ NextId \in User
    /\ users' = [users EXCEPT ![NextId] = row]
    /\ lastUser' = NextId

\* save() of a row that was loaded without its password, unless it sets one.  A
\* row that is gone by then is inserted again, and generateId gives it a new id.
Saved(u, row, setsPassword) ==
    [row EXCEPT !.password = setsPassword \/ (IsUser(u) /\ users[u].password)]

SavedAs(u) == IF IsUser(u) THEN u ELSE NextId

WriteUser(u, row) ==
    IF IsUser(u) THEN users' = [users EXCEPT ![u] = row] /\ UNCHANGED lastUser
    ELSE InsertUser(row)

Keepers(u, row) == IF row.google THEN joined ELSE joined \ {u}

-----------------------------------------------------------------------------
\* createUser, for registerOwner and register.

Register(c) ==
    \E email \in Address :
        /\ WithEmail(email) = {}
        /\ Open(c, "register", "insert", [email |-> email, user |-> NoRow, code |-> 0])
        /\ UNCHANGED <<users, lastUser, redisKeys, inbox, lastCode, issued, spent, joined>>

Insert(c) ==
    /\ In(c, "insert", {"register"})
    /\ LET row == Registered(request[c].email, FALSE)
       IN  IF Clashes(NextId, row)
           THEN Close(c) /\ UNCHANGED <<users, lastUser>>
           ELSE InsertUser(row) /\ Keeps(c, "code", [user |-> NextId])
    /\ UNCHANGED <<redisKeys, inbox, lastCode, issued, spent, joined, requests>>

PurposeOf(c) == IF request[c].op \in {"forgot", "reset"} THEN "reset-password" ELSE "verify-email"
KeyOf(c) == <<PurposeOf(c), request[c].email>>

\* generateAndSendOtp: a new code replaces the one in flight, and is mailed.
SetCode(c) ==
    /\ In(c, "code", {"register", "resend", "forgot"})
    /\ lastCode < MaxCodes
    /\ lastCode' = lastCode + 1
    /\ codes' = [codes EXCEPT ![KeyOf(c)] = lastCode']
    /\ Keeps(c, "mail", [code |-> lastCode'])
    /\ UNCHANGED <<users, lastUser, cooling, refresh, inbox, issued, spent, joined, requests>>

Mailed(c) == inbox \cup {[key |-> KeyOf(c), code |-> request[c].code]}

SendMail(c) ==
    /\ In(c, "mail", {"register", "resend", "forgot"})
    /\ inbox' = Mailed(c)
    /\ Close(c)
    /\ UNCHANGED <<users, lastUser, redisKeys, lastCode, issued, spent, joined, requests>>

\* The mail may have got through all the same.
MailFails(c) ==
    /\ In(c, "mail", {"register", "resend", "forgot"})
    /\ inbox' \in {inbox, Mailed(c)}
    /\ IF request[c].op = "register" THEN GoesTo(c, "undo") ELSE Close(c)
    /\ UNCHANGED <<users, lastUser, redisKeys, lastCode, issued, spent, joined, requests>>

UndoAccount(c) ==
    /\ In(c, "undo", {"register"})
    /\ users' = [users EXCEPT ![request[c].user] = NoUser]
    /\ GoesTo(c, "undo-code")
    /\ UNCHANGED <<lastUser, redisKeys, inbox, lastCode, issued, spent, joined, requests>>

UndoCode(c) ==
    /\ In(c, "undo-code", {"register"})
    /\ codes' = [codes EXCEPT ![KeyOf(c)] = 0]
    /\ Close(c)
    /\ UNCHANGED <<users, lastUser, cooling, refresh, inbox, lastCode, issued, spent, joined, requests>>

-----------------------------------------------------------------------------
\* resendVerification and forgotPassword.

Resend(c) ==
    \E email \in Address :
        /\ email \notin cooling
        /\ Open(c, "resend", "cool", [email |-> email, code |-> 0])
        /\ UNCHANGED <<users, lastUser, redisKeys, inbox, lastCode, issued, spent, joined>>

Cool(c) ==
    /\ In(c, "cool", {"resend"})
    /\ cooling' = cooling \cup {request[c].email}
    /\ GoesTo(c, "find")
    /\ UNCHANGED <<users, lastUser, codes, refresh, inbox, lastCode, issued, spent, joined, requests>>

FindUnverified(c) ==
    /\ In(c, "find", {"resend"})
    /\ IF \E u \in WithEmail(request[c].email) : ~users[u].verified
       THEN GoesTo(c, "code") ELSE Close(c)
    /\ UNCHANGED <<users, lastUser, redisKeys, inbox, lastCode, issued, spent, joined, requests>>

Forgot(c) ==
    \E email \in Address :
        /\ WithEmail(email) # {}
        /\ Open(c, "forgot", "code", [email |-> email, code |-> 0])
        /\ UNCHANGED <<users, lastUser, redisKeys, inbox, lastCode, issued, spent, joined>>

-----------------------------------------------------------------------------
\* verifyEmail and resetPassword.

EnterCode(c) ==
    \E mail \in inbox :
        /\ codes[mail.key] = mail.code
        /\ Open(c, IF mail.key[1] = "verify-email" THEN "verify" ELSE "reset", "find",
                [email |-> mail.key[2], code |-> mail.code, before |-> spent])
        /\ UNCHANGED <<users, lastUser, redisKeys, inbox, lastCode, issued, spent, joined>>

FindForCode(c) ==
    /\ In(c, "find", {"verify", "reset"})
    /\ LET u == First(WithEmail(request[c].email))
       IN  IF u = NoRow THEN Close(c)
           ELSE Keeps(c, "save", [user |-> u, row |-> users[u]])
    /\ UNCHANGED <<users, lastUser, redisKeys, inbox, lastCode, issued, spent, joined, requests>>

\* Both save the row as loaded, verified, and a reset its new password too.
SaveVerified(c) ==
    /\ In(c, "save", {"verify", "reset"})
    /\ LET u == request[c].user
           row == Saved(u, [request[c].row EXCEPT !.verified = TRUE], request[c].op = "reset")
       IN  IF Clashes(SavedAs(u), row)
           THEN Close(c) /\ UNCHANGED <<users, lastUser, joined>>
           ELSE WriteUser(u, row) /\ joined' = Keepers(u, row) /\ GoesTo(c, "burn")
    /\ UNCHANGED <<redisKeys, inbox, lastCode, issued, spent, requests>>

\* Mutant of Burnt: the code is left to expire.
BurntLater(key) == codes

\* Whatever code is there by then.
Burnt(key) == [codes EXCEPT ![key] = 0]

BurnCode(c) ==
    /\ In(c, "burn", {"verify", "reset"})
    /\ codes' = Burnt(KeyOf(c))
    /\ spent' = spent \cup {<<"code", request[c].code>>}
    /\ Close(c)
    /\ UNCHANGED <<users, lastUser, cooling, refresh, inbox, lastCode, issued, joined, requests>>

-----------------------------------------------------------------------------
\* login, signInWithGoogle, changePassword.

MayLogIn(row) == row.password /\ row.verified

Login(c) ==
    \E u \in UserRows :
        /\ MayLogIn(users[u])
        /\ Open(c, "login", "issue", [user |-> u])
        /\ UNCHANGED <<users, lastUser, redisKeys, inbox, lastCode, issued, spent, joined>>

GoogleById(c) ==
    LET u == First(ByGoogleId)
    IN  /\ Open(c, "google", IF u = NoRow THEN "by-email" ELSE "issue", [user |-> u])
        /\ joined' = joined \cup ({u} \ {NoRow})
        /\ UNCHANGED <<users, lastUser, redisKeys, inbox, lastCode, issued, spent>>

\* Google may not vouch for the address.
GoogleByEmail(c) ==
    /\ In(c, "by-email", {"google"})
    /\ LET u == First(ByEmailIgnoringCase)
       IN  \/ Close(c)
           \/ u # NoRow /\ Keeps(c, "link", [user |-> u, row |-> users[u]])
           \/ u = NoRow /\ GoesTo(c, "create")
    /\ UNCHANGED <<users, lastUser, redisKeys, inbox, lastCode, issued, spent, joined, requests>>

\* Mutant of Linked: the account stays as verified as it was.
LinkedOnly(row) == [row EXCEPT !.google = TRUE]

Linked(row) == [row EXCEPT !.google = TRUE, !.verified = TRUE]

LinkGoogle(c) ==
    /\ In(c, "link", {"google"})
    /\ LET u == request[c].user
           row == Saved(u, Linked(request[c].row), FALSE)
       IN  IF Clashes(SavedAs(u), row)
           THEN Close(c) /\ UNCHANGED <<users, lastUser, joined>>
           ELSE /\ WriteUser(u, row)
                /\ joined' = joined \cup {SavedAs(u)}
                /\ Keeps(c, "issue", [user |-> SavedAs(u)])
    /\ UNCHANGED <<redisKeys, inbox, lastCode, issued, spent, requests>>

\* The loser of a race reads the winner's row.
CreateFromGoogle(c) ==
    /\ In(c, "create", {"google"})
    /\ IF ~Clashes(NextId, FromGoogle)
       THEN InsertUser(FromGoogle) /\ joined' = joined \cup {NextId} /\ Keeps(c, "issue", [user |-> NextId])
       ELSE UNCHANGED <<users, lastUser, joined>> /\ GoesTo(c, "winner")
    /\ UNCHANGED <<redisKeys, inbox, lastCode, issued, spent, requests>>

ReadWinner(c) ==
    /\ In(c, "winner", {"google"})
    /\ LET u == First(ByGoogleId)
       IN  /\ IF u = NoRow THEN Close(c) ELSE Keeps(c, "issue", [user |-> u])
           /\ joined' = joined \cup ({u} \ {NoRow})
    /\ UNCHANGED <<users, lastUser, redisKeys, inbox, lastCode, issued, spent, requests>>

\* An access token names the user and stays good for a while.
LoadForPassword(c) ==
    \E u \in UserRows \cap Range(issued) :
        /\ users[u].password
        /\ Open(c, "password", "save", [user |-> u, row |-> users[u]])
        /\ UNCHANGED <<users, lastUser, redisKeys, inbox, lastCode, issued, spent, joined>>

SavePassword(c) ==
    /\ In(c, "save", {"password"})
    /\ LET u == request[c].user
           row == Saved(u, request[c].row, TRUE)
       IN  IF Clashes(SavedAs(u), row) THEN UNCHANGED <<users, lastUser, joined>>
           ELSE WriteUser(u, row) /\ joined' = Keepers(u, row)
    /\ Close(c)
    /\ UNCHANGED <<redisKeys, inbox, lastCode, issued, spent, requests>>

-----------------------------------------------------------------------------
\* issueTokenPair and rotateRefreshToken.

Issue(c) ==
    /\ request[c].phase = "issue"
    /\ Len(issued) < MaxTokens
    /\ issued' = Append(issued, request[c].user)
    /\ refresh' = refresh \cup {Len(issued')}
    /\ Close(c)
    /\ UNCHANGED <<users, lastUser, codes, cooling, inbox, lastCode, spent, joined, requests>>

Rotate(c) ==
    \E jti \in refresh :
        /\ Open(c, "rotate", "delete", [jti |-> jti, user |-> issued[jti], before |-> spent])
        /\ UNCHANGED <<users, lastUser, redisKeys, inbox, lastCode, issued, spent, joined>>

\* Mutant of RevokedToken: the old token stays until it expires.
RevokedLater(jti) == refresh

RevokedToken(jti) == refresh \ {jti}

DeleteToken(c) ==
    /\ In(c, "delete", {"rotate"})
    /\ refresh' = RevokedToken(request[c].jti)
    /\ spent' = spent \cup {<<"token", request[c].jti>>}
    /\ GoesTo(c, "reload")
    /\ UNCHANGED <<users, lastUser, codes, cooling, inbox, lastCode, issued, joined, requests>>

Reload(c) ==
    /\ In(c, "reload", {"rotate"})
    /\ IF IsUser(request[c].user) THEN GoesTo(c, "issue") ELSE Close(c)
    /\ UNCHANGED <<users, lastUser, redisKeys, inbox, lastCode, issued, spent, joined, requests>>

\* Keys with a TTL.
KeyExpires ==
    /\ \/ \E key \in DOMAIN codes : codes[key] # 0 /\ codes' = [codes EXCEPT ![key] = 0] /\ UNCHANGED <<cooling, refresh>>
       \/ \E email \in cooling : cooling' = cooling \ {email} /\ UNCHANGED <<codes, refresh>>
       \/ \E jti \in refresh : refresh' = refresh \ {jti} /\ UNCHANGED <<codes, cooling>>
    /\ UNCHANGED <<users, lastUser, inbox, lastCode, issued, spent, joined, request, requests>>

NextAccounts ==
    \/ \E c \in Client :
         \/ Register(c) \/ Insert(c) \/ SetCode(c) \/ SendMail(c) \/ MailFails(c)
         \/ UndoAccount(c) \/ UndoCode(c)
         \/ Resend(c) \/ Cool(c) \/ FindUnverified(c) \/ Forgot(c)
         \/ EnterCode(c) \/ FindForCode(c) \/ SaveVerified(c) \/ BurnCode(c)
         \/ Login(c) \/ GoogleById(c) \/ GoogleByEmail(c) \/ LinkGoogle(c)
         \/ CreateFromGoogle(c) \/ ReadWinner(c) \/ LoadForPassword(c) \/ SavePassword(c)
         \/ Issue(c) \/ Rotate(c) \/ DeleteToken(c) \/ Reload(c)
    \/ KeyExpires

-----------------------------------------------------------------------------
\* Properties.

\* Whoever was given tokens has proved the address, by a code or by Google,
\* whatever saves of the row overtook each other since.
SignedInMeansVerified ==
    \A u \in UserRows \cap Range(issued) : users[u].verified

\* A code sets the account once, and a refresh token is exchanged once, but
\* for requests that had read the key before the first of them deleted it.
ServesOnce ==
    [][\A c \in Client :
         /\ In(c, "save", {"verify", "reset"}) /\ request'[c].phase = "burn"
              => <<"code", request[c].code>> \notin request[c].before
         /\ In(c, "delete", {"rotate"}) /\ request'[c].phase = "reload"
              => <<"token", request[c].jti>> \notin request[c].before]_accountVars

\* All sign-ins of one Google identity get one account, while it is there: the
\* loser of a race of two reads the winner's row, whatever is registered in other
\* spellings, removed and inserted again meanwhile; but where a save of a copy
\* loaded before the identity was linked takes it off again.
GoogleKeepsToOneAccount ==
    \A u, v \in joined \cap UserRows : u = v
=============================================================================
