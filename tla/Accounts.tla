------------------------------ MODULE Accounts ------------------------------
(***************************************************************************)
(* User accounts (routes/v1_users.ts, storage/userStore.ts,                *)
(* emailAuthCodeStore.ts, passwordResetStore.ts, auth/session.ts).         *)
(* Signing up, logging in and changing the address take two requests: one  *)
(* stores a code and mails it, one takes the code and acts.  There is one  *)
(* code for a purpose and an address.  A mail takes time and may fail, and *)
(* other requests run meanwhile.                                           *)
(*                                                                         *)
(* A person is known here by an address: mail that arrives there is read,  *)
(* and every code in it may be typed at any prompt of that address.        *)
(* Sessions are signed cookies, which the server does not keep.            *)
(***************************************************************************)
EXTENDS RequestTable, Naturals, FiniteSets

CONSTANTS
    Emails, Phones, Passwords,
    NoDigits,      \* the phones without a digit: any trimmed text is taken for one
    MaxAttempts,   \* wrong codes after which a code is dropped
    MaxUsers,      \* bound: accounts created
    MaxCodes       \* bound: codes mailed

ASSUME AccountsAssumption ==
    /\ NoDigits \subseteq Phones
    /\ MaxAttempts \in Nat \ {0} /\ MaxUsers \in Nat \ {0} /\ MaxCodes \in Nat \ {0}

VARIABLES
    users, frozen, \* users/_index.json; the frozen accounts (state.json)
    codes,         \* _email_auth_codes.v1.json
    resets,        \* _pwreset.json
    inbox,         \* mails that arrived
    mailed,        \* history: the codes mailed, with what they were asked for
    sessions,      \* cookies in browsers: the account, and the code it was opened with
    announced,     \* accounts whose sign-up was answered with success
    nextUser, nextCode

accountsVars ==
    <<users, frozen, codes, resets, inbox, mailed, sessions, announced, req, nextUser, nextCode>>
stores == <<users, frozen, announced, nextUser>>

Ids == 1..MaxUsers
CodeIds == 1..MaxCodes
None == 0
Purposes == {"signup", "login", "profile_email"}
UserRecord == [id: Ids, email: Emails, phone: Phones, pass: Passwords]
CodeRecord == [purpose: Purposes, email: Emails, code: CodeIds, user: Ids \cup {None},
               phone: Phones, pass: Passwords, attempts: 0..MaxAttempts]
MailRecord == [purpose: Purposes, email: Emails, user: Ids \cup {None}, code: CodeIds]

AccountsTypeOK ==
    /\ users \subseteq UserRecord /\ \A u, v \in users : u.id = v.id => u = v
    /\ frozen \subseteq Ids /\ announced \subseteq Ids
    /\ codes \subseteq CodeRecord
    /\ \A c, d \in codes : c.purpose = d.purpose /\ c.email = d.email => c = d
    /\ resets \subseteq [email: Emails, code: CodeIds]
    /\ inbox \subseteq [email: Emails, code: CodeIds]
    /\ mailed \subseteq MailRecord
    /\ sessions \subseteq [user: Ids, code: CodeIds]
    /\ \A r \in Reqs : req[r].pc \in {"idle", "mailing", "resetting", "welcoming"}
    /\ nextUser \in 1..(MaxUsers + 1) /\ nextCode \in 1..(MaxCodes + 1)

AccountsInit ==
    /\ users = {} /\ frozen = {} /\ codes = {} /\ resets = {} /\ inbox = {}
    /\ mailed = {} /\ sessions = {} /\ announced = {}
    /\ req = [r \in Reqs |-> Idle] /\ nextUser = 1 /\ nextCode = 1

UserAt(email) == {u \in users : u.email = email}

\* mutant: the phone is not looked at
TakenAddress(email, phone, id) == \E u \in users : u.id # id /\ u.email = email

\* Phones are compared by their digits, and those without any are not compared.
Taken(email, phone, id) ==
    \E u \in users : u.id # id /\ (u.email = email \/ (u.phone = phone /\ phone \notin NoDigits))

(***************************************************************************)
(* Codes.                                                                  *)
(***************************************************************************)
Without(purpose, email) == {c \in codes : c.purpose # purpose \/ c.email # email}

\* A code replaces the one for the same purpose and address, and is mailed.
SendCode(r, purpose, email, user, phone, pass) ==
    /\ req[r] = Idle /\ nextCode <= MaxCodes /\ nextCode' = nextCode + 1
    /\ codes' = Without(purpose, email) \cup
          {[purpose |-> purpose, email |-> email, code |-> nextCode, user |-> user,
            phone |-> phone, pass |-> pass, attempts |-> 0]}
    /\ mailed' = mailed \cup
          {[purpose |-> purpose, email |-> email, user |-> user, code |-> nextCode]}
    /\ Become(r, [pc |-> "mailing", purpose |-> purpose, email |-> email, code |-> nextCode])
    /\ UNCHANGED <<stores, resets, inbox, sessions>>

\* The mail arrives; the handler learns of it later, or never.
MailArrives(r) ==
    /\ req[r].pc \in {"mailing", "resetting"}
    /\ inbox' = inbox \cup {[email |-> req[r].email, code |-> req[r].code]}
    /\ UNCHANGED <<stores, codes, resets, sessions, req, nextCode, mailed>>

MailSent(r) ==
    /\ req[r].pc = "mailing" /\ Become(r, Idle)
    /\ UNCHANGED <<stores, codes, resets, inbox, sessions, nextCode, mailed>>

\* The code of this purpose and address is cleared, whichever it is by now.
MailFailed(r) ==
    /\ req[r].pc = "mailing" /\ Become(r, Idle)
    /\ codes' = Without(req[r].purpose, req[r].email)
    /\ UNCHANGED <<stores, resets, inbox, sessions, nextCode, mailed>>

Expire(c) ==
    /\ codes' = codes \ {c}
    /\ UNCHANGED <<stores, resets, inbox, sessions, req, nextCode, mailed>>

Typed(c) == [email |-> c.email, code |-> c.code] \in inbox /\ c.attempts < MaxAttempts

\* A wrong code counts, and the one after the last is not looked at.
Mistype(c) ==
    /\ codes' = (codes \ {c}) \cup
          {[c EXCEPT !.attempts = c.attempts + 1] : x \in {y \in {c} : y.attempts < MaxAttempts}}
    /\ UNCHANGED <<stores, resets, inbox, sessions, req, nextCode, mailed>>

(***************************************************************************)
(* Sign-up.                                                                *)
(***************************************************************************)
SignupRequest(r, email, phone, pass) ==
    /\ ~Taken(email, phone, None)
    /\ SendCode(r, "signup", email, None, phone, pass)

\* The account is written before the welcome mail is sent.  The code stays.
SignupVerify(r, c) ==
    /\ req[r] = Idle /\ c.purpose = "signup" /\ Typed(c)
    /\ ~Taken(c.email, c.phone, None)
    /\ nextUser <= MaxUsers /\ nextUser' = nextUser + 1
    /\ users' = users \cup {[id |-> nextUser, email |-> c.email, phone |-> c.phone, pass |-> c.pass]}
    /\ Become(r, [pc |-> "welcoming", user |-> nextUser, email |-> c.email])
    /\ UNCHANGED <<frozen, announced, codes, resets, inbox, sessions, nextCode, mailed>>

SignedUp(r) ==
    /\ req[r].pc = "welcoming"
    /\ codes' = Without("signup", req[r].email)
    /\ announced' = announced \cup ({req[r].user} \cap {u.id : u \in users})
    /\ Become(r, Idle)
    /\ UNCHANGED <<users, frozen, nextUser, resets, inbox, sessions, nextCode, mailed>>

\* mutant: the account at the address is removed
RolledBackAddress(h) == {u \in users : u.email # h.email}
RolledBack(h) == {u \in users : u.id # h.user}

\* deleteUser: also the directory of the account, with its state.
SignupRollback(r) ==
    /\ req[r].pc = "welcoming"
    /\ users' = RolledBack(req[r]) /\ frozen' = frozen \ {req[r].user}
    /\ Become(r, Idle)
    /\ UNCHANGED <<announced, nextUser, codes, resets, inbox, sessions, nextCode, mailed>>

(***************************************************************************)
(* Login.                                                                  *)
(***************************************************************************)
LoginRequest(r, u, pass) ==
    /\ pass = u.pass /\ u.id \notin frozen
    /\ SendCode(r, "login", u.email, u.id, u.phone, u.pass)

\* mutant: the account at the address, whoever asked
AskedAnyone(c, u) == TRUE
Asked(c, u) == c.user = u.id

LoginVerify(c) ==
    /\ c.purpose = "login" /\ Typed(c)
    /\ codes' = Without("login", c.email)
    /\ sessions' = sessions \cup
          {[user |-> u.id, code |-> c.code] : u \in {x \in UserAt(c.email) : Asked(c, x) /\ x.id \notin frozen}}
    /\ UNCHANGED <<stores, resets, inbox, req, nextCode, mailed>>

Logout(s) ==
    /\ sessions' = sessions \ {s}
    /\ UNCHANGED <<stores, codes, resets, inbox, req, nextCode, mailed>>

(***************************************************************************)
(* The password, without a session.                                        *)
(***************************************************************************)
ResetRequest(r, u) ==
    /\ req[r] = Idle /\ nextCode <= MaxCodes /\ nextCode' = nextCode + 1
    /\ resets' = {x \in resets : x.email # u.email} \cup {[email |-> u.email, code |-> nextCode]}
    /\ Become(r, [pc |-> "resetting", email |-> u.email, code |-> nextCode])
    /\ UNCHANGED <<stores, codes, inbox, sessions, mailed>>

\* A mail that fails leaves its code: nothing is cleared.
ResetAnswered(r) ==
    /\ req[r].pc = "resetting" /\ Become(r, Idle)
    /\ UNCHANGED <<stores, codes, resets, inbox, sessions, nextCode, mailed>>

ResetConfirm(x, u, pass) ==
    /\ x \in inbox /\ u.email = x.email
    /\ users' = (users \ {u}) \cup {[u EXCEPT !.pass = pass]}
    /\ resets' = resets \ {x}
    /\ UNCHANGED <<frozen, announced, nextUser, codes, inbox, sessions, req, nextCode, mailed>>

ResetExpire(x) ==
    /\ resets' = resets \ {x}
    /\ UNCHANGED <<stores, codes, inbox, sessions, req, nextCode, mailed>>

(***************************************************************************)
(* The profile.  A session names an account, which may be gone.            *)
(***************************************************************************)
Active(s) == s.user \notin frozen
Owner(s) == {u \in users : u.id = s.user}

SavePhone(s, phone) ==
    /\ Active(s)
    /\ \E u \in Owner(s) :
          /\ ~Taken(u.email, phone, u.id)
          /\ users' = (users \ {u}) \cup {[u EXCEPT !.phone = phone]}
    /\ UNCHANGED <<frozen, announced, nextUser, codes, resets, inbox, sessions, req, nextCode, mailed>>

ChangePassword(s, current, pass) ==
    /\ Active(s)
    /\ \E u \in Owner(s) : u.pass = current /\ users' = (users \ {u}) \cup {[u EXCEPT !.pass = pass]}
    /\ UNCHANGED <<frozen, announced, nextUser, codes, resets, inbox, sessions, req, nextCode, mailed>>

\* The profile as it is sent now is stored with the code.
EmailChangeRequest(r, s, email, phone) ==
    /\ Active(s) /\ \A u \in UserAt(email) : u.id = s.user
    /\ \E u \in Owner(s) : u.email # email /\ SendCode(r, "profile_email", email, u.id, phone, u.pass)

\* The profile is written as it was when the code was asked for.
EmailChangeVerify(s, c) ==
    /\ Active(s) /\ c.purpose = "profile_email" /\ Typed(c)
    /\ c.user = s.user /\ ~Taken(c.email, c.phone, c.user)
    /\ \E u \in Owner(s) : users' = (users \ {u}) \cup {[u EXCEPT !.email = c.email, !.phone = c.phone]}
    /\ codes' = Without("profile_email", c.email)
    /\ UNCHANGED <<frozen, announced, nextUser, resets, inbox, sessions, req, nextCode, mailed>>

\* Another account's code, or an address that is taken by now.
EmailChangeRefused(s, c) ==
    /\ Active(s) /\ c.purpose = "profile_email" /\ Typed(c)
    /\ c.user # s.user \/ \E u \in UserAt(c.email) : u.id # s.user
    /\ codes' = Without("profile_email", c.email)
    /\ UNCHANGED <<stores, resets, inbox, sessions, req, nextCode, mailed>>

(***************************************************************************)
(* The administrator, and a restart.                                       *)
(***************************************************************************)
Delete(u) ==
    /\ users' = users \ {u} /\ frozen' = frozen \ {u.id} /\ announced' = announced \ {u.id}
    /\ UNCHANGED <<nextUser, codes, resets, inbox, sessions, req, nextCode, mailed>>

Freeze(u) ==
    /\ frozen' = frozen \cup {u.id}
    /\ UNCHANGED <<users, announced, nextUser, codes, resets, inbox, sessions, req, nextCode, mailed>>

Unfreeze(u) ==
    /\ frozen' = frozen \ {u.id}
    /\ UNCHANGED <<users, announced, nextUser, codes, resets, inbox, sessions, req, nextCode, mailed>>

Restart ==
    /\ req' = [r \in Reqs |-> Idle]
    /\ UNCHANGED <<stores, codes, resets, inbox, sessions, nextCode, mailed>>

AccountsNext ==
    \/ \E r \in Reqs :
          \/ \E e \in Emails, p \in Phones, w \in Passwords : SignupRequest(r, e, p, w)
          \/ \E c \in codes : SignupVerify(r, c)
          \/ \E u \in users : ResetRequest(r, u) \/ \E w \in Passwords : LoginRequest(r, u, w)
          \/ \E s \in sessions, e \in Emails, p \in Phones : EmailChangeRequest(r, s, e, p)
          \/ MailArrives(r) \/ MailSent(r) \/ MailFailed(r)
          \/ SignedUp(r) \/ SignupRollback(r) \/ ResetAnswered(r)
    \/ \E c \in codes : Expire(c) \/ Mistype(c) \/ LoginVerify(c)
    \/ \E s \in sessions :
          \/ Logout(s) \/ \E p \in Phones : SavePhone(s, p)
          \/ \E v, w \in Passwords : ChangePassword(s, v, w)
          \/ \E c \in codes : EmailChangeVerify(s, c) \/ EmailChangeRefused(s, c)
    \/ \E x \in resets : ResetExpire(x) \/ \E u \in users, w \in Passwords : ResetConfirm(x, u, w)
    \/ \E u \in users : Delete(u) \/ Freeze(u) \/ Unfreeze(u)
    \/ Restart

AccountsSpec == AccountsInit /\ [][AccountsNext]_accountsVars

-----------------------------------------------------------------------------
\* Two accounts never have one address, nor one phone that has digits, whatever
\* was asked for before the codes arrived: by sign-ups, changes of the address
\* and of the phone.
IdentityIsUnique ==
    \A u, v \in users : u.email = v.email \/ (u.phone = v.phone /\ u.phone \notin NoDigits) => u = v

Arrived(m) == [email |-> m.email, code |-> m.code] \in inbox

\* A mail that was sent for it arrived: at the address of an account, its
\* sign-up's or that of its own change of address; for a session, the one that
\* answers the password of its account.
AddressRead(u) ==
    \E m \in mailed :
       /\ m.email = u.email /\ Arrived(m)
       /\ m.purpose = "signup" \/ (m.purpose = "profile_email" /\ m.user = u.id)

LoginRead(s) ==
    \E m \in mailed : m.purpose = "login" /\ m.user = s.user /\ m.code = s.code /\ Arrived(m)

\* Whoever has an account read the mail at its address, and whoever has a
\* session gave the password of its account and read the mail that was sent
\* for that: though one code is kept for a purpose and an address, whoever asked
\* last, and the address may have passed to another account since.
MailWasRead == (\A u \in users : AddressRead(u)) /\ (\A s \in sessions : LoginRead(s))

\* A sign-up that was answered with success left an account that only the
\* administrator removes: another sign-up that fails does not take it along.
AnnouncedIsThere == announced \subseteq {u.id : u \in users}

=============================================================================
