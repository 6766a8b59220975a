------------------------------ MODULE BasicAuth -------------------------------
(* Who may see a protected page (auth/BasicAuth.cpp).  The application calls   *)
(* the setters while it sets the server up; requests only ask.                 *)
EXTENDS Naturals, SequencesExt, Paths

CONSTANTS Users,     \* user names given to the setters: texts, << >> among them
          Passwords, \* texts
          Pages      \* paths that may be protected

\* A text is a sequence of words and ":".
ASSUME AuthAssumption == \A t \in Users \cup Passwords : t \in Seq(STRING)

VARIABLES
    enabled,        \* _enabled
    users,          \* _users: the hash of the password of each user
    protectedPages  \* _protectedPages

avars == <<enabled, users, protectedPages>>

AuthInit == enabled = FALSE /\ users = << >> /\ protectedPages = {}
--------------------------------------------------------------------------------
(* SHA-256: different passwords have different hashes.                         *)
sha256Hash(text) == [hash |-> text]

setEnabled == enabled' \in BOOLEAN /\ UNCHANGED <<users, protectedPages>>

(* The user's last password counts; a user without a name is not added.        *)
addUserHashed(name, h) ==
    /\ users' = IF name = << >> THEN users
                ELSE [u \in DOMAIN users \cup {name} |-> IF u = name THEN h ELSE users[u]]
    /\ UNCHANGED <<enabled, protectedPages>>
addUser(name, password) == addUserHashed(name, sha256Hash(password))

removeUser(name) == /\ users' = [u \in DOMAIN users \ {name} |-> users[u]]
                    /\ UNCHANGED <<enabled, protectedPages>>
clearUsers == users' = << >> /\ UNCHANGED <<enabled, protectedPages>>

addProtectedPage(p)    == protectedPages' = protectedPages \cup {p} /\ UNCHANGED <<enabled, users>>
removeProtectedPage(p) == protectedPages' = protectedPages \ {p} /\ UNCHANGED <<enabled, users>>
clearProtectedPages    == protectedPages' = {} /\ UNCHANGED <<enabled, users>>

SetUp ==
    \/ setEnabled \/ clearUsers \/ clearProtectedPages
    \/ \E name \in Users : removeUser(name) \/ \E p \in Passwords : addUser(name, p)
    \/ \E p \in Pages : addProtectedPage(p) \/ removeProtectedPage(p)
--------------------------------------------------------------------------------

(* parseAuthorizationHeader() of a header whose credentials decode to header;  *)
(* the name ends at the first colon, so the password may have colons.          *)
parseAuthorizationHeader(header) ==
    IF ":" \notin Range(header) THEN [ok |-> FALSE]
    ELSE LET colon == SelectInSeq(header, LAMBDA w : w = ":")
         IN  [ok |-> colon > 1, username |-> SubSeq(header, 1, colon - 1),
              password |-> SubSeq(header, colon + 1, Len(header))]

verifyCredentials(header) ==
    LET given == parseAuthorizationHeader(header)
    IN  /\ given.ok /\ given.username \in DOMAIN users
        /\ users[given.username] = sha256Hash(given.password)

(* Without users nobody could log in: then protected pages are open.           *)
requiresAuth(path) == enabled /\ users # << >> /\ path \in protectedPages

authenticate(path, header) == requiresAuth(path) => verifyCredentials(header)
================================================================================
