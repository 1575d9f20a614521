------------------------------ MODULE SchwabAuth ------------------------------
(***************************************************************************)
(* data/schwab_auth.py: what the token file says about Schwab access. The  *)
(* file carries the day of the login, which no later write changes, and    *)
(* its modification time, which every renewal of the access token moves.   *)
(***************************************************************************)
EXTENDS Integers

CONSTANTS
    TokenLife,  \* days a refresh token is accepted (7)
    WarnAge     \* days after which its end is announced (5)

ASSUME AuthAssumption == WarnAge \in Nat /\ TokenLife \in Nat /\ WarnAge < TokenLife

NoFile == [kind |-> "absent", created |-> 0, written |-> 0]

\* Kinds of token files: of a completed login, of one that a half-completed
\* login left, of one whose login day is missing, and of one that is not JSON.
TokenKinds == {"absent", "corrupt", "partial", "undated", "full"}

has_refresh_token(token) == token.kind \in {"undated", "full"}
age_source(token) ==
    CASE token.kind \in {"absent", "corrupt"} -> "none"
      [] token.kind = "undated" -> "file_mtime"
      [] OTHER -> "creation_timestamp"

token_age_OfTheFile(token, today) ==      \* mutant: the age of the file, not of the login
    today - token.written

token_age(token, today) ==
    today - (IF age_source(token) = "file_mtime" THEN token.written ELSE token.created)

auth_state(token, today) ==
    IF token.kind = "absent" THEN "NO_TOKEN"
    ELSE IF token.kind = "corrupt" THEN "TOKEN_UNREADABLE"
    ELSE IF ~has_refresh_token(token) THEN "TOKEN_INCOMPLETE"
    ELSE IF token_age(token, today) >= TokenLife THEN "AUTH_EXPIRED"
    ELSE IF token_age(token, today) >= WarnAge THEN "WARN_EXPIRING"
    ELSE "OK"

\* Whether a fetch goes on after health(), and whether get_client then returns a client.
HealthAllows(token, today) == auth_state(token, today) \in {"OK", "WARN_EXPIRING"}
get_client(token, today) == auth_state(token, today) \notin {"NO_TOKEN", "AUTH_EXPIRED"}

\* What Schwab accepts: a refresh token younger than its life, whatever the file says.
Accepted(token, today) ==
    has_refresh_token(token) /\ today - token.created < TokenLife

\* Using a client renews the access token and rewrites the file.
Renewed(token, today) == [token EXCEPT !.written = today]
LoggedIn(today) == [kind |-> "full", created |-> today, written |-> today]
===============================================================================
