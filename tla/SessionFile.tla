----------------------------- MODULE SessionFile ------------------------------
(***************************************************************************)
(* The session of the command line client: ~/.config/secret-service/       *)
(* session.json, which commands of several terminals read, write and       *)
(* remove without a lock (cmd/cli/commands/session.go, root.go).           *)
(*                                                                         *)
(* os.WriteFile opens the file, creating or truncating it, and then writes *)
(* at offset 0.  Between the two another command may read the empty file,  *)
(* truncate it again, or unlink it: then the write goes to a file nobody   *)
(* can open any more.  A file is the session that was written to it last   *)
(* and its length: a shorter session over a longer one leaves text behind  *)
(* the closing brace, which json.Unmarshal rejects.                        *)
(***************************************************************************)
EXTENDS Integers

CONSTANTS
    Terminals,     \* commands under way
    Hosts,         \* servers a user may log in to, the default one among them
    DefaultHost,
    Width,         \* Width[h]: the length of a session for h
    Inodes,        \* files that were created at the path
    NoFile,
    NoHost,
    MaxLogouts     \* bound: logouts that find a file

ASSUME SessionAssumption ==
    /\ DefaultHost \in Hosts
    /\ DOMAIN Width = Hosts
    /\ \A h \in Hosts : Width[h] \in Nat \ {0}
    /\ NoFile \notin Inodes /\ NoHost \notin Hosts
    /\ MaxLogouts \in Nat

VARIABLES
    path,          \* the file that session.json names
    content,       \* content[i]: issuer of the token, base_url, length, age
    terminal,      \* where each command is
    logouts        \* how many logouts found a file

sessionVars == << path, content, terminal, logouts >>

\* "token" names the server that issued the token, "base" the one it will be
\* sent to.  "opened" is how many logouts there had been when the file was opened.
Empty == [token |-> NoHost, base |-> NoHost, length |-> 0, opened |-> 0]

Ready == [ at |-> "prompt", host |-> DefaultHost, fd |-> NoFile, opened |-> 0,
           loaded |-> Empty, left |-> 0 ]

SessionInit ==
    /\ path = NoFile
    /\ content = [i \in Inodes |-> Empty]
    /\ terminal = [t \in Terminals |-> Ready]
    /\ logouts = 0

Unlinked(i) == i # path /\ \A t \in Terminals : terminal[t].fd # i
-------------------------------------------------------------------------------
(* ss login, and ss register with --login *)

\* The server answers the password with a token.
LoginCommand(t) ==
    /\ terminal[t].at = "prompt"
    /\ \E h \in Hosts :
          terminal' = [terminal EXCEPT ![t].at = "token", ![t].host = h]
    /\ UNCHANGED << path, content, logouts >>

\* register, unless --login=false: a user of that server is created first.
RegisterCommand(t) ==
    /\ terminal[t].at = "prompt"
    /\ \E h \in Hosts :
          terminal' = [terminal EXCEPT ![t].at = "register", ![t].host = h]
    /\ UNCHANGED << path, content, logouts >>

\* It then logs in with the same client.
AutoLogin(t) ==
    /\ terminal[t].at = "register"
    /\ terminal' = [terminal EXCEPT ![t].at = "token"]
    /\ UNCHANGED << path, content, logouts >>

\* os.WriteFile: open with O_CREATE and O_TRUNC.
OpenSession(t) ==
    /\ terminal[t].at = "token"
    /\ \E i \in Inodes :
        /\ IF path = NoFile THEN Unlinked(i) ELSE i = path
        /\ path' = i
        /\ content' = [content EXCEPT ![i] = Empty]
        /\ terminal' = [terminal EXCEPT ![t].at = "open", ![t].fd = i, ![t].opened = logouts]
    /\ UNCHANGED logouts

Longer(m, n) == IF m > n THEN m ELSE n

\* os.WriteFile: write the token and the base URL it was issued for, close.
WriteSession(t) ==
    /\ terminal[t].at = "open"
    /\ LET i == terminal[t].fd
           h == terminal[t].host
       IN content' = [content EXCEPT ![i] =
             [ token |-> h, base |-> h,
               length |-> Longer(Width[h], content[i].length), opened |-> terminal[t].opened ]]
    /\ terminal' = [terminal EXCEPT ![t] = Ready]
    /\ UNCHANGED << path, logouts >>

\* Ctrl-C, or an error of the server or of the file system, between two steps.
Interrupt(t) ==
    /\ terminal[t].at # "prompt"
    /\ terminal' = [terminal EXCEPT ![t] = Ready]
    /\ UNCHANGED << path, content, logouts >>
-------------------------------------------------------------------------------
(* ss logout *)

\* Mutant of LogoutCommand: the file is truncated instead of removed.
LogoutByTruncate(t) ==
    /\ terminal[t].at = "prompt"
    /\ path # NoFile /\ logouts < MaxLogouts
    /\ content' = [content EXCEPT ![path] = Empty]
    /\ logouts' = logouts + 1
    /\ UNCHANGED << path, terminal >>

\* os.Remove; that there is no file is no error.
LogoutCommand(t) ==
    /\ terminal[t].at = "prompt"
    /\ path # NoFile /\ logouts < MaxLogouts
    /\ path' = NoFile
    /\ logouts' = logouts + 1
    /\ UNCHANGED << content, terminal >>
-------------------------------------------------------------------------------
(* Every other command: requireSession, then requests *)

\* json.Unmarshal accepts nothing behind the value.
Parses(c) == c.token # NoHost /\ c.length = Width[c.token]

\* os.ReadFile and json.Unmarshal.  Without a file, or with one that does not
\* parse, the command ends here.
LoadSession(t) ==
    /\ path # NoFile
    /\ Parses(content[path])
    /\ terminal[t].at = "prompt"
    /\ terminal' = [terminal EXCEPT ![t].at = "request", ![t].loaded = content[path],
                                    ![t].left = logouts]
    /\ UNCHANGED << path, content, logouts >>

\* apiClient.do sends the token to base_url; the command may send more requests.
SendToken(t) ==
    /\ terminal[t].at = "request"
    /\ terminal' = [terminal EXCEPT ![t] = Ready]
    /\ UNCHANGED << path, content, logouts >>
-------------------------------------------------------------------------------
SessionNext ==
    \E t \in Terminals :
       \/ LoginCommand(t) \/ RegisterCommand(t) \/ AutoLogin(t)
       \/ OpenSession(t) \/ WriteSession(t)
       \/ Interrupt(t)
       \/ LogoutCommand(t)
       \/ LoadSession(t) \/ SendToken(t)

SessionSpec == SessionInit /\ [][SessionNext]_sessionVars
-------------------------------------------------------------------------------
(* Properties *)

Contents == [ token : Hosts \cup {NoHost}, base : Hosts \cup {NoHost},
              length : {0} \cup {Width[h] : h \in Hosts}, opened : 0..MaxLogouts ]

SessionTypeOK ==
    /\ path \in Inodes \cup {NoFile}
    /\ content \in [Inodes -> Contents]
    /\ terminal \in [Terminals ->
          [ at : {"prompt", "register", "token", "open", "request"}, host : Hosts,
            fd : Inodes \cup {NoFile}, opened : 0..MaxLogouts,
            loaded : Contents, left : 0..MaxLogouts ]]
    /\ logouts \in 0..MaxLogouts

\* A token is only ever sent to the server that issued it, also where logins to
\* two servers overwrote each other's file half way (session.go:36).
TokenGoesHome ==
    \A t \in Terminals : terminal[t].at = "request" =>
        terminal[t].loaded.token = terminal[t].loaded.base

\* A session that a command loads was opened after the last logout that found a
\* file (session.go:63): a login that has the file open while another terminal
\* logs out writes a file that nobody finds.  A login that has its token and
\* opens the file after the logout does leave a session.
LogoutSticks ==
    \A t \in Terminals : terminal[t].at = "request" =>
        terminal[t].loaded.opened = terminal[t].left

\* The two together: what a command may rely on once it has loaded a session.
SessionsAreSound == TokenGoesHome /\ LogoutSticks
===============================================================================
