-------------------------------- MODULE Setup --------------------------------
(***************************************************************************)
(* The files of a state directory, as `cli-warden setup` and `cli-warden   *)
(* emit-client` write them (src/src/setup.rs): one after the other, each   *)
(* truncated and then written, with nothing to undo what was begun.  A run *)
(* may break off anywhere; runs may overlap.                               *)
(***************************************************************************)
EXTENDS Integers, Sequences

CONSTANTS
    Admin,     \* who runs the commands
    Name,      \* the names of clients
    MaxRuns    \* bound: runs of setup and emit-client

\* The clients' files are in a directory of their own (a name is taken to be a
\* plain file name, which the code does not check).
ASSUME NameAssumption == Name \intersect {"ca", "daemon"} = {}
ASSUME RunsAssumption == MaxRuns \in Nat

Holder == {"ca", "daemon"} \union Name
File == {"cert", "key"} \X Holder \union {<<"secrets", "">>, <<"config", "">>}

\* What a file may hold.  A run draws keys of its own, named by its number; a
\* certificate names the key that signed it and the key it is for.
Missing == <<>>
Torn == <<"torn">>
Cert(ca, k) == <<"cert", ca, k>>
Key(k) == <<"key", k>>
Default == <<"text", "default">>
Edited == <<"text", "edited">>

VARIABLES
    file,     \* the state directory
    runs,     \* runs that have begun
    op,       \* what each admin runs, and about which client,
    todo,     \* the writes it has left, pairs of a file and what will be in it,
    half,     \* and whether the first of them has cut its file to nothing
    met,      \* history: the runs that overlapped with it so far
    settled,  \* history: a setup was completed, having met none, and none has
              \* begun since
    issued    \* history: the clients whose certificates were written since

vars == <<file, runs, op, todo, half, met, settled, issued>>

Run == {"setup", "emit"} \X Name
None == <<>>
Secrets == <<"secrets", "">>
Config == <<"config", "">>

\* secrets.txt is looked for before it is written.
Look == <<Secrets, Missing>>

\* What may be written to a file, and what else it may hold.
Contents(f) ==
    CASE f = Secrets -> {Missing, Default}
      [] f = Config -> {Default}
      [] f[1] = "cert" -> {Cert(g, k) : g \in 1..MaxRuns, k \in 1..MaxRuns}
      [] f[1] = "key" -> {Key(k) : k \in 1..MaxRuns}
Held(f) == Contents(f) \union IF f = Secrets THEN {Edited} ELSE {Missing, Torn}

Write == UNION {{f} \X Contents(f) : f \in File}

TypeOK ==
    /\ file \in [File -> UNION {Held(f) : f \in File}] /\ \A f \in File : file[f] \in Held(f)
    /\ runs \in 0..MaxRuns
    /\ op \in [Admin -> Run \union {None}]
    /\ todo \in [Admin -> Seq(Write)] /\ \A a \in Admin : op[a] = None => todo[a] = <<>>
    /\ half \in [Admin -> BOOLEAN]
    /\ met \in [Admin -> SUBSET Run]
    /\ settled \in BOOLEAN
    /\ issued \subseteq Name

Init ==
    /\ file = [f \in File |-> Missing]
    /\ runs = 0
    /\ op = [a \in Admin |-> None]
    /\ todo = [a \in Admin |-> <<>>] /\ half = [a \in Admin |-> FALSE]
    /\ met = [a \in Admin |-> {}]
    /\ settled = FALSE /\ issued = {}

-----------------------------------------------------------------------------
Running == {a \in Admin : op[a] # None}

\* A run r, of a kind and about a client, will make these writes.
Begin(a, r, writes) ==
    /\ op[a] = None /\ runs < MaxRuns
    /\ runs' = runs + 1
    /\ op' = [op EXCEPT ![a] = r]
    /\ todo' = [todo EXCEPT ![a] = writes]
    /\ met' = [b \in Admin |->
                 IF b = a THEN {op[c] : c \in Running}
                 ELSE IF b \in Running THEN met[b] \union {r} ELSE {}]
    /\ UNCHANGED <<file, half>>

\* What setup writes: a CA of its own, and certificates that it has signed.
SetupWrites(n) ==
    LET c == Cert(runs + 1, runs + 1)
        k == Key(runs + 1)
    IN  << <<<<"cert", "ca">>, c>>, <<<<"key", "ca">>, k>>,
           <<<<"cert", "daemon">>, c>>, <<<<"key", "daemon">>, k>>,
           <<<<"cert", n>>, c>>, <<<<"key", n>>, k>>,
           Look, <<Config, Default>> >>

\* Mutant: a key that is there is kept.
BeginSetupKeeping(a, n) ==
    /\ Begin(a, <<"setup", n>>,
             SelectSeq(SetupWrites(n), LAMBDA w : w[1][1] # "key" \/ file[w[1]] = Missing))
    /\ settled' = FALSE /\ issued' = {}

BeginSetup(a, n) ==
    /\ Begin(a, <<"setup", n>>, SetupWrites(n))
    /\ settled' = FALSE /\ issued' = {}

\* A certificate of client n and its key, signed with the key ca.
EmitWrites(n, ca) ==
    << <<<<"cert", n>>, Cert(ca, runs + 1)>>, <<<<"key", n>>, Key(runs + 1)>> >>

\* Mutant: emit_client draws a CA of its own.
BeginEmitNewCa(a, n) ==
    /\ file[Config] # Missing /\ file[<<"key", "ca">>] \notin {Missing, Torn}
    /\ Begin(a, <<"emit", n>>, EmitWrites(n, runs + 1))
    /\ issued' = issued \ {n} /\ UNCHANGED settled

\* emit_client needs the configuration and the CA key, and signs with that key;
\* a configuration that was cut off may load.
BeginEmit(a, n) ==
    /\ file[Config] # Missing /\ file[<<"key", "ca">>] \notin {Missing, Torn}
    /\ Begin(a, <<"emit", n>>, EmitWrites(n, file[<<"key", "ca">>][2]))
    /\ issued' = issued \ {n} /\ UNCHANGED settled

\* Mutant: secrets.txt is written like any other file.
LookForNothing(a) ==
    /\ todo[a] # <<>> /\ Head(todo[a]) = Look
    /\ todo' = [todo EXCEPT ![a] = <<<<Secrets, Default>>>> \o Tail(@)]
    /\ UNCHANGED <<file, runs, op, half, met, settled, issued>>

\* secrets.txt is left alone if there is one.
LookForSecrets(a) ==
    /\ todo[a] # <<>> /\ Head(todo[a]) = Look
    /\ todo' = [todo EXCEPT ![a] =
                  (IF file[Secrets] = Missing THEN <<<<Secrets, Default>>>> ELSE <<>>) \o Tail(@)]
    /\ UNCHANGED <<file, runs, op, half, met, settled, issued>>

\* The new secrets.txt is empty: there is nothing to write once it is open.
CreateSecrets(a) ==
    /\ todo[a] # <<>> /\ Head(todo[a]) = <<Secrets, Default>>
    /\ file' = [file EXCEPT ![Secrets] = Default]
    /\ todo' = [todo EXCEPT ![a] = Tail(@)]
    /\ UNCHANGED <<runs, op, half, met, settled, issued>>

\* For any other file fs::write cuts it to nothing,
Truncate(a) ==
    /\ todo[a] # <<>> /\ Head(todo[a])[1] # Secrets /\ ~half[a]
    /\ file' = [file EXCEPT ![Head(todo[a])[1]] = Torn]
    /\ half' = [half EXCEPT ![a] = TRUE]
    /\ UNCHANGED <<runs, op, todo, met, settled, issued>>

\* and then writes it.
Complete(a) ==
    /\ half[a]
    /\ file' = [file EXCEPT ![Head(todo[a])[1]] = Head(todo[a])[2]]
    /\ half' = [half EXCEPT ![a] = FALSE]
    /\ todo' = [todo EXCEPT ![a] = Tail(@)]
    /\ UNCHANGED <<runs, op, met, settled, issued>>

\* The run ends well: "Setup complete.", or "Generated client cert/key".
Finish(a) ==
    /\ op[a] # None /\ todo[a] = <<>>
    /\ op' = [op EXCEPT ![a] = None] /\ met' = [met EXCEPT ![a] = {}]
    /\ settled' = IF op[a][1] = "setup" THEN met[a] = {} ELSE settled
    /\ issued' = IF settled' /\ <<"emit", op[a][2]>> \notin met[a]
                 THEN issued \union {op[a][2]} ELSE issued
    /\ UNCHANGED <<file, runs, todo, half>>

\* Mutant: a write that fails is passed over, and the others are made.
BreakOffGoingOn(a) ==
    /\ op[a] # None /\ todo[a] # <<>>
    /\ op' = [op EXCEPT ![a] = None] /\ met' = [met EXCEPT ![a] = {}]
    /\ todo' = [todo EXCEPT ![a] = Tail(@)] /\ half' = [half EXCEPT ![a] = FALSE]
    /\ UNCHANGED <<file, runs, settled, issued>>

\* It breaks off, by an error or otherwise.  Nothing is undone.
BreakOff(a) ==
    /\ op[a] # None
    /\ op' = [op EXCEPT ![a] = None] /\ met' = [met EXCEPT ![a] = {}]
    /\ todo' = [todo EXCEPT ![a] = <<>>] /\ half' = [half EXCEPT ![a] = FALSE]
    /\ UNCHANGED <<file, runs, settled, issued>>

\* Somebody enters secrets (external).
EnterSecrets ==
    /\ file[Secrets] = Default
    /\ file' = [file EXCEPT ![Secrets] = Edited]
    /\ UNCHANGED <<runs, op, todo, half, met, settled, issued>>

Step(a) ==
    \/ LookForSecrets(a) \/ CreateSecrets(a) \/ Truncate(a) \/ Complete(a)
    \/ Finish(a) \/ BreakOff(a)

Next ==
    \/ \E a \in Admin, n \in Name : BeginSetup(a, n) \/ BeginEmit(a, n)
    \/ \E a \in Admin : Step(a)
    \/ EnterSecrets

Spec == Init /\ [][Next]_vars

-----------------------------------------------------------------------------
\* h has a key, and a certificate for it that the CA certificate accounts for.
Fits(h) ==
    /\ file[<<"cert", h>>][1] = "cert" /\ file[<<"key", h>>] = Key(file[<<"cert", h>>][3])
    /\ file[<<"cert", h>>][2] = file[<<"cert", "ca">>][3]

(***************************************************************************)
(* A setup that ends well, and met no other run, mends what broken runs    *)
(* before it have left behind, wherever they broke off: the certificates   *)
(* and keys of CA and daemon belong together, and configuration and        *)
(* secrets are there.  No emit-client that comes after, broken or not,     *)
(* spoils that (setup.rs:73-128, 150-165).                                 *)
(***************************************************************************)
SetupMends ==
    settled =>
        /\ Fits("ca") /\ Fits("daemon")
        /\ file[Config] \notin {Missing, Torn}
        /\ file[Secrets] # Missing

(***************************************************************************)
(* After it, every client for which a run has ended well can talk to the   *)
(* daemon: emit-client, by one admin or several at a time, spoils nobody   *)
(* else's certificates, only that of a client it is run for twice at the   *)
(* same time (setup.rs:150-165, 256-260).                                  *)
(***************************************************************************)
IssuedFit == \A n \in issued : settled /\ Fits(n)

(***************************************************************************)
(* Secrets that were entered outlive every later setup, broken or not; two *)
(* that overlap can lose them (setup.rs:92-95).                            *)
(***************************************************************************)
SecretsKept ==
    [][file[Secrets] = Edited /\ file'[Secrets] # Edited =>
            \E a \in Admin, n \in Name : op[a] # None /\ op[a][1] = "setup" /\ <<"setup", n>> \in met[a]]_vars

-----------------------------------------------------------------------------
(***************************************************************************)
(* The inductive invariant behind these properties (proved in              *)
(* SetupProofs).                                                           *)
(***************************************************************************)

\* f will hold x when a has made its writes.
WillHold(a, f, x) ==
    /\ \A j \in DOMAIN todo[a] : todo[a][j][1] = f => todo[a][j][2] = x
    /\ file[f] = x \/ \E j \in DOMAIN todo[a] : todo[a][j][1] = f

WillFit(a, h, ca, k) ==
    WillHold(a, <<"cert", h>>, Cert(ca, k)) /\ WillHold(a, <<"key", h>>, Key(k))

Runs(a, kind) == op[a] # None /\ op[a][1] = kind

\* Runs that overlap have met.
AllMet == \A a, b \in Running : a # b => op[b] \in met[a]

\* What the writes are that a run has left.
WritesInPlace ==
    \A a \in Admin :
        /\ half[a] => todo[a] # <<>> /\ Head(todo[a])[1] # Secrets
        /\ Runs(a, "emit") =>
            \A j \in DOMAIN todo[a] : todo[a][j][1] \in {"cert", "key"} \X {op[a][2]}
        /\ \A i, j \in DOMAIN todo[a] :
            todo[a][i][1] = Secrets /\ todo[a][j][1] = Secrets => i = j

\* A secrets.txt that is there is about to be created again only by a setup that
\* has met another.
SecretsInPlace ==
    \A a \in Admin :
        file[Secrets] # Missing /\ (\E j \in DOMAIN todo[a] : todo[a][j] = <<Secrets, Default>>)
            => \E n \in Name : <<"setup", n>> \in met[a]

\* A setup that has met no other run has done, or will do, all that it has to.
AloneInPlace ==
    \A a \in Admin : Runs(a, "setup") /\ met[a] = {} =>
        /\ \E k \in 1..MaxRuns : \A h \in {"ca", "daemon", op[a][2]} : WillFit(a, h, k, k)
        /\ WillHold(a, Config, Default)
        /\ file[Secrets] # Missing \/ \E j \in DOMAIN todo[a] : todo[a][j][1] = Secrets

\* After a setup there are only runs of emit-client; they sign with its key.
SettledInPlace ==
    settled => \A a \in Running :
        /\ Runs(a, "emit")
        /\ op[a] \notin met[a] =>
            \E k \in 1..MaxRuns : WillFit(a, op[a][2], file[<<"cert", "ca">>][3], k)

\* Nobody is about to replace the certificates of a client that was issued some.
IssuedInPlace == \A n \in issued, a \in Running : op[a] # <<"emit", n>>

IInv ==
    /\ TypeOK
    /\ AllMet /\ WritesInPlace /\ SecretsInPlace
    /\ AloneInPlace /\ SettledInPlace /\ IssuedInPlace
    /\ SetupMends /\ IssuedFit
=============================================================================
