------------------------------ MODULE Redaction ------------------------------
(***************************************************************************)
(* How pump_output_stream of src/src/server.rs cuts the text of a command  *)
(* into what it shows and what it holds back, and the Redactor of          *)
(* src/src/redaction.rs it asks.  ExecuteStream has the same pump with its *)
(* queue and lets it hold back any tail; here the tail is the one the code *)
(* chooses, of letters, and time passes.                                   *)
(***************************************************************************)
EXTENDS Integers, SequencesExt

CONSTANTS
    Letter,     \* the characters of the text
    Width,      \* bytes of a character
    Mark,       \* "<redacted>"
    SecretSets, \* the secrets a daemon may have been configured with
    MaxText,    \* bound: characters the command writes
    MaxRead,    \* characters that one read may complete
    Hold        \* SECRET_TAIL_HOLD_TIMEOUT_MS in ticks of the clock

\* load_secrets skips empty lines.
ASSUME SecretAssumption ==
    \A S \in SecretSets : IsFiniteSet(S) /\ S \subseteq Seq(Letter) \ {<<>>}
ASSUME LetterAssumption == Width \in Nat \ {0} /\ Mark \notin Letter
ASSUME ClockAssumption == MaxText \in Nat /\ MaxRead \in Nat \ {0} /\ Hold \in Nat \ {0}

VARIABLES
    secrets,  \* the Redactor
    pump,     \* "read" (it waits for a read), "send" and "last" (it waits in
              \* the send of a flush, after which it reads or is done), or how
              \* pump_output_stream ended
    sending,  \* the redacted text of that send
    partial,  \* utf8_pending: bytes of an incomplete character
    pending,  \* redaction_pending: characters that are held back
    since,    \* history: for each of them, the ticks since it was complete that
              \* the pump spent reading: no deadline runs in a send
    clock,    \* ticks since hold_deadline was set, or Off
    read,     \* history: all characters read
    shown,    \* the text of the events sent
    expired   \* history: the deadline has passed with something held back

vars == <<secrets, pump, sending, partial, pending, since, clock, read, shown, expired>>

Off == -1
Text == Seq(Letter)

TypeOK ==
    /\ secrets \in SecretSets
    /\ pump \in {"read", "send", "last", "ok", "failed"}
    /\ partial \in 0..Width - 1
    /\ pending \in Text /\ read \in Text
    /\ since \in Seq(Nat) /\ Len(since) = Len(pending)
    /\ clock \in {Off} \union 0..Hold
    /\ expired \in BOOLEAN

-----------------------------------------------------------------------------
(* The Redactor.                                                           *)

Ending(text, k) == SubSeq(text, Len(text) - k + 1, Len(text))
EndsWith(text, s) == Len(s) <= Len(text) /\ Ending(text, Len(s)) = s

Suspicious(text, k) == \E s \in secrets : k < Len(s) /\ Ending(text, k) = SubSeq(s, 1, k)

\* Mutant: the last character of a secret's beginning is let go.
IsTrailingSecretPrefixLenShort(text, len) ==
    IF \E s \in secrets : EndsWith(text, s) THEN len = 0
    ELSE /\ len > 0 => len < Len(text) /\ Suspicious(text, len + 1)
         /\ \A k \in len + 2..Len(text) : ~Suspicious(text, k)

\* trailing_secret_prefix_len(text) is len: of the beginnings of secrets, whole
\* ones excepted, the longest that ends text, unless a secret ends it.
IsTrailingSecretPrefixLen(text, len) ==
    IF \E s \in secrets : EndsWith(text, s) THEN len = 0
    ELSE /\ len > 0 => Suspicious(text, len)
         /\ \A k \in len + 1..Len(text) : ~Suspicious(text, k)

\* replace_all of the aho_corasick library as it is configured: scanning on, it
\* takes the longest of the secrets that end where the first one ends.
RedactText(text) ==
    LET scan[i \in 1..Len(text) + 1] ==
            LET ends == {e \in i..Len(text) :
                            \E s \in secrets : EndsWith(SubSeq(text, i, e), s)}
            IN  IF ends = {} THEN SubSeq(text, i, Len(text))
                ELSE LET e == Min(ends)
                         hits == {s \in secrets : EndsWith(SubSeq(text, i, e), s)}
                         len == Max({Len(s) : s \in hits})
                     IN  Append(SubSeq(text, i, e - len), Mark) \o scan[e + 1]
    IN  scan[1]

-----------------------------------------------------------------------------
Init ==
    /\ secrets \in SecretSets
    /\ pump = "read" /\ sending = <<>> /\ partial = 0
    /\ pending = <<>> /\ since = <<>> /\ clock = Off
    /\ read = <<>> /\ shown = <<>> /\ expired = FALSE

\* flush_pending_text: all of text but its last hold characters is cut off,
\* redacted and given to send_text_events.  The times are kept beside it.
Flush(text, times, hold) ==
    /\ sending' = RedactText(SubSeq(text, 1, Len(text) - hold))
    /\ pending' = Ending(text, hold)
    /\ since' = Ending(times, hold)

\* hold_deadline, with so many characters held back.
Armed(held) == IF held > 0 THEN 0 ELSE Off

\* Mutant: the deadline is set for what begins to be held only.
ReadTextUnarmed(c, p) ==
    LET text == pending \o c IN
    /\ pump = "read" /\ Len(read) + Len(c) <= MaxText
    /\ c = <<>> => p > partial
    /\ partial' = p /\ read' = read \o c
    /\ \E hold \in 0..Len(text) :
        /\ IsTrailingSecretPrefixLen(text, hold)
        /\ Flush(text, since \o [i \in DOMAIN c |-> 0], hold)
        /\ \/ hold = Len(text) /\ pump' = "read" /\ clock' = IF pending = <<>> THEN Armed(hold) ELSE Off
           \/ hold < Len(text) /\ pump' = "send" /\ clock' = Off
    /\ UNCHANGED <<secrets, shown, expired>>

\* A read that completes the characters c and leaves p bytes of another one.
\* When there is nothing to send, the deadline is set anew at once; otherwise
\* it is not before the send has returned.
ReadText(c, p) ==
    LET text == pending \o c IN
    /\ pump = "read" /\ Len(read) + Len(c) <= MaxText
    /\ c = <<>> => p > partial
    /\ partial' = p /\ read' = read \o c
    /\ \E hold \in 0..Len(text) :
        /\ IsTrailingSecretPrefixLen(text, hold)
        /\ Flush(text, since \o [i \in DOMAIN c |-> 0], hold)
        /\ \/ hold = Len(text) /\ pump' = "read" /\ clock' = Armed(hold)
           \/ hold < Len(text) /\ pump' = "send" /\ clock' = Off
    /\ UNCHANGED <<secrets, shown, expired>>

\* sleep_until(hold_deadline) wins the select!.
HoldExpires ==
    /\ pump = "read" /\ clock = Hold
    /\ Flush(pending, since, 0)
    /\ pump' = "send" /\ clock' = Off /\ expired' = TRUE
    /\ UNCHANGED <<secrets, partial, read, shown>>

\* Mutant: the deadline that the send has put off is forgotten.
SendReturnsUnarmed ==
    /\ \/ pump = "send" /\ pump' = "read" /\ clock' = Off
       \/ pump = "last" /\ pump' = "ok" /\ UNCHANGED clock
    /\ shown' = shown \o sending /\ sending' = <<>>
    /\ UNCHANGED <<secrets, partial, pending, since, read, expired>>

\* send_text_events returns when the queue has taken everything, which it does
\* when the client likes (StreamSenders); only now is the deadline set.  Its
\* events, which are cut between any two characters, are one text here.
SendReturns ==
    /\ \/ pump = "send" /\ pump' = "read" /\ clock' = Armed(Len(pending))
       \/ pump = "last" /\ pump' = "ok" /\ UNCHANGED clock
    /\ shown' = shown \o sending /\ sending' = <<>>
    /\ UNCHANGED <<secrets, partial, pending, since, read, expired>>

\* The pump has failed, and what it held is lost.
Fails == pump' = "failed" /\ sending' = <<>> /\ pending' = <<>> /\ since' = <<>> /\ clock' = Off

\* The client is gone, and the send fails.
SendFails ==
    /\ pump \in {"send", "last"} /\ Fails
    /\ UNCHANGED <<secrets, partial, read, shown, expired>>

\* read returns 0: everything is flushed, unless a character is incomplete.
ReadEof ==
    /\ pump = "read"
    /\ \/ partial > 0 /\ Fails
       \/ /\ partial = 0 /\ Flush(pending, since, 0) /\ clock' = Off
          /\ pump' = IF pending = <<>> THEN "ok" ELSE "last"
    /\ UNCHANGED <<secrets, partial, read, shown, expired>>

\* A read fails or brings what is not UTF-8: what is held back is not shown.
ReadFails ==
    /\ pump = "read" /\ Fails
    /\ UNCHANGED <<secrets, partial, read, shown, expired>>

\* The clock does not pass a deadline before the runtime has seen it.  It stops
\* at a bound, which no character reaches (see HeldBriefly), and in a send.
Tick ==
    /\ pump = "read" /\ clock # Hold /\ pending # <<>>
    /\ \A i \in DOMAIN since : since[i] <= Hold * Width * MaxText
    /\ clock' = IF clock = Off THEN Off ELSE clock + 1
    /\ since' = [i \in DOMAIN since |-> since[i] + 1]
    /\ UNCHANGED <<secrets, pump, sending, partial, pending, read, shown, expired>>

Terminated == pump \in {"ok", "failed"} /\ UNCHANGED vars

Pump ==
    \/ \E c \in SeqOf(Letter, MaxRead), p \in 0..Width - 1 : ReadText(c, p)
    \/ HoldExpires \/ SendReturns \/ SendFails \/ ReadEof \/ ReadFails

Next == Pump \/ Tick \/ Terminated

Spec == Init /\ [][Next]_vars

-----------------------------------------------------------------------------
\* A beginning of t is also how s ends.
Overlap(s, t) ==
    \E k \in 1..Len(s) - 1 : k < Len(t) /\ Ending(s, k) = SubSeq(t, 1, k)

Separate == \A s, t \in secrets : ~Overlap(s, t)

(***************************************************************************)
(* However the reads cut the output, and wherever text is held back: as    *)
(* long as no deadline has let anything go, and no secret ends with what   *)
(* another one begins with, the caller of ExecuteStream sees what          *)
(* redact_utf8 makes of the whole, as the caller of Execute does           *)
(* (server.rs:907-951, redaction.rs:32-75).                                *)
(***************************************************************************)
AsIfWhole ==
    (Separate /\ ~expired /\ pump # "failed") =>
        /\ (shown \o sending) \o RedactText(pending) = RedactText(read)
        /\ pump = "ok" => shown = RedactText(read)

(***************************************************************************)
(* README.md:213: only text that may be the beginning of a secret is       *)
(* delayed, and while the pump waits for reads none of it for ever: not    *)
(* longer than a deadline for each byte that the secret has behind its     *)
(* first character.  Every read sets the deadline anew, so that one        *)
(* deadline, as README says, is not enough; but what it adds to a          *)
(* beginning of a secret makes it longer.  The time that the pump waits in *)
(* a send is not counted: what is held back stays so while the text before *)
(* it waits for a client that reads slowly, which nothing bounds, and the  *)
(* deadline is set when that send has returned (server.rs:885-931,         *)
(* redaction.rs:42-75).                                                    *)
(***************************************************************************)
HeldBriefly ==
    pending # <<>> =>
        \E s \in secrets :
            /\ Len(pending) < Len(s) /\ pending = SubSeq(s, 1, Len(pending))
            /\ \A i \in DOMAIN since : since[i] <= Hold * (Width * (Len(s) - 1))

-----------------------------------------------------------------------------
(* The inductive invariant (proved in RedactionProofs).                    *)

\* A deadline runs exactly while something is held back, but in a send.
DeadlineIffHeld == clock # Off <=> pump = "read" /\ pending # <<>>

\* How long a character is held is accounted for by the reads since then, each
\* of which brought a byte, and by the deadline that is running.
HeldSinceReads ==
    \A i \in DOMAIN since :
        since[i] <= Hold * (Width * (Len(pending) - i) + partial)
                    + IF pump = "read" THEN clock ELSE 0

IInv ==
    /\ TypeOK /\ DeadlineIffHeld /\ HeldSinceReads
    /\ pending # <<>> => \E s \in secrets : Len(pending) < Len(s) /\ pending = SubSeq(s, 1, Len(pending))
=============================================================================
