---------------------------- MODULE SetupProofs ----------------------------
(* Runs of setup and emit-client that overlap, break off and follow one    *)
(* another keep the inductive invariant of Setup.                          *)
EXTENDS Setup, SequenceTheorems, TLAPS

-----------------------------------------------------------------------------
(* Files and writes.                                                       *)

(* The files are different ones, and this is what may be in them.          *)
LEMMA Files ==
    /\ Secrets \in File /\ Config \in File /\ Secrets # Config
    /\ \A h \in Holder : <<"cert", h>> \in File /\ <<"key", h>> \in File
    /\ \A t, h : <<t, h>> = Secrets => t = "secrets"
    /\ \A t, h : <<t, h>> = Config => t = "config"
    /\ \A t, u, h, g : <<t, h>> = <<u, g>> => t = u /\ h = g
    /\ "ca" \in Holder /\ "daemon" \in Holder /\ Name \subseteq Holder
    /\ \A n \in Name : n # "ca" /\ n # "daemon"
  BY NameAssumption DEF File, Holder, Secrets, Config

(* What each file may hold.                                                *)
LEMMA WhatIsHeld ==
    /\ Contents(Secrets) = {Missing, Default} /\ Held(Secrets) = {Missing, Default, Edited}
    /\ Contents(Config) = {Default} /\ Held(Config) = {Default, Missing, Torn}
    /\ \A h \in Holder :
        /\ Contents(<<"cert", h>>) = {Cert(g, k) : g \in 1..MaxRuns, k \in 1..MaxRuns}
        /\ Held(<<"cert", h>>) = Contents(<<"cert", h>>) \union {Missing, Torn}
        /\ Contents(<<"key", h>>) = {Key(k) : k \in 1..MaxRuns}
        /\ Held(<<"key", h>>) = Contents(<<"key", h>>) \union {Missing, Torn}
<1>1. \A h \in Holder : <<"cert", h>> # Secrets /\ <<"cert", h>> # Config
                          /\ <<"key", h>> # Secrets /\ <<"key", h>> # Config
  BY DEF Secrets, Config
<1>2. Secrets # Config
  BY Files
<1>3. \A h : <<"cert", h>>[1] = "cert" /\ <<"key", h>>[1] = "key"
  OBVIOUS
<1>3a. Secrets[1] = "secrets" /\ Config[1] = "config"
  BY DEF Secrets, Config
<1>4. Contents(Secrets) = {Missing, Default} /\ Contents(Config) = {Default}
  <2>1. Contents(Secrets) = {Missing, Default}
    BY <1>2, <1>3a DEF Contents
  <2>2. Contents(Config) = {Default}
    BY <1>2, <1>3a DEF Contents
  <2> QED
    BY <2>1, <2>2
<1>5. ASSUME NEW h \in Holder
      PROVE  /\ Contents(<<"cert", h>>) = {Cert(g, k) : g \in 1..MaxRuns, k \in 1..MaxRuns}
             /\ Contents(<<"key", h>>) = {Key(k) : k \in 1..MaxRuns}
  BY <1>1, <1>3 DEF Contents
<1> QED
  BY <1>1, <1>2, <1>4, <1>5 DEF Held

(* In the place of a key is a key, if anything.                            *)
LEMMA KeysHeld ==
    \A h \in Holder : \A x \in Held(<<"key", h>>) :
        x \in {Missing, Torn} \/ x \in {Key(k) : k \in 1..MaxRuns}
<1> SUFFICES ASSUME NEW h \in Holder, NEW x \in Held(<<"key", h>>)
             PROVE  x \in {Missing, Torn} \/ x \in {Key(k) : k \in 1..MaxRuns}
  OBVIOUS
<1> DEFINE keys == {Key(k) : k \in 1..MaxRuns}
<1>0. /\ <<"key", h>> # Secrets /\ <<"key", h>> # Config
      /\ <<"key", h>>[1] = "key" /\ <<"key", h>>[1] # "cert"
  BY DEF Secrets, Config
<1>1. Contents(<<"key", h>>) = keys
  BY <1>0 DEF Contents
<1>3. Held(<<"key", h>>) = Contents(<<"key", h>>) \union {Missing, Torn}
  BY <1>0 DEF Held
<1> HIDE DEF keys
<1>2. x \in {Missing, Torn} \/ x \in keys
  BY <1>1, <1>3
<1> QED
  BY <1>2 DEF keys

(* A write names a file and what may be in it.                             *)
LEMMA Writes ==
    /\ \A f \in File : \A x \in Contents(f) : <<f, x>> \in Write
    /\ \A w \in Write : w[1] \in File /\ w[2] \in Contents(w[1]) /\ w = <<w[1], w[2]>>
  BY DEF Write

(* What was drawn tells which run drew it; nothing else looks like it.     *)
LEMMA Drawn ==
    /\ \A k, l : Key(k) = Key(l) => k = l
    /\ \A k : Key(k)[2] = k /\ Key(k) # Missing /\ Key(k) # Torn
    /\ \A g, k : Cert(g, k)[1] = "cert" /\ Cert(g, k)[2] = g /\ Cert(g, k)[3] = k
    /\ Default # Missing /\ Edited # Missing /\ Default # Edited /\ Default # Torn
    /\ Missing # Torn
  BY DEF Key, Cert, Missing, Torn, Default, Edited

(* The first of the writes that are left, and the others.                  *)
LEMMA FirstWrite ==
    ASSUME TypeOK, NEW a \in Admin, todo[a] # <<>>
    PROVE  /\ op[a] # None /\ a \in Running
           /\ Head(todo[a]) = todo[a][1] /\ Head(todo[a]) \in Write /\ 1 \in DOMAIN todo[a]
           /\ DOMAIN todo[a] = 1..Len(todo[a]) /\ Len(todo[a]) \in Nat \ {0}
           /\ Tail(todo[a]) \in Seq(Write)
           /\ DOMAIN Tail(todo[a]) = 1..(Len(todo[a]) - 1)
           /\ \A j \in 1..(Len(todo[a]) - 1) : Tail(todo[a])[j] = todo[a][j + 1]
<1>1. todo[a] \in Seq(Write) /\ op[a] # None /\ a \in Running
  BY DEF TypeOK, Running
<1>2. DOMAIN todo[a] = 1..Len(todo[a]) /\ Len(todo[a]) \in Nat \ {0}
  BY <1>1, LenProperties, EmptySeq
<1>3. /\ Head(todo[a]) \in Write /\ Tail(todo[a]) \in Seq(Write)
      /\ Len(Tail(todo[a])) = Len(todo[a]) - 1
      /\ \A j \in 1..Len(Tail(todo[a])) : Tail(todo[a])[j] = todo[a][j + 1]
  BY <1>1, HeadTailProperties
<1>4. DOMAIN Tail(todo[a]) = 1..Len(Tail(todo[a]))
  BY <1>3, LenProperties
<1>5. Head(todo[a]) = todo[a][1]
  BY <1>1
<1> QED
  BY <1>1, <1>2, <1>3, <1>4, <1>5

(* Nothing is in a file at first.                                          *)
LEMMA MissingIsHeld == \A f \in File : Missing \in Held(f)
<1> SUFFICES ASSUME NEW f \in File
             PROVE  Missing \in Held(f)
  OBVIOUS
<1>1. f = Secrets \/ f \in {"cert", "key"} \X Holder \/ f = Config
  BY DEF File, Secrets, Config
<1>2. CASE f = Secrets
  BY <1>2, WhatIsHeld
<1>3. CASE f # Secrets
  BY <1>3 DEF Held
<1> QED
  BY <1>2, <1>3

(* A run that has nothing left to write.                                   *)
LEMMA NoWrites == DOMAIN <<>> = {} /\ <<>> \in Seq(Write)
<1>1. <<>> \in Seq(Write) /\ Len(<<>>) = 0
  BY EmptySeq
<1>2. DOMAIN <<>> = 1..Len(<<>>)
  BY <1>1, LenProperties
<1> QED
  BY <1>1, <1>2

(* In an empty state directory all is in place.                            *)
LEMMA InitInv == Init => IInv
<1> SUFFICES ASSUME Init
             PROVE  IInv
  OBVIOUS
<1>1. Running = {}
  BY DEF Init, Running
<1>2. \A a \in Admin : todo[a] = <<>> /\ DOMAIN todo[a] = {} /\ todo[a] \in Seq(Write)
  BY NoWrites DEF Init
<1>3. TypeOK
  <2>1. file \in [File -> UNION {Held(f) : f \in File}] /\ \A f \in File : file[f] \in Held(f)
    BY MissingIsHeld DEF Init
  <2>2. todo \in [Admin -> Seq(Write)] /\ \A a \in Admin : op[a] = None => todo[a] = <<>>
    BY <1>2 DEF Init
  <2>3. runs \in 0..MaxRuns /\ issued \subseteq Name
    BY RunsAssumption DEF Init
  <2>5. settled \in BOOLEAN
    BY DEF Init
  <2>4. op \in [Admin -> Run \union {None}] /\ half \in [Admin -> BOOLEAN]
        /\ met \in [Admin -> SUBSET Run]
    BY DEF Init
  <2> QED
    BY <2>1, <2>2, <2>3, <2>4, <2>5 DEF TypeOK
<1>4. AllMet /\ SettledInPlace /\ IssuedInPlace /\ SetupMends /\ IssuedFit
  BY <1>1 DEF Init, AllMet, SettledInPlace, IssuedInPlace, SetupMends, IssuedFit
<1>5. \A a \in Admin : op[a] = None /\ ~half[a]
  BY DEF Init
<1>6. WritesInPlace /\ SecretsInPlace /\ AloneInPlace
  BY <1>2, <1>5 DEF WritesInPlace, SecretsInPlace, AloneInPlace, Runs
<1> QED
  BY <1>3, <1>4, <1>6 DEF IInv

-----------------------------------------------------------------------------
(* What the steps of a run leave in place.                                 *)

(* A run is a setup or an emit-client, about one client.                   *)
LEMMA RunShape ==
    /\ \A r \in Run : r[1] \in {"setup", "emit"} /\ r[2] \in Name /\ r = <<r[1], r[2]>> /\ r # None
    /\ \A n \in Name : <<"setup", n>> \in Run /\ <<"emit", n>> \in Run
  BY DEF Run, None

(* Whoever is running runs one of these.                                   *)
LEMMA RunningShape ==
    ASSUME TypeOK, NEW a \in Running
    PROVE  a \in Admin /\ op[a] \in Run /\ op[a] # None
  BY DEF TypeOK, Running

(* A write to one file keeps the state directory what it is.               *)
LEMMA FileTyped ==
    ASSUME TypeOK, NEW f \in File, NEW x \in Held(f), file' = [file EXCEPT ![f] = x]
    PROVE  /\ file' \in [File -> UNION {Held(g) : g \in File}]
           /\ \A g \in File : file'[g] \in Held(g)
           /\ file'[f] = x /\ \A g \in File : g # f => file'[g] = file[g]
  BY DEF TypeOK

(* A run that has made its first write will still hold what it would.      *)
LEMMA TailHolds ==
    ASSUME TypeOK, NEW a \in Admin, todo[a] # <<>>, todo'[a] = Tail(todo[a]),
           NEW f, NEW x, WillHold(a, f, x),
           Head(todo[a])[1] = f => file'[f] = Head(todo[a])[2],
           Head(todo[a])[1] # f => file'[f] = file[f]
    PROVE  WillHold(a, f, x)'
<1> DEFINE t == todo[a]
           m == Len(t) - 1
<1>1. /\ Head(t) = t[1] /\ 1 \in DOMAIN t /\ DOMAIN t = 1..Len(t) /\ Len(t) \in Nat \ {0}
      /\ DOMAIN Tail(t) = 1..m /\ \A j \in 1..m : Tail(t)[j] = t[j + 1]
  BY FirstWrite
<1>2. \A j \in 1..m : j + 1 \in DOMAIN t
  BY <1>1
<1>3. \A j \in DOMAIN t : t[j][1] = f => t[j][2] = x
  BY DEF WillHold
<1>4. \A j \in DOMAIN todo'[a] : todo'[a][j][1] = f => todo'[a][j][2] = x
  BY <1>1, <1>2, <1>3
<1>5. file'[f] = x \/ \E j \in DOMAIN todo'[a] : todo'[a][j][1] = f
  <2>1. CASE t[1][1] = f
    BY <2>1, <1>1, <1>3
  <2>2. CASE t[1][1] # f /\ file[f] = x
    BY <2>2, <1>1
  <2>3. CASE t[1][1] # f /\ file[f] # x
    <3>1. PICK j \in DOMAIN t : t[j][1] = f
      BY <2>3 DEF WillHold
    <3>2. j # 1 /\ j - 1 \in 1..m /\ (j - 1) + 1 = j
      BY <3>1, <2>3, <1>1
    <3>3. Tail(t)[j - 1][1] = f
      BY <3>1, <3>2, <1>1
    <3> QED
      BY <3>2, <3>3, <1>1
  <2> QED
    BY <2>1, <2>2, <2>3
<1> HIDE DEF t
<1> QED
  BY <1>4, <1>5 DEF WillHold

(* The file it is writing is still among those it has to write.            *)
LEMMA TornHolds ==
    ASSUME TypeOK, NEW a \in Admin, todo[a] # <<>>, todo'[a] = todo[a],
           NEW f, NEW x, WillHold(a, f, x),
           Head(todo[a])[1] # f => file'[f] = file[f]
    PROVE  WillHold(a, f, x)'
<1>1. Head(todo[a]) = todo[a][1] /\ 1 \in DOMAIN todo[a]
  BY FirstWrite
<1>2. file'[f] = x \/ \E j \in DOMAIN todo[a] : todo[a][j][1] = f
  BY <1>1 DEF WillHold
<1> QED
  BY <1>2 DEF WillHold

(* Looking for secrets.txt changes the first write, or drops it.           *)
LEMMA LookedFor ==
    ASSUME TypeOK, NEW a \in Admin, todo[a] # <<>>,
           todo'[a] = <<<<Secrets, Default>>>> \o Tail(todo[a])
    PROVE  /\ todo'[a] \in Seq(Write) /\ DOMAIN todo'[a] = DOMAIN todo[a]
           /\ todo'[a][1] = <<Secrets, Default>> /\ Len(todo'[a]) = Len(todo[a])
           /\ \A j \in DOMAIN todo[a] : j # 1 => todo'[a][j] = todo[a][j]
<1> DEFINE w == <<Secrets, Default>>
           t == Tail(todo[a])
<1>1. /\ DOMAIN todo[a] = 1..Len(todo[a]) /\ Len(todo[a]) \in Nat \ {0} /\ t \in Seq(Write)
      /\ DOMAIN t = 1..(Len(todo[a]) - 1)
      /\ \A j \in 1..(Len(todo[a]) - 1) : t[j] = todo[a][j + 1]
  BY FirstWrite
<1>2. w \in Write
  BY Files, WhatIsHeld, Writes
<1>3. <<w>> \in Seq(Write) /\ Len(<<w>>) = 1 /\ <<w>>[1] = w
  BY <1>2
<1>4. Len(t) = Len(todo[a]) - 1
  BY <1>1, LenProperties
<1> HIDE DEF w, t
<1>5. /\ <<w>> \o t \in Seq(Write) /\ Len(<<w>> \o t) = Len(todo[a])
      /\ \A j \in 1..Len(todo[a]) : (<<w>> \o t)[j] = IF j <= 1 THEN <<w>>[j] ELSE t[j - 1]
  BY <1>1, <1>3, <1>4, ConcatProperties
<1>6. \A j \in DOMAIN todo[a] : j # 1 => t[j - 1] = todo[a][j]
  BY <1>1
<1>7. DOMAIN (<<w>> \o t) = 1..Len(todo[a])
  BY <1>5, LenProperties
<1>8. todo'[a] = <<w>> \o t
  BY DEF w, t
<1>9. todo'[a][1] = w
  BY <1>1, <1>3, <1>5, <1>8
<1>10. \A j \in DOMAIN todo[a] : j # 1 => todo'[a][j] = todo[a][j]
  BY <1>1, <1>5, <1>6, <1>8
<1> QED
  BY <1>1, <1>5, <1>7, <1>8, <1>9, <1>10 DEF w

(* a has found secrets.txt, or will come to it.                            *)
Due(a) == file[Secrets] # Missing \/ \E j \in DOMAIN todo[a] : todo[a][j][1] = Secrets

(* A write, or a look, by one run takes nothing from any other: a setup     *)
(* that has met nobody is alone, and after it runs write only the           *)
(* certificates of their own clients.                                      *)
LEMMA WriteKeeps ==
    ASSUME IInv, NEW a \in Admin, todo[a] # <<>>,
           UNCHANGED <<runs, op, met, settled, issued>>,
           \A f \in File : f # Head(todo[a])[1] => file'[f] = file[f],
           \A b \in Admin : b # a => todo'[b] = todo[b],
           \A f \in File : \A x : f # Secrets /\ WillHold(a, f, x) => WillHold(a, f, x)',
           Due(a) => Due(a)'
    PROVE  /\ AllMet' /\ AloneInPlace' /\ SettledInPlace' /\ IssuedInPlace'
           /\ SetupMends' /\ IssuedFit'
<1> DEFINE d == Head(todo[a])[1]
<1>1. TypeOK /\ AllMet /\ AloneInPlace /\ SettledInPlace /\ IssuedInPlace /\ SetupMends /\ IssuedFit
      /\ WritesInPlace
  BY DEF IInv
<1>2. a \in Running /\ op[a] \in Run /\ op[a] # None /\ Running' = Running
  BY <1>1, FirstWrite, RunningShape DEF Running
<1>3. AllMet'
  BY <1>1, <1>2 DEF AllMet
<1>4. ASSUME NEW f \in File, NEW x, f # Secrets, WillHold(a, f, x)
      PROVE  WillHold(a, f, x)'
  BY <1>4
<1>5. AloneInPlace'
  <2> SUFFICES ASSUME NEW b \in Admin, Runs(b, "setup"), met[b] = {}
               PROVE  /\ \E k \in 1..MaxRuns : \A h \in {"ca", "daemon", op[b][2]} : WillFit(b, h, k, k)'
                      /\ WillHold(b, Config, Default)'
                      /\ Due(b)'
    BY DEF AloneInPlace, Runs, Due
  <2>1. b = a
    BY <1>1, <1>2 DEF AllMet, Runs, Running
  <2>2. PICK k \in 1..MaxRuns : \A h \in {"ca", "daemon", op[a][2]} : WillFit(a, h, k, k)
    BY <1>1, <2>1 DEF AloneInPlace
  <2>3. \A h \in {"ca", "daemon", op[a][2]} :
            <<"cert", h>> \in File /\ <<"key", h>> \in File /\ <<"cert", h>> # Secrets /\ <<"key", h>> # Secrets
    BY <1>2, Files, RunShape
  <2>4. \A h \in {"ca", "daemon", op[a][2]} : WillFit(a, h, k, k)'
    BY <1>4, <2>2, <2>3 DEF WillFit
  <2>5. WillHold(a, Config, Default)'
    BY <1>1, <1>4, <2>1, Files DEF AloneInPlace
  <2>6. Due(a)'
    BY <1>1, <2>1 DEF AloneInPlace, Due
  <2> QED
    BY <2>1, <2>4, <2>5, <2>6
<1>6. ASSUME settled
      PROVE  /\ op[a] = <<"emit", op[a][2]>> /\ op[a][2] \in Name
             /\ d \in {<<"cert", op[a][2]>>, <<"key", op[a][2]>>}
  <2>1. Runs(a, "emit")
    BY <1>1, <1>2, <1>6 DEF SettledInPlace
  <2>2. Head(todo[a]) = todo[a][1] /\ 1 \in DOMAIN todo[a]
    BY <1>1, FirstWrite
  <2>3. d \in {"cert", "key"} \X {op[a][2]}
    BY <1>1, <2>1, <2>2 DEF WritesInPlace
  <2>4. op[a][1] = "emit" /\ op[a] = <<op[a][1], op[a][2]>> /\ op[a][2] \in Name
    BY <1>2, <2>1, RunShape DEF Runs
  <2> QED
    BY <2>3, <2>4
<1>7. ASSUME settled, NEW t \in {"cert", "key"}, NEW h \in Holder, h # op[a][2]
      PROVE  file'[<<t, h>>] = file[<<t, h>>]
  <2>1. <<t, h>> \in File
    BY <1>7, Files
  <2>2. <<t, h>> # d
    BY <1>6, <1>7, Files
  <2> QED
    BY <2>1, <2>2
<1>8. ASSUME settled, NEW h \in Holder, h # op[a][2], Fits(h)
      PROVE  Fits(h)'
  <2>1. op[a][2] # "ca"
    BY <1>6, <1>8, Files
  <2> QED
    BY <1>7, <1>8, <2>1, Files DEF Fits
<1>9. SettledInPlace'
  <2> SUFFICES ASSUME settled, NEW b \in Running
               PROVE  /\ Runs(b, "emit")
                      /\ op[b] \notin met[b] =>
                           \E k \in 1..MaxRuns : WillFit(b, op[b][2], file[<<"cert", "ca">>][3], k)'
    BY <1>2 DEF SettledInPlace, Runs
  <2>1. Runs(b, "emit")
    BY <1>1 DEF SettledInPlace
  <2>2. ASSUME op[b] \notin met[b]
        PROVE  \E k \in 1..MaxRuns : WillFit(b, op[b][2], file[<<"cert", "ca">>][3], k)'
    <3>1. file'[<<"cert", "ca">>] = file[<<"cert", "ca">>]
      BY <1>6, <1>7, Files
    <3>2. PICK k \in 1..MaxRuns : WillFit(b, op[b][2], file[<<"cert", "ca">>][3], k)
      BY <1>1, <2>2 DEF SettledInPlace
    <3>3. b \in Admin /\ op[b] \in Run /\ op[b][2] \in Name /\ op[b] = <<"emit", op[b][2]>>
      BY <1>1, <2>1, RunningShape, RunShape DEF Runs
    <3>4. /\ <<"cert", op[b][2]>> \in File /\ <<"cert", op[b][2]>> # Secrets
          /\ <<"key", op[b][2]>> \in File /\ <<"key", op[b][2]>> # Secrets
      BY <3>3, Files
    <3>5. CASE b = a
      BY <1>4, <3>1, <3>2, <3>4, <3>5 DEF WillFit
    <3>6. CASE b # a
      <4>1. op[a] # op[b]
        BY <1>1, <1>2, <2>2, <3>6 DEF AllMet
      <4>2. op[b][2] # op[a][2] /\ op[b][2] \in Holder
        BY <4>1, <1>6, <3>3, Files
      <4>3. file'[<<"cert", op[b][2]>>] = file[<<"cert", op[b][2]>>]
            /\ file'[<<"key", op[b][2]>>] = file[<<"key", op[b][2]>>]
        BY <1>7, <4>2
      <4>4. todo'[b] = todo[b] /\ op' = op
        BY <3>3, <3>6
      <4>5. ASSUME NEW t \in {"cert", "key"}, NEW x, WillHold(b, <<t, op[b][2]>>, x)
            PROVE  WillHold(b, <<t, op[b][2]>>, x)'
        BY <4>3, <4>4, <4>5 DEF WillHold
      <4> QED
        BY <3>1, <3>2, <4>5 DEF WillFit
    <3> QED
      BY <3>5, <3>6
  <2> QED
    BY <2>1, <2>2
<1>10. IssuedInPlace'
  BY <1>1, <1>2 DEF IssuedInPlace
<1>11. SetupMends'
  <2> SUFFICES ASSUME settled
               PROVE  /\ Fits("ca")' /\ Fits("daemon")'
                      /\ file'[Config] \notin {Missing, Torn} /\ file'[Secrets] # Missing
    BY DEF SetupMends
  <2>1. Fits("ca")' /\ Fits("daemon")'
    BY <1>1, <1>6, <1>8, Files DEF SetupMends
  <2>2. file'[Config] = file[Config] /\ file'[Secrets] = file[Secrets]
    BY <1>6, Files
  <2> QED
    BY <1>1, <2>1, <2>2 DEF SetupMends
<1>12. IssuedFit'
  <2> SUFFICES ASSUME NEW n \in issued
               PROVE  settled /\ Fits(n)'
    BY DEF IssuedFit
  <2>1. settled /\ Fits(n) /\ n \in Name
    BY <1>1 DEF IssuedFit, TypeOK
  <2>2. n # op[a][2]
    BY <1>1, <1>2, <1>6, <2>1 DEF IssuedInPlace
  <2> QED
    BY <1>8, <2>1, <2>2, Files
<1> QED
  BY <1>3, <1>5, <1>9, <1>10, <1>11, <1>12

-----------------------------------------------------------------------------
(* The steps of a run.                                                     *)

(* The writes that are left when the first is made.                        *)
LEMMA Shift ==
    ASSUME TypeOK, NEW a \in Admin, todo[a] # <<>>, todo'[a] = Tail(todo[a])
    PROVE  /\ todo'[a] \in Seq(Write)
           /\ \A j \in DOMAIN todo'[a] : j + 1 \in DOMAIN todo[a] /\ todo'[a][j] = todo[a][j + 1]
           /\ \A j \in DOMAIN todo[a] : j # 1 => /\ j - 1 \in DOMAIN todo'[a]
                                                /\ todo'[a][j - 1] = todo[a][j]
           /\ \A j \in DOMAIN todo'[a] : j + 1 # 1
           /\ \A i, j \in DOMAIN todo'[a] : i + 1 = j + 1 => i = j
  BY FirstWrite

(* The first write goes to a file, and may be made.                        *)
LEMMA FirstFits ==
    ASSUME TypeOK, NEW a \in Admin, todo[a] # <<>>
    PROVE  /\ Head(todo[a])[1] \in File /\ Head(todo[a])[2] \in Held(Head(todo[a])[1])
           /\ Head(todo[a])[1] # Secrets => Torn \in Held(Head(todo[a])[1])
<1>1. Head(todo[a])[1] \in File /\ Head(todo[a])[2] \in Contents(Head(todo[a])[1])
  BY FirstWrite, Writes
<1> QED
  BY <1>1 DEF Held

(* What is left in place of a run that has made its first write.           *)
LEMMA ShiftInPlace ==
    ASSUME IInv, NEW a \in Admin, todo[a] # <<>>, todo'[a] = Tail(todo[a]), op' = op
    PROVE  /\ Runs(a, "emit") =>
                \A j \in DOMAIN todo'[a] : todo'[a][j][1] \in {"cert", "key"} \X {op[a][2]}
           /\ \A i, j \in DOMAIN todo'[a] :
                todo'[a][i][1] = Secrets /\ todo'[a][j][1] = Secrets => i = j
           /\ Head(todo[a])[1] = Secrets => \A j \in DOMAIN todo'[a] : todo'[a][j][1] # Secrets
<1>1. TypeOK /\ WritesInPlace
  BY DEF IInv
<1>2. Head(todo[a]) = todo[a][1] /\ 1 \in DOMAIN todo[a]
  BY <1>1, FirstWrite
<1>3. \A i, j \in DOMAIN todo[a] : todo[a][i][1] = Secrets /\ todo[a][j][1] = Secrets => i = j
  BY <1>1 DEF WritesInPlace
<1>4. Runs(a, "emit") =>
        \A j \in DOMAIN todo[a] : todo[a][j][1] \in {"cert", "key"} \X {op[a][2]}
  BY <1>1 DEF WritesInPlace
<1>5. /\ \A j \in DOMAIN todo'[a] : j + 1 \in DOMAIN todo[a] /\ todo'[a][j] = todo[a][j + 1]
      /\ \A j \in DOMAIN todo'[a] : j + 1 # 1
      /\ \A i, j \in DOMAIN todo'[a] : i + 1 = j + 1 => i = j
  BY <1>1, Shift
<1> QED
  BY <1>2, <1>3, <1>4, <1>5

(* Only a setup has to write secrets.txt.                                  *)
LEMMA SecretsBySetup ==
    ASSUME IInv, NEW a \in Admin, NEW j \in DOMAIN todo[a], todo[a][j][1] = Secrets
    PROVE  a \in Running /\ \E n \in Name : op[a] = <<"setup", n>>
<1>1. TypeOK /\ WritesInPlace
  BY DEF IInv
<1>2. todo[a] # <<>>
  BY NoWrites
<1>3. a \in Running /\ op[a] # None /\ op[a] \in Run
  BY <1>1, <1>2, FirstWrite, RunningShape
<1>4. ~Runs(a, "emit")
  <2> SUFFICES ASSUME Runs(a, "emit")
               PROVE  FALSE
    OBVIOUS
  <2>1. Secrets \in {"cert", "key"} \X {op[a][2]}
    BY <1>1 DEF WritesInPlace
  <2> QED
    BY <2>1 DEF Secrets
<1>5. op[a][1] = "setup" /\ op[a] = <<op[a][1], op[a][2]>> /\ op[a][2] \in Name
  BY <1>3, <1>4, RunShape DEF Runs
<1> QED
  BY <1>3, <1>5

(* fs::write writes the file it has cut to nothing.                        *)
LEMMA CompletePreserves ==
    ASSUME IInv, NEW a \in Admin, Complete(a)
    PROVE  IInv'
<1>1. TypeOK /\ WritesInPlace /\ SecretsInPlace
  BY DEF IInv
<1>2. todo[a] # <<>> /\ Head(todo[a])[1] # Secrets
  BY <1>1 DEF Complete, WritesInPlace
<1>3. /\ todo'[a] = Tail(todo[a]) /\ \A b \in Admin : b # a => todo'[b] = todo[b]
      /\ ~half'[a] /\ \A b \in Admin : b # a => half'[b] = half[b]
      /\ UNCHANGED <<runs, op, met, settled, issued>>
  BY <1>1 DEF Complete, TypeOK
<1>4. /\ file' \in [File -> UNION {Held(g) : g \in File}] /\ \A g \in File : file'[g] \in Held(g)
      /\ file'[Head(todo[a])[1]] = Head(todo[a])[2]
      /\ \A g \in File : g # Head(todo[a])[1] => file'[g] = file[g]
  BY <1>1, <1>2, FirstFits, FileTyped DEF Complete
<1>5. TypeOK'
  <2>1. todo' \in [Admin -> Seq(Write)] /\ \A b \in Admin : op[b] = None => todo'[b] = <<>>
    BY <1>1, <1>2, <1>3, Shift, FirstWrite DEF TypeOK, Complete
  <2>2. half' \in [Admin -> BOOLEAN]
    BY <1>1 DEF TypeOK, Complete
  <2> QED
    BY <1>1, <1>3, <1>4, <2>1, <2>2 DEF TypeOK
<1>6. WritesInPlace'
  BY <1>1, <1>2, <1>3, ShiftInPlace DEF WritesInPlace, Runs
<1>7. SecretsInPlace'
  <2>1. file'[Secrets] = file[Secrets]
    BY <1>2, <1>4, Files
  <2>2. \A j \in DOMAIN todo'[a] : j + 1 \in DOMAIN todo[a] /\ todo'[a][j] = todo[a][j + 1]
    BY <1>1, <1>2, <1>3, Shift
  <2>3. ASSUME NEW b \in Admin, NEW j \in DOMAIN todo'[b], todo'[b][j] = <<Secrets, Default>>
        PROVE  \E i \in DOMAIN todo[b] : todo[b][i] = <<Secrets, Default>>
    <3>1. CASE b = a
      BY <3>1, <2>2, <2>3
    <3>2. CASE b # a
      BY <3>2, <1>3, <2>3
    <3> QED
      BY <3>1, <3>2
  <2> QED
    BY <1>1, <1>3, <2>1, <2>3 DEF SecretsInPlace
<1>8. \A f \in File : \A x : f # Secrets /\ WillHold(a, f, x) => WillHold(a, f, x)'
  BY <1>1, <1>2, <1>3, <1>4, TailHolds
<1>9. Due(a) => Due(a)'
  <2>1. file'[Secrets] = file[Secrets]
    BY <1>2, <1>4, Files
  <2>2. \A j \in DOMAIN todo[a] : j # 1 => /\ j - 1 \in DOMAIN todo'[a]
                                          /\ todo'[a][j - 1] = todo[a][j]
    BY <1>1, <1>2, <1>3, Shift
  <2>3. Head(todo[a]) = todo[a][1]
    BY <1>1, <1>2, FirstWrite
  <2> QED
    BY <1>2, <2>1, <2>2, <2>3 DEF Due
<1>10. /\ AllMet' /\ AloneInPlace' /\ SettledInPlace' /\ IssuedInPlace'
       /\ SetupMends' /\ IssuedFit'
  BY <1>2, <1>3, <1>4, <1>8, <1>9, WriteKeeps
<1> QED
  BY <1>5, <1>6, <1>7, <1>10 DEF IInv

(* fs::write cuts the file to nothing.                                     *)
LEMMA TruncatePreserves ==
    ASSUME IInv, NEW a \in Admin, Truncate(a)
    PROVE  IInv'
<1>1. TypeOK /\ WritesInPlace /\ SecretsInPlace
  BY DEF IInv
<1>2. todo[a] # <<>> /\ Head(todo[a])[1] # Secrets
  BY DEF Truncate
<1>3. /\ todo' = todo /\ half'[a] /\ \A b \in Admin : b # a => half'[b] = half[b]
      /\ UNCHANGED <<runs, op, met, settled, issued>>
  BY <1>1 DEF Truncate, TypeOK
<1>4. /\ file' \in [File -> UNION {Held(g) : g \in File}] /\ \A g \in File : file'[g] \in Held(g)
      /\ \A g \in File : g # Head(todo[a])[1] => file'[g] = file[g]
  BY <1>1, <1>2, FirstFits, FileTyped DEF Truncate
<1>5. TypeOK'
  <2>1. half' \in [Admin -> BOOLEAN]
    BY <1>1 DEF TypeOK, Truncate
  <2> QED
    BY <1>1, <1>3, <1>4, <2>1 DEF TypeOK
<1>6. WritesInPlace'
  BY <1>1, <1>2, <1>3 DEF WritesInPlace, Runs
<1>7. SecretsInPlace'
  BY <1>1, <1>2, <1>3, <1>4, Files DEF SecretsInPlace
<1>8. \A f \in File : \A x : f # Secrets /\ WillHold(a, f, x) => WillHold(a, f, x)'
  BY <1>1, <1>2, <1>3, <1>4, TornHolds
<1>9. Due(a) => Due(a)'
  BY <1>2, <1>3, <1>4, Files DEF Due
<1>10. /\ AllMet' /\ AloneInPlace' /\ SettledInPlace' /\ IssuedInPlace'
       /\ SetupMends' /\ IssuedFit'
  BY <1>2, <1>3, <1>4, <1>8, <1>9, WriteKeeps
<1> QED
  BY <1>5, <1>6, <1>7, <1>10 DEF IInv

(* A secrets.txt that is created over another is so by a setup that has met*)
(* the one that has created that.                                          *)
LEMMA CreateSecretsPreserves ==
    ASSUME IInv, NEW a \in Admin, CreateSecrets(a)
    PROVE  IInv'
<1>1. TypeOK /\ WritesInPlace /\ SecretsInPlace /\ AllMet
  BY DEF IInv
<1>2. todo[a] # <<>> /\ Head(todo[a])[1] = Secrets /\ Head(todo[a])[2] = Default
  BY DEF CreateSecrets
<1>3. /\ todo'[a] = Tail(todo[a]) /\ \A b \in Admin : b # a => todo'[b] = todo[b]
      /\ ~half[a] /\ UNCHANGED <<runs, op, half, met, settled, issued>>
  BY <1>1, <1>2 DEF CreateSecrets, TypeOK, WritesInPlace
<1>4. /\ file' \in [File -> UNION {Held(g) : g \in File}] /\ \A g \in File : file'[g] \in Held(g)
      /\ file'[Secrets] = Default
      /\ \A g \in File : g # Secrets => file'[g] = file[g]
  BY <1>1, <1>2, FirstFits, FileTyped DEF CreateSecrets
<1>5. TypeOK'
  <2>1. todo' \in [Admin -> Seq(Write)] /\ \A b \in Admin : op[b] = None => todo'[b] = <<>>
    BY <1>1, <1>2, <1>3, Shift, FirstWrite DEF TypeOK, CreateSecrets
  <2> QED
    BY <1>1, <1>3, <1>4, <2>1 DEF TypeOK
<1>6. WritesInPlace'
  BY <1>1, <1>2, <1>3, ShiftInPlace DEF WritesInPlace, Runs
<1>7. SecretsInPlace'
  <2> SUFFICES ASSUME NEW b \in Admin, NEW j \in DOMAIN todo'[b], todo'[b][j] = <<Secrets, Default>>
               PROVE  \E n \in Name : <<"setup", n>> \in met[b]
    BY <1>3 DEF SecretsInPlace
  <2>1. todo'[b][j][1] = Secrets
    OBVIOUS
  <2>2. b # a
    BY <1>2, <1>3, <2>1, ShiftInPlace
  <2>3. b \in Running
    BY <1>3, <2>1, <2>2, SecretsBySetup
  <2>4. a \in Running /\ \E n \in Name : op[a] = <<"setup", n>>
    BY <1>1, <1>2, FirstWrite, SecretsBySetup
  <2> QED
    BY <1>1, <2>2, <2>3, <2>4 DEF AllMet
<1>8. \A f \in File : \A x : f # Secrets /\ WillHold(a, f, x) => WillHold(a, f, x)'
  BY <1>1, <1>2, <1>3, <1>4, TailHolds
<1>9. Due(a)'
  BY <1>4, Drawn DEF Due
<1>10. /\ AllMet' /\ AloneInPlace' /\ SettledInPlace' /\ IssuedInPlace'
       /\ SetupMends' /\ IssuedFit'
  BY <1>2, <1>3, <1>4, <1>8, <1>9, WriteKeeps
<1> QED
  BY <1>5, <1>6, <1>7, <1>10 DEF IInv

(* secrets.txt is about to be created only if there was none.              *)
LEMMA LookForSecretsPreserves ==
    ASSUME IInv, NEW a \in Admin, LookForSecrets(a)
    PROVE  IInv'
<1>1. TypeOK /\ WritesInPlace /\ SecretsInPlace
  BY DEF IInv
<1>2. todo[a] # <<>> /\ Head(todo[a])[1] = Secrets
  BY DEF LookForSecrets, Look
<1>3. /\ \A b \in Admin : b # a => todo'[b] = todo[b]
      /\ UNCHANGED <<file, runs, op, half, met, settled, issued>>
  BY DEF LookForSecrets, TypeOK, IInv
<1>4. ~half[a] /\ op[a] # None
  BY <1>1, <1>2, FirstWrite DEF WritesInPlace
<1>5. Head(todo[a]) = todo[a][1] /\ 1 \in DOMAIN todo[a]
  BY <1>1, <1>2, FirstWrite
<1>6. /\ todo'[a] \in Seq(Write)
      /\ Runs(a, "emit") =>
           \A j \in DOMAIN todo'[a] : todo'[a][j][1] \in {"cert", "key"} \X {op[a][2]}
      /\ \A i, j \in DOMAIN todo'[a] :
           todo'[a][i][1] = Secrets /\ todo'[a][j][1] = Secrets => i = j
      /\ file[Secrets] # Missing => \A j \in DOMAIN todo'[a] : todo'[a][j][1] # Secrets
      /\ \A f \in File : \A x : f # Secrets /\ WillHold(a, f, x) => WillHold(a, f, x)'
      /\ Due(a)'
  <2>1. CASE file[Secrets] = Missing
    <3>1. todo'[a] = <<<<Secrets, Default>>>> \o Tail(todo[a])
      BY <1>1, <2>1 DEF LookForSecrets, TypeOK
    <3>2. /\ todo'[a] \in Seq(Write) /\ DOMAIN todo'[a] = DOMAIN todo[a]
          /\ todo'[a][1] = <<Secrets, Default>>
          /\ \A j \in DOMAIN todo[a] : j # 1 => todo'[a][j] = todo[a][j]
      BY <1>1, <1>2, <3>1, LookedFor
    <3>3. \A j \in DOMAIN todo[a] : todo'[a][j][1] = todo[a][j][1]
      BY <1>2, <1>5, <3>2
    <3>4. /\ Runs(a, "emit") =>
               \A j \in DOMAIN todo'[a] : todo'[a][j][1] \in {"cert", "key"} \X {op[a][2]}
          /\ \A i, j \in DOMAIN todo'[a] :
               todo'[a][i][1] = Secrets /\ todo'[a][j][1] = Secrets => i = j
      BY <1>1, <3>2, <3>3 DEF WritesInPlace
    <3>5. ASSUME NEW f \in File, NEW x, f # Secrets, WillHold(a, f, x)
          PROVE  WillHold(a, f, x)'
      BY <1>2, <1>3, <1>5, <3>2, <3>3, <3>5 DEF WillHold
    <3>6. Due(a)'
      BY <1>5, <3>2 DEF Due
    <3> QED
      BY <2>1, <3>2, <3>4, <3>5, <3>6
  <2>2. CASE file[Secrets] # Missing
    <3>1. Tail(todo[a]) \in Seq(Write)
      BY <1>1, <1>2, FirstWrite
    <3>2. todo'[a] = <<>> \o Tail(todo[a])
      BY <1>1, <2>2 DEF LookForSecrets, TypeOK
    <3>3. todo'[a] = Tail(todo[a])
      BY <3>1, <3>2
    <3>4. \A f \in File : \A x : f # Secrets /\ WillHold(a, f, x) => WillHold(a, f, x)'
      BY <1>1, <1>2, <1>3, <3>3, TailHolds
    <3>5. Due(a)'
      BY <1>3, <2>2 DEF Due
    <3> QED
      BY <1>2, <1>3, <3>1, <3>3, <3>4, <3>5, ShiftInPlace
  <2> QED
    BY <2>1, <2>2
<1>7. TypeOK'
  <2>1. todo' \in [Admin -> Seq(Write)] /\ \A b \in Admin : op[b] = None => todo'[b] = <<>>
    BY <1>1, <1>3, <1>4, <1>6 DEF TypeOK, LookForSecrets
  <2> QED
    BY <1>1, <1>3, <2>1 DEF TypeOK
<1>8. WritesInPlace'
  BY <1>1, <1>3, <1>4, <1>6 DEF WritesInPlace, Runs
<1>9. SecretsInPlace'
  BY <1>1, <1>3, <1>6 DEF SecretsInPlace
<1>10. /\ AllMet' /\ AloneInPlace' /\ SettledInPlace' /\ IssuedInPlace'
       /\ SetupMends' /\ IssuedFit'
  BY <1>2, <1>3, <1>6, WriteKeeps
<1> QED
  BY <1>7, <1>8, <1>9, <1>10 DEF IInv

(* Whoever leaves takes nothing from the runs that stay.                   *)
LEMMA LeaveKeeps ==
    ASSUME IInv, NEW a \in Admin, op[a] # None,
           op' = [op EXCEPT ![a] = None], met' = [met EXCEPT ![a] = {}],
           todo' \in [Admin -> Seq(Write)], todo'[a] = <<>>,
           \A b \in Admin : b # a => todo'[b] = todo[b],
           half' \in [Admin -> BOOLEAN], ~half'[a],
           \A b \in Admin : b # a => half'[b] = half[b],
           UNCHANGED <<file, runs>>,
           settled' \in BOOLEAN, issued' \subseteq Name
    PROVE  /\ TypeOK' /\ AllMet' /\ WritesInPlace' /\ SecretsInPlace' /\ AloneInPlace'
           /\ Running' = Running \ {a}
           /\ \A b \in Running' : /\ b \in Running /\ b # a
                                  /\ op'[b] = op[b] /\ met'[b] = met[b] /\ todo'[b] = todo[b]
<1>1. TypeOK /\ AllMet /\ WritesInPlace /\ SecretsInPlace /\ AloneInPlace
  BY DEF IInv
<1>2. /\ op'[a] = None /\ met'[a] = {} /\ DOMAIN todo'[a] = {}
      /\ \A b \in Admin : b # a => op'[b] = op[b] /\ met'[b] = met[b]
  BY <1>1, NoWrites DEF TypeOK
<1>3. TypeOK'
  <2>1. op' \in [Admin -> Run \union {None}] /\ met' \in [Admin -> SUBSET Run]
    BY <1>1 DEF TypeOK
  <2>2. \A b \in Admin : op'[b] = None => todo'[b] = <<>>
    BY <1>1, <1>2 DEF TypeOK
  <2> QED
    BY <1>1, <2>1, <2>2 DEF TypeOK
<1>4. /\ Running' = Running \ {a}
      /\ \A b \in Running' : /\ b \in Running /\ b # a
                             /\ op'[b] = op[b] /\ met'[b] = met[b] /\ todo'[b] = todo[b]
  BY <1>2 DEF Running
<1>5. AllMet'
  BY <1>1, <1>4 DEF AllMet
<1>6. WritesInPlace'
  BY <1>1, <1>2 DEF WritesInPlace, Runs
<1>7. SecretsInPlace'
  BY <1>1, <1>2 DEF SecretsInPlace
<1>8. AloneInPlace'
  <2> SUFFICES ASSUME NEW b \in Admin, Runs(b, "setup")', met'[b] = {}
               PROVE  /\ \E k \in 1..MaxRuns :
                            \A h \in {"ca", "daemon", op[b][2]} : WillFit(b, h, k, k)'
                      /\ WillHold(b, Config, Default)'
                      /\ Due(b)'
    BY <1>2 DEF AloneInPlace, Runs, Due
  <2>1. b # a /\ Runs(b, "setup") /\ met[b] = {} /\ todo'[b] = todo[b]
    BY <1>2 DEF Runs
  <2>2. \A f, x : WillHold(b, f, x) => WillHold(b, f, x)'
    BY <2>1 DEF WillHold
  <2>3. Due(b)'
    BY <1>1, <2>1 DEF AloneInPlace, Due
  <2>4. PICK k \in 1..MaxRuns : \A h \in {"ca", "daemon", op[b][2]} : WillFit(b, h, k, k)
    BY <1>1, <2>1 DEF AloneInPlace
  <2>5. \A h \in {"ca", "daemon", op[b][2]} : WillFit(b, h, k, k)'
    BY <2>2, <2>4 DEF WillFit
  <2>6. WillHold(b, Config, Default)'
    BY <1>1, <2>1, <2>2 DEF AloneInPlace
  <2> QED
    BY <2>3, <2>5, <2>6
<1> QED
  BY <1>3, <1>4, <1>5, <1>6, <1>7, <1>8

(* The files are as they were, so what was settled is.                     *)
LEMMA SettledKeeps ==
    ASSUME IInv, settled, UNCHANGED file,
           \A b \in Running' : /\ b \in Running
                               /\ op'[b] = op[b] /\ met'[b] = met[b] /\ todo'[b] = todo[b]
    PROVE  SettledInPlace'
<1> SUFFICES ASSUME NEW b \in Running'
             PROVE  /\ Runs(b, "emit")'
                    /\ op[b] \notin met[b] =>
                         \E k \in 1..MaxRuns : WillFit(b, op[b][2], file[<<"cert", "ca">>][3], k)'
  BY DEF SettledInPlace
<1>1. SettledInPlace /\ b \in Running /\ op'[b] = op[b] /\ todo'[b] = todo[b]
  BY DEF IInv
<1>2. Runs(b, "emit")'
  BY <1>1 DEF SettledInPlace, Runs
<1>3. ASSUME op[b] \notin met[b]
      PROVE  \E k \in 1..MaxRuns : WillFit(b, op[b][2], file[<<"cert", "ca">>][3], k)'
  <2>1. PICK k \in 1..MaxRuns : WillFit(b, op[b][2], file[<<"cert", "ca">>][3], k)
    BY <1>1, <1>3 DEF SettledInPlace
  <2>2. \A f, x : WillHold(b, f, x) => WillHold(b, f, x)'
    BY <1>1 DEF WillHold
  <2>3. WillFit(b, op[b][2], file[<<"cert", "ca">>][3], k)'
    BY <1>1, <2>1, <2>2 DEF WillFit
  <2> QED
    BY <2>3
<1> QED
  BY <1>2, <1>3

(* A run that breaks off settles nothing and unsettles nothing.            *)
LEMMA BreakOffPreserves ==
    ASSUME IInv, NEW a \in Admin, BreakOff(a)
    PROVE  IInv'
<1>1. TypeOK /\ SettledInPlace /\ IssuedInPlace /\ SetupMends /\ IssuedFit
  BY DEF IInv
<1>2. /\ op[a] # None /\ op' = [op EXCEPT ![a] = None] /\ met' = [met EXCEPT ![a] = {}]
      /\ todo' \in [Admin -> Seq(Write)] /\ todo'[a] = <<>>
      /\ \A b \in Admin : b # a => todo'[b] = todo[b]
      /\ UNCHANGED <<file, runs, settled, issued>>
  BY <1>1, NoWrites DEF BreakOff, TypeOK
<1>3. /\ half' \in [Admin -> BOOLEAN] /\ ~half'[a]
      /\ \A b \in Admin : b # a => half'[b] = half[b]
  BY <1>1 DEF BreakOff, TypeOK
<1>4. settled' \in BOOLEAN /\ issued' \subseteq Name
  BY <1>1, <1>2 DEF TypeOK
<1>5. /\ TypeOK' /\ AllMet' /\ WritesInPlace' /\ SecretsInPlace' /\ AloneInPlace'
      /\ \A b \in Running' : /\ b \in Running
                             /\ op'[b] = op[b] /\ met'[b] = met[b] /\ todo'[b] = todo[b]
  BY <1>2, <1>3, <1>4, LeaveKeeps
<1>6. SettledInPlace'
  <2>1. CASE settled
    BY <2>1, <1>2, <1>5, SettledKeeps
  <2>2. CASE ~settled
    BY <2>2, <1>2 DEF SettledInPlace
  <2> QED
    BY <2>1, <2>2
<1>7. IssuedInPlace'
  BY <1>1, <1>2, <1>5 DEF IssuedInPlace
<1>8. SetupMends' /\ IssuedFit'
  BY <1>1, <1>2 DEF SetupMends, IssuedFit, Fits
<1> QED
  BY <1>5, <1>6, <1>7, <1>8 DEF IInv

(* With nothing left to write, what a run was to write is in the files.    *)
LEMMA NothingLeft ==
    ASSUME NEW a \in Admin, todo[a] = <<>>
    PROVE  /\ \A f, x : WillHold(a, f, x) => file[f] = x
           /\ \A h, g, k : WillFit(a, h, g, k) =>
                file[<<"cert", h>>] = Cert(g, k) /\ file[<<"key", h>>] = Key(k)
<1>1. \A f, x : WillHold(a, f, x) => file[f] = x
  BY NoWrites DEF WillHold
<1> QED
  BY <1>1 DEF WillFit

(* A setup that ends well, having met nobody, has done all that it had to; *)
(* an emit-client that met none for the same client has issued what fits.  *)
LEMMA FinishPreserves ==
    ASSUME IInv, NEW a \in Admin, Finish(a)
    PROVE  IInv'
<1>1. /\ TypeOK /\ AllMet /\ WritesInPlace /\ AloneInPlace /\ SettledInPlace /\ IssuedInPlace
      /\ SetupMends /\ IssuedFit
  BY DEF IInv
<1>2. /\ op[a] # None /\ op' = [op EXCEPT ![a] = None] /\ met' = [met EXCEPT ![a] = {}]
      /\ todo[a] = <<>> /\ todo' \in [Admin -> Seq(Write)] /\ todo'[a] = <<>>
      /\ \A b \in Admin : b # a => todo'[b] = todo[b]
      /\ UNCHANGED <<file, runs>>
  BY <1>1 DEF Finish, TypeOK
<1>3. /\ half' \in [Admin -> BOOLEAN] /\ ~half'[a]
      /\ \A b \in Admin : b # a => half'[b] = half[b]
  BY <1>1, <1>2 DEF Finish, TypeOK, WritesInPlace
<1>4. a \in Running /\ op[a] = <<op[a][1], op[a][2]>> /\ op[a][1] \in {"setup", "emit"} /\ op[a][2] \in Name
  BY <1>1, <1>2, RunningShape, RunShape DEF Running
<1>5. settled' \in BOOLEAN /\ issued' \subseteq Name
  <2>1. settled' \in BOOLEAN
    BY <1>1 DEF Finish, TypeOK
  <2>2. issued' \subseteq Name
    BY <1>1, <1>4 DEF Finish, TypeOK
  <2> QED
    BY <2>1, <2>2
<1>6. /\ TypeOK' /\ AllMet' /\ WritesInPlace' /\ SecretsInPlace' /\ AloneInPlace'
      /\ \A b \in Running' : /\ b \in Running /\ b # a
                             /\ op'[b] = op[b] /\ met'[b] = met[b] /\ todo'[b] = todo[b]
  BY <1>2, <1>3, <1>5, LeaveKeeps
<1>7. /\ \A f, x : WillHold(a, f, x) => file[f] = x
      /\ \A h, g, k : WillFit(a, h, g, k) =>
           file[<<"cert", h>>] = Cert(g, k) /\ file[<<"key", h>>] = Key(k)
  BY <1>2, NothingLeft
<1>8. CASE op[a][1] = "setup" /\ met[a] = {}
  <2>1. settled' /\ Running' = {} /\ issued' \subseteq issued \union {op[a][2]}
    BY <1>1, <1>4, <1>6, <1>8 DEF Finish, AllMet
  <2>2. Runs(a, "setup")
    BY <1>2, <1>8 DEF Runs
  <2>3. PICK k \in 1..MaxRuns : \A h \in {"ca", "daemon", op[a][2]} : WillFit(a, h, k, k)
    BY <1>1, <1>8, <2>2 DEF AloneInPlace
  <2>4. \A h \in {"ca", "daemon", op[a][2]} : Fits(h)
    <3>1. \A h \in {"ca", "daemon", op[a][2]} :
            file[<<"cert", h>>] = Cert(k, k) /\ file[<<"key", h>>] = Key(k)
      BY <1>7, <2>3
    <3>2. file[<<"cert", "ca">>] = Cert(k, k)
      BY <3>1
    <3> QED
      BY <3>1, <3>2, Drawn DEF Fits
  <2>5. file[Config] = Default
    BY <1>1, <1>7, <1>8, <2>2 DEF AloneInPlace
  <2>6. file[Secrets] # Missing
    BY <1>1, <1>2, <1>8, <2>2, NoWrites DEF AloneInPlace
  <2>7. SetupMends'
    BY <1>2, <2>4, <2>5, <2>6, Drawn DEF SetupMends, Fits
  <2>8. IssuedFit'
    BY <1>1, <1>2, <2>1, <2>4 DEF IssuedFit, Fits
  <2>9. SettledInPlace' /\ IssuedInPlace'
    BY <2>1 DEF SettledInPlace, IssuedInPlace
  <2> QED
    BY <1>6, <2>7, <2>8, <2>9 DEF IInv
<1>9. CASE op[a][1] = "setup" /\ met[a] # {}
  <2>1. ~settled' /\ issued' = issued
    BY <1>9 DEF Finish
  <2>2. ~settled
    BY <1>1, <1>4, <1>9 DEF SettledInPlace, Runs
  <2>3. issued' = {}
    BY <1>1, <2>1, <2>2 DEF IssuedFit
  <2> QED
    BY <1>6, <2>1, <2>3 DEF IInv, SettledInPlace, IssuedInPlace, SetupMends, IssuedFit
<1>10. CASE op[a][1] = "emit"
  <2>1. settled' = settled
    BY <1>10 DEF Finish
  <2>2. SettledInPlace'
    <3>1. CASE settled
      BY <3>1, <1>2, <1>6, SettledKeeps
    <3>2. CASE ~settled
      BY <3>2, <2>1 DEF SettledInPlace
    <3> QED
      BY <3>1, <3>2
  <2>3. SetupMends'
    BY <1>1, <1>2, <2>1 DEF SetupMends, Fits
  <2>4. CASE issued' = issued
    BY <1>1, <1>2, <1>6, <2>1, <2>2, <2>3, <2>4 DEF IInv, IssuedInPlace, IssuedFit, Fits
  <2>5. CASE issued' # issued
    <3>1. settled /\ op[a] \notin met[a] /\ issued' = issued \union {op[a][2]}
      BY <1>4, <1>10, <2>1, <2>5 DEF Finish
    <3>2. PICK k \in 1..MaxRuns : WillFit(a, op[a][2], file[<<"cert", "ca">>][3], k)
      BY <1>1, <1>4, <3>1 DEF SettledInPlace
    <3>3. Fits(op[a][2])
      BY <1>7, <3>2, Drawn DEF Fits
    <3>4. IssuedFit'
      BY <1>1, <1>2, <2>1, <3>1, <3>3 DEF IssuedFit, Fits
    <3>5. IssuedInPlace'
      BY <1>1, <1>4, <1>6, <1>10, <3>1 DEF IssuedInPlace, AllMet
    <3> QED
      BY <1>6, <2>2, <2>3, <3>4, <3>5 DEF IInv
  <2> QED
    BY <2>4, <2>5
<1> QED
  BY <1>4, <1>8, <1>9, <1>10

(* Entering secrets leaves every other file alone.                         *)
LEMMA EnterSecretsPreserves ==
    ASSUME IInv, EnterSecrets
    PROVE  IInv'
<1>1. /\ TypeOK /\ AllMet /\ WritesInPlace /\ SecretsInPlace /\ AloneInPlace /\ SettledInPlace
      /\ IssuedInPlace /\ SetupMends /\ IssuedFit
  BY DEF IInv
<1>2. /\ file[Secrets] # Missing /\ file'[Secrets] # Missing
      /\ file' \in [File -> UNION {Held(g) : g \in File}] /\ \A g \in File : file'[g] \in Held(g)
      /\ \A g \in File : g # Secrets => file'[g] = file[g]
      /\ UNCHANGED <<runs, op, todo, half, met, settled, issued>>
  BY <1>1, Files, WhatIsHeld, Drawn, FileTyped DEF EnterSecrets
<1>3. TypeOK' /\ AllMet' /\ WritesInPlace' /\ SecretsInPlace' /\ IssuedInPlace'
  <2>1. TypeOK'
    BY <1>1, <1>2 DEF TypeOK
  <2>2. AllMet' /\ IssuedInPlace'
    BY <1>1, <1>2 DEF AllMet, IssuedInPlace, Running
  <2>3. WritesInPlace' /\ SecretsInPlace'
    BY <1>1, <1>2 DEF WritesInPlace, SecretsInPlace, Runs
  <2> QED
    BY <2>1, <2>2, <2>3
<1>4. \A t \in {"cert", "key"}, h \in Holder :
        /\ <<t, h>> \in File /\ <<t, h>> # Secrets /\ file'[<<t, h>>] = file[<<t, h>>]
        /\ \A a \in Admin : \A x : WillHold(a, <<t, h>>, x) => WillHold(a, <<t, h>>, x)'
  <2> SUFFICES ASSUME NEW t \in {"cert", "key"}, NEW h \in Holder
               PROVE  /\ <<t, h>> \in File /\ <<t, h>> # Secrets /\ file'[<<t, h>>] = file[<<t, h>>]
                      /\ \A a \in Admin : \A x : WillHold(a, <<t, h>>, x) => WillHold(a, <<t, h>>, x)'
    OBVIOUS
  <2>1. <<t, h>> \in File /\ <<t, h>> # Secrets
    BY Files
  <2>2. file'[<<t, h>>] = file[<<t, h>>]
    BY <1>2, <2>1
  <2> QED
    BY <1>2, <2>1, <2>2 DEF WillHold
<1>5. \A a \in Admin, h \in Holder : \A g, k : WillFit(a, h, g, k) => WillFit(a, h, g, k)'
  BY <1>4 DEF WillFit
<1>6. file'[Config] = file[Config]
      /\ \A a \in Admin : WillHold(a, Config, Default) => WillHold(a, Config, Default)'
  <2>1. file'[Config] = file[Config]
    BY <1>2, Files
  <2> QED
    BY <1>2, <2>1 DEF WillHold
<1>7. AloneInPlace'
  <2> SUFFICES ASSUME NEW a \in Admin, Runs(a, "setup"), met[a] = {}
               PROVE  /\ \E k \in 1..MaxRuns :
                            \A h \in {"ca", "daemon", op[a][2]} : WillFit(a, h, k, k)'
                      /\ WillHold(a, Config, Default)'
    BY <1>2 DEF AloneInPlace, Runs
  <2>1. PICK k \in 1..MaxRuns : \A h \in {"ca", "daemon", op[a][2]} : WillFit(a, h, k, k)
    BY <1>1 DEF AloneInPlace
  <2>2. {"ca", "daemon", op[a][2]} \subseteq Holder
    BY <1>1, RunningShape, RunShape, Files DEF Runs, Running
  <2>3. \A h \in {"ca", "daemon", op[a][2]} : WillFit(a, h, k, k)'
    BY <1>5, <2>1, <2>2
  <2>4. WillHold(a, Config, Default)'
    BY <1>1, <1>6 DEF AloneInPlace
  <2> QED
    BY <2>3, <2>4
<1>8. SettledInPlace'
  <2> SUFFICES ASSUME settled, NEW a \in Running
               PROVE  /\ Runs(a, "emit")
                      /\ op[a] \notin met[a] =>
                           \E k \in 1..MaxRuns : WillFit(a, op[a][2], file[<<"cert", "ca">>][3], k)'
    BY <1>2 DEF SettledInPlace, Runs, Running
  <2>1. Runs(a, "emit")
    BY <1>1 DEF SettledInPlace
  <2>2. ASSUME op[a] \notin met[a]
        PROVE  \E k \in 1..MaxRuns : WillFit(a, op[a][2], file[<<"cert", "ca">>][3], k)'
    <3>1. PICK k \in 1..MaxRuns : WillFit(a, op[a][2], file[<<"cert", "ca">>][3], k)
      BY <1>1, <2>2 DEF SettledInPlace
    <3>2. a \in Admin /\ op[a][2] \in Holder /\ file'[<<"cert", "ca">>] = file[<<"cert", "ca">>]
      BY <1>1, <1>4, RunningShape, RunShape, Files
    <3>3. WillFit(a, op[a][2], file[<<"cert", "ca">>][3], k)'
      BY <1>2, <1>5, <3>1, <3>2
    <3> QED
      BY <3>3
  <2> QED
    BY <2>1, <2>2
<1>9. \A h \in Holder : Fits(h) => Fits(h)'
  BY <1>4, Files DEF Fits
<1>10. SetupMends' /\ IssuedFit'
  <2>1. SetupMends'
    BY <1>1, <1>2, <1>6, <1>9, Files DEF SetupMends
  <2>2. IssuedFit'
    BY <1>1, <1>2, <1>9, Files DEF IssuedFit, TypeOK
  <2> QED
    BY <2>1, <2>2
<1> QED
  BY <1>3, <1>7, <1>8, <1>10 DEF IInv

(* Whoever begins takes nothing from the runs that are there.              *)
LEMMA BeginKeeps ==
    ASSUME IInv, NEW a \in Admin, NEW r \in Run, NEW w \in Seq(Write), Begin(a, r, w),
           r[1] = "emit" => \A j \in DOMAIN w : w[j][1] \in {"cert", "key"} \X {r[2]},
           \A i, j \in DOMAIN w : w[i][1] = Secrets /\ w[j][1] = Secrets => i = j,
           \A j \in DOMAIN w : w[j] # <<Secrets, Default>>,
           settled' \in BOOLEAN, issued' \subseteq Name
    PROVE  /\ TypeOK' /\ AllMet' /\ WritesInPlace' /\ SecretsInPlace'
           /\ a \notin Running /\ Running' = Running \union {a}
           /\ op'[a] = r /\ todo'[a] = w /\ runs + 1 \in 1..MaxRuns
           /\ \A b \in Running : /\ b # a /\ op'[b] = op[b] /\ todo'[b] = todo[b]
                                 /\ met'[b] = met[b] \union {r}
           /\ \A b \in Admin : Runs(b, "setup")' /\ met'[b] = {} => b = a
<1>1. TypeOK /\ AllMet /\ WritesInPlace /\ SecretsInPlace
  BY DEF IInv
<1>2. /\ op'[a] = r /\ todo'[a] = w /\ r # None
      /\ \A b \in Admin : b # a => op'[b] = op[b] /\ todo'[b] = todo[b]
      /\ UNCHANGED <<file, half>> /\ runs' = runs + 1
  BY <1>1, RunShape DEF Begin, TypeOK
<1>3. todo[a] = <<>> /\ ~half[a]
  BY <1>1 DEF Begin, TypeOK, WritesInPlace
<1>4. a \notin Running /\ Running' = Running \union {a}
  BY <1>2 DEF Begin, Running
<1>5. /\ met'[a] = {op[c] : c \in Running}
      /\ \A b \in Running : b # a /\ met'[b] = met[b] \union {r}
      /\ \A b \in Admin : b # a /\ b \notin Running => met'[b] = {}
  BY <1>4 DEF Begin, Running
<1>6. runs + 1 \in 1..MaxRuns
  BY <1>1, RunsAssumption DEF Begin, TypeOK
<1>7. TypeOK'
  <2>1. runs' \in 0..MaxRuns
    BY <1>2, <1>6
  <2>2. op' \in [Admin -> Run \union {None}] /\ todo' \in [Admin -> Seq(Write)]
    BY <1>1 DEF Begin, TypeOK
  <2>3. \A b \in Admin : op'[b] = None => todo'[b] = <<>>
    BY <1>1, <1>2 DEF TypeOK
  <2>4. met' \in [Admin -> SUBSET Run]
    <3>1. \A c \in Running : op[c] \in Run /\ c \in Admin
      BY <1>1, RunningShape
    <3>2. {op[c] : c \in Running} \subseteq Run
      BY <3>1
    <3>3. \A b \in Running : met[b] \union {r} \subseteq Run
      BY <1>1, <3>1 DEF TypeOK
    <3> QED
      BY <3>2, <3>3 DEF Begin
  <2> QED
    BY <1>1, <1>2, <2>1, <2>2, <2>3, <2>4 DEF TypeOK
<1>8. AllMet'
  <2> SUFFICES ASSUME NEW b \in Running', NEW c \in Running', b # c
               PROVE  op'[c] \in met'[b]
    BY DEF AllMet
  <2>1. CASE b = a
    BY <2>1, <1>2, <1>4, <1>5 DEF Running
  <2>2. CASE b # a /\ c = a
    BY <2>2, <1>2, <1>4, <1>5
  <2>3. CASE b # a /\ c # a
    BY <2>3, <1>1, <1>2, <1>4, <1>5 DEF AllMet, Running
  <2> QED
    BY <2>1, <2>2, <2>3
<1>9. WritesInPlace'
  BY <1>1, <1>2, <1>3 DEF WritesInPlace, Runs
<1>10. SecretsInPlace'
  <2> SUFFICES ASSUME NEW b \in Admin, file[Secrets] # Missing,
                      NEW j \in DOMAIN todo'[b], todo'[b][j] = <<Secrets, Default>>
               PROVE  \E n \in Name : <<"setup", n>> \in met'[b]
    BY <1>2 DEF SecretsInPlace
  <2>1. b # a
    BY <1>2
  <2>2. todo[b] # <<>> /\ todo'[b] = todo[b]
    BY <1>2, <2>1, NoWrites
  <2>3. b \in Running
    BY <1>1, <2>2, FirstWrite
  <2> QED
    BY <1>1, <1>5, <2>2, <2>3 DEF SecretsInPlace
<1>11. \A b \in Admin : Runs(b, "setup")' /\ met'[b] = {} => b = a
  BY <1>2, <1>5 DEF Runs, Running
<1>12. \A b \in Running : b # a /\ op'[b] = op[b] /\ todo'[b] = todo[b]
  BY <1>2, <1>4 DEF Running
<1> QED
  BY <1>2, <1>4, <1>5, <1>6, <1>7, <1>8, <1>9, <1>10, <1>11, <1>12

(* The eight writes of a setup.                                            *)
LEMMA SetupWritesShape ==
    ASSUME TypeOK, NEW n \in Name, runs + 1 \in 1..MaxRuns
    PROVE  LET w == SetupWrites(n)
               c == Cert(runs + 1, runs + 1)
               k == Key(runs + 1)
           IN  /\ w \in Seq(Write) /\ DOMAIN w = 1..8
               /\ w[1][1] = <<"cert", "ca">> /\ w[1][2] = c
               /\ w[2][1] = <<"key", "ca">> /\ w[2][2] = k
               /\ w[3][1] = <<"cert", "daemon">> /\ w[3][2] = c
               /\ w[4][1] = <<"key", "daemon">> /\ w[4][2] = k
               /\ w[5][1] = <<"cert", n>> /\ w[5][2] = c
               /\ w[6][1] = <<"key", n>> /\ w[6][2] = k
               /\ w[7][1] = Secrets /\ w[7][2] = Missing
               /\ w[8][1] = Config /\ w[8][2] = Default
<1> DEFINE c == Cert(runs + 1, runs + 1)
           k == Key(runs + 1)
           w == SetupWrites(n)
<1>1. \A h \in Holder : c \in Contents(<<"cert", h>>) /\ k \in Contents(<<"key", h>>)
  BY WhatIsHeld
<1>2. /\ <<<<"cert", "ca">>, c>> \in Write /\ <<<<"key", "ca">>, k>> \in Write
      /\ <<<<"cert", "daemon">>, c>> \in Write /\ <<<<"key", "daemon">>, k>> \in Write
      /\ <<<<"cert", n>>, c>> \in Write /\ <<<<"key", n>>, k>> \in Write
      /\ <<Secrets, Missing>> \in Write /\ <<Config, Default>> \in Write
  BY <1>1, Files, WhatIsHeld, Writes
<1>3. w = << <<<<"cert", "ca">>, c>>, <<<<"key", "ca">>, k>>,
             <<<<"cert", "daemon">>, c>>, <<<<"key", "daemon">>, k>>,
             <<<<"cert", n>>, c>>, <<<<"key", n>>, k>>,
             <<Secrets, Missing>>, <<Config, Default>> >>
  BY DEF SetupWrites, Look
<1> HIDE DEF c, k, w
<1>4. w \in Seq(Write) /\ DOMAIN w = 1..8
  BY <1>2, <1>3
<1>5. /\ w[1] = <<<<"cert", "ca">>, c>> /\ w[2] = <<<<"key", "ca">>, k>>
      /\ w[3] = <<<<"cert", "daemon">>, c>> /\ w[4] = <<<<"key", "daemon">>, k>>
      /\ w[5] = <<<<"cert", n>>, c>> /\ w[6] = <<<<"key", n>>, k>>
      /\ w[7] = <<Secrets, Missing>> /\ w[8] = <<Config, Default>>
  BY <1>3
<1>6. /\ w[1][1] = <<"cert", "ca">> /\ w[1][2] = c
      /\ w[2][1] = <<"key", "ca">> /\ w[2][2] = k
      /\ w[3][1] = <<"cert", "daemon">> /\ w[3][2] = c
      /\ w[4][1] = <<"key", "daemon">> /\ w[4][2] = k
      /\ w[5][1] = <<"cert", n>> /\ w[5][2] = c
      /\ w[6][1] = <<"key", n>> /\ w[6][2] = k
      /\ w[7][1] = Secrets /\ w[7][2] = Missing
      /\ w[8][1] = Config /\ w[8][2] = Default
  BY <1>5
<1> QED
  BY <1>4, <1>6 DEF c, k, w

(* A setup that begins settles nothing yet, and has everything to write.   *)
LEMMA BeginSetupPreserves ==
    ASSUME IInv, NEW a \in Admin, NEW n \in Name, BeginSetup(a, n)
    PROVE  IInv'
<1>0. PICK w, m, r : w = SetupWrites(n) /\ m = runs + 1 /\ r = <<"setup", n>>
  OBVIOUS
<1>1. TypeOK /\ Begin(a, r, w) /\ settled' = FALSE /\ issued' = {} /\ UNCHANGED file
  BY <1>0 DEF IInv, BeginSetup, Begin
<1>2. r \in Run /\ r[1] = "setup" /\ r[2] = n
  BY <1>0, RunShape
<1>3. m \in 1..MaxRuns
  BY <1>0, <1>1, RunsAssumption DEF Begin, TypeOK
<1>4. /\ w \in Seq(Write) /\ DOMAIN w = 1..8
      /\ w[1][1] = <<"cert", "ca">> /\ w[1][2] = Cert(m, m)
      /\ w[2][1] = <<"key", "ca">> /\ w[2][2] = Key(m)
      /\ w[3][1] = <<"cert", "daemon">> /\ w[3][2] = Cert(m, m)
      /\ w[4][1] = <<"key", "daemon">> /\ w[4][2] = Key(m)
      /\ w[5][1] = <<"cert", n>> /\ w[5][2] = Cert(m, m)
      /\ w[6][1] = <<"key", n>> /\ w[6][2] = Key(m)
      /\ w[7][1] = Secrets /\ w[7][2] = Missing
      /\ w[8][1] = Config /\ w[8][2] = Default
  BY <1>0, <1>1, <1>3, SetupWritesShape
<1>5. settled' \in BOOLEAN /\ issued' \subseteq Name
  BY <1>1
<1>6. /\ \A h : /\ <<"cert", h>> # Secrets /\ <<"cert", h>> # Config
                /\ <<"key", h>> # Secrets /\ <<"key", h>> # Config
      /\ \A h, g : <<"cert", h>> # <<"key", g>>
      /\ Secrets # Config
  BY Files DEF Secrets, Config
<1>13. \A i \in DOMAIN w : i = 1 \/ i = 2 \/ i = 3 \/ i = 4 \/ i = 5 \/ i = 6 \/ i = 7 \/ i = 8
  BY <1>4
<1>11. \A i \in DOMAIN w : i # 7 => w[i][1] # Secrets
  <2>1. /\ w[1][1] # Secrets /\ w[2][1] # Secrets /\ w[3][1] # Secrets /\ w[4][1] # Secrets
        /\ w[5][1] # Secrets /\ w[6][1] # Secrets /\ w[8][1] # Secrets
    BY <1>4, <1>6
  <2> QED
    BY <1>13, <2>1
<1>12. \A i, j \in DOMAIN w : w[i][1] = Secrets /\ w[j][1] = Secrets => i = j
  BY <1>11
<1>7. \A j \in DOMAIN w : w[j] # <<Secrets, Default>>
  <2> SUFFICES ASSUME NEW j \in DOMAIN w, w[j] = <<Secrets, Default>>
               PROVE  FALSE
    OBVIOUS
  <2>1. w[j][1] = Secrets /\ w[j][2] = Default
    OBVIOUS
  <2> QED
    BY <1>4, <1>11, <2>1, Drawn
<1>8. /\ TypeOK' /\ AllMet' /\ WritesInPlace' /\ SecretsInPlace'
      /\ op'[a] = r /\ todo'[a] = w
      /\ \A b \in Admin : Runs(b, "setup")' /\ met'[b] = {} => b = a
  <2>1. r[1] = "emit" => \A j \in DOMAIN w : w[j][1] \in {"cert", "key"} \X {r[2]}
    BY <1>2
  <2>2. w \in Seq(Write) /\ Begin(a, r, w)
    BY <1>1, <1>4
  <2> QED
    BY <1>2, <1>5, <1>7, <1>12, <2>1, <2>2, BeginKeeps
<1>9. AloneInPlace'
  <2>1. ASSUME NEW h \in {"ca", "daemon", n}
        PROVE  WillFit(a, h, m, m)'
    <3>1. \A j \in DOMAIN w : /\ w[j][1] = <<"cert", h>> => w[j][2] = Cert(m, m)
                              /\ w[j][1] = <<"key", h>> => w[j][2] = Key(m)
      <4>1. \A j \in {1, 3, 5} : w[j][2] = Cert(m, m) /\ w[j][1] # <<"key", h>>
        BY <1>4, <1>6
      <4>2. \A j \in {2, 4, 6} : w[j][2] = Key(m) /\ w[j][1] # <<"cert", h>>
        BY <1>4, <1>6
      <4>3. \A j \in {7, 8} : w[j][1] # <<"cert", h>> /\ w[j][1] # <<"key", h>>
        BY <1>4, <1>6
      <4>4. \A j \in DOMAIN w : j \in {1, 3, 5} \/ j \in {2, 4, 6} \/ j \in {7, 8}
        BY <1>13
      <4> QED
        BY <4>1, <4>2, <4>3, <4>4
    <3>2. \E i, j \in DOMAIN w : w[i][1] = <<"cert", h>> /\ w[j][1] = <<"key", h>>
      <4>1. CASE h = "ca"
        BY <4>1, <1>4
      <4>2. CASE h = "daemon"
        BY <4>2, <1>4
      <4>3. CASE h = n
        BY <4>3, <1>4
      <4> QED
        BY <2>1, <4>1, <4>2, <4>3
    <3>3. WillHold(a, <<"cert", h>>, Cert(m, m))'
      BY <1>8, <3>1, <3>2 DEF WillHold
    <3>4. WillHold(a, <<"key", h>>, Key(m))'
      BY <1>8, <3>1, <3>2 DEF WillHold
    <3> QED
      BY <3>3, <3>4 DEF WillFit
  <2>2. WillHold(a, Config, Default)'
    <3>1. /\ w[1][1] # Config /\ w[2][1] # Config /\ w[3][1] # Config /\ w[4][1] # Config
          /\ w[5][1] # Config /\ w[6][1] # Config /\ w[7][1] # Config
      BY <1>4, <1>6
    <3>2. \A j \in DOMAIN w : w[j][1] = Config => w[j][2] = Default
      BY <1>4, <1>13, <3>1
    <3>3. \E j \in DOMAIN w : w[j][1] = Config
      BY <1>4
    <3> QED
      BY <1>8, <3>2, <3>3 DEF WillHold
  <2>3. Due(a)'
    BY <1>4, <1>8 DEF Due
  <2>4. op'[a][2] = n
    BY <1>2, <1>8
  <2>5. \A h \in {"ca", "daemon", n} : WillFit(a, h, m, m)'
    BY <2>1
  <2> SUFFICES ASSUME NEW b \in Admin, Runs(b, "setup")', met'[b] = {}
               PROVE  /\ \E k \in 1..MaxRuns : \A h \in {"ca", "daemon", n} : WillFit(a, h, k, k)'
                      /\ WillHold(a, Config, Default)'
                      /\ Due(a)'
    BY <1>8, <2>4 DEF AloneInPlace, Due
  <2> QED
    BY <1>3, <2>2, <2>3, <2>5
<1>10. SettledInPlace' /\ IssuedInPlace' /\ SetupMends' /\ IssuedFit'
  BY <1>1 DEF SettledInPlace, IssuedInPlace, SetupMends, IssuedFit
<1> QED
  BY <1>8, <1>9, <1>10 DEF IInv

(* After a setup, the key that signs is the one in the certificate.        *)
LEMMA BeginEmitPreserves ==
    ASSUME IInv, NEW a \in Admin, NEW n \in Name, BeginEmit(a, n)
    PROVE  IInv'
<1>0. PICK w, m, r, g : /\ m = runs + 1 /\ r = <<"emit", n>> /\ g = file[<<"key", "ca">>][2]
                        /\ w = <<<<<<"cert", n>>, Cert(g, m)>>, <<<<"key", n>>, Key(m)>>>>
  OBVIOUS
<1>1. /\ TypeOK /\ SettledInPlace /\ IssuedInPlace /\ SetupMends /\ IssuedFit
      /\ Begin(a, r, w) /\ settled' = settled /\ issued' = issued \ {n} /\ UNCHANGED file
      /\ file[<<"key", "ca">>] \notin {Missing, Torn}
  BY <1>0 DEF IInv, BeginEmit, Begin, EmitWrites
<1>2. r \in Run /\ r[1] = "emit" /\ r[2] = n
  BY <1>0, RunShape
<1>3. m \in 1..MaxRuns
  BY <1>0, <1>1, RunsAssumption DEF Begin, TypeOK
<1>4. g \in 1..MaxRuns
  <2>1. file[<<"key", "ca">>] \in {Key(k) : k \in 1..MaxRuns}
    <3>1. file[<<"key", "ca">>] \in Held(<<"key", "ca">>)
      BY <1>1, Files DEF TypeOK
    <3> QED
      BY <1>1, <3>1, Files, KeysHeld
  <2> QED
    BY <1>0, <2>1, Drawn
<1>5. /\ w \in Seq(Write) /\ DOMAIN w = 1..2
      /\ w[1][1] = <<"cert", n>> /\ w[1][2] = Cert(g, m)
      /\ w[2][1] = <<"key", n>> /\ w[2][2] = Key(m)
  <2>1. Cert(g, m) \in Contents(<<"cert", n>>) /\ Key(m) \in Contents(<<"key", n>>)
    BY <1>3, <1>4, Files, WhatIsHeld
  <2>2. <<<<"cert", n>>, Cert(g, m)>> \in Write /\ <<<<"key", n>>, Key(m)>> \in Write
    BY <2>1, Files, Writes
  <2>3. w \in Seq(Write) /\ DOMAIN w = 1..2
    BY <1>0, <2>2
  <2> QED
    BY <1>0, <2>3
<1>6. \A j \in DOMAIN w : /\ w[j][1] \in {"cert", "key"} \X {n} /\ w[j][1] # Secrets
                          /\ w[j] # <<Secrets, Default>>
  <2>1. \A j \in DOMAIN w : j = 1 \/ j = 2
    BY <1>5
  <2>2. \A j \in DOMAIN w : w[j][1] \in {"cert", "key"} \X {n}
    BY <1>5, <2>1
  <2>3. \A j \in DOMAIN w : w[j][1] # Secrets
    BY <1>5, <2>1, Files
  <2>4. \A j \in DOMAIN w : w[j] # <<Secrets, Default>>
    BY <2>3
  <2> QED
    BY <2>2, <2>3, <2>4
<1>7. settled' \in BOOLEAN /\ issued' \subseteq Name
  <2>1. settled' \in BOOLEAN
    BY <1>1 DEF TypeOK
  <2> QED
    BY <1>1, <2>1 DEF TypeOK
<1>8. /\ TypeOK' /\ AllMet' /\ WritesInPlace' /\ SecretsInPlace'
      /\ Running' = Running \union {a} /\ op'[a] = r /\ todo'[a] = w
      /\ \A b \in Running : /\ b # a /\ op'[b] = op[b] /\ todo'[b] = todo[b]
                            /\ met'[b] = met[b] \union {r}
      /\ \A b \in Admin : Runs(b, "setup")' /\ met'[b] = {} => b = a
  <2>1. r[1] = "emit" => \A j \in DOMAIN w : w[j][1] \in {"cert", "key"} \X {r[2]}
    BY <1>2, <1>6
  <2>2. w \in Seq(Write) /\ Begin(a, r, w)
    BY <1>1, <1>5
  <2>3. /\ \A i, j \in DOMAIN w : w[i][1] = Secrets /\ w[j][1] = Secrets => i = j
        /\ \A j \in DOMAIN w : w[j] # <<Secrets, Default>>
    BY <1>6
  <2> QED
    BY <1>2, <1>7, <2>1, <2>2, <2>3, BeginKeeps
<1>9. AloneInPlace'
  <2>1. \A b \in Admin : ~(Runs(b, "setup")' /\ met'[b] = {})
    BY <1>2, <1>8 DEF Runs
  <2> QED
    BY <2>1 DEF AloneInPlace
<1>10. SettledInPlace'
  <2> SUFFICES ASSUME settled, NEW b \in Running'
               PROVE  /\ Runs(b, "emit")'
                      /\ op'[b] \notin met'[b] =>
                           \E k \in 1..MaxRuns : WillFit(b, op[b][2], file[<<"cert", "ca">>][3], k)'
    BY <1>1 DEF SettledInPlace
  <2>1. CASE b = a
    <3>1. Runs(a, "emit")'
      BY <1>2, <1>8, RunShape DEF Runs
    <3>2. file[<<"cert", "ca">>][3] = g
      BY <1>0, <1>1, Drawn DEF SetupMends, Fits
    <3>3. \A h, k : <<"cert", h>> # <<"key", k>>
      BY Files
    <3>4. \A j \in DOMAIN w : /\ w[j][1] = <<"cert", n>> => w[j][2] = Cert(g, m)
                              /\ w[j][1] = <<"key", n>> => w[j][2] = Key(m)
      BY <1>5, <3>3
    <3>5. 1 \in DOMAIN w /\ 2 \in DOMAIN w
      BY <1>5
    <3>6. WillHold(a, <<"cert", n>>, Cert(g, m))'
      BY <1>5, <1>8, <3>4, <3>5 DEF WillHold
    <3>7. WillHold(a, <<"key", n>>, Key(m))'
      BY <1>5, <1>8, <3>4, <3>5 DEF WillHold
    <3>8. op'[a][2] = n /\ file' = file
      BY <1>1, <1>2, <1>8
    <3>9. WillFit(a, op[a][2], file[<<"cert", "ca">>][3], m)'
      BY <3>2, <3>6, <3>7, <3>8 DEF WillFit
    <3> QED
      BY <1>3, <2>1, <3>1, <3>9
  <2>2. CASE b # a
    <3>1. /\ b \in Running /\ op'[b] = op[b] /\ todo'[b] = todo[b] /\ met'[b] = met[b] \union {r}
          /\ file' = file
      BY <1>1, <1>8, <2>2
    <3>2. Runs(b, "emit")'
      BY <1>1, <3>1 DEF SettledInPlace, Runs
    <3>3. ASSUME op'[b] \notin met'[b]
          PROVE  \E k \in 1..MaxRuns : WillFit(b, op[b][2], file[<<"cert", "ca">>][3], k)'
      <4>1. PICK k \in 1..MaxRuns : WillFit(b, op[b][2], file[<<"cert", "ca">>][3], k)
        BY <1>1, <3>1, <3>3 DEF SettledInPlace
      <4>2. \A f, x : WillHold(b, f, x) => WillHold(b, f, x)'
        BY <3>1 DEF WillHold
      <4>3. WillFit(b, op[b][2], file[<<"cert", "ca">>][3], k)'
        BY <3>1, <4>1, <4>2 DEF WillFit
      <4> QED
        BY <4>3
    <3> QED
      BY <3>2, <3>3
  <2> QED
    BY <2>1, <2>2
<1>11. IssuedInPlace'
  BY <1>0, <1>1, <1>2, <1>8 DEF IssuedInPlace
<1>12. SetupMends' /\ IssuedFit'
  BY <1>1 DEF SetupMends, IssuedFit, Fits
<1> QED
  BY <1>8, <1>9, <1>10, <1>11, <1>12 DEF IInv

(* No step leads out of the invariant, nor does standing still.            *)
LEMMA StepInv == IInv /\ [Next]_vars => IInv'
<1> SUFFICES ASSUME IInv, [Next]_vars
             PROVE  IInv'
  OBVIOUS
<1>1. CASE \E a \in Admin, n \in Name : BeginSetup(a, n)
  BY <1>1, BeginSetupPreserves
<1>2. CASE \E a \in Admin, n \in Name : BeginEmit(a, n)
  BY <1>2, BeginEmitPreserves
<1>3. CASE \E a \in Admin : LookForSecrets(a)
  BY <1>3, LookForSecretsPreserves
<1>4. CASE \E a \in Admin : CreateSecrets(a)
  BY <1>4, CreateSecretsPreserves
<1>5. CASE \E a \in Admin : Truncate(a)
  BY <1>5, TruncatePreserves
<1>6. CASE \E a \in Admin : Complete(a)
  BY <1>6, CompletePreserves
<1>7. CASE \E a \in Admin : Finish(a)
  BY <1>7, FinishPreserves
<1>8. CASE \E a \in Admin : BreakOff(a)
  BY <1>8, BreakOffPreserves
<1>9. CASE EnterSecrets
  BY <1>9, EnterSecretsPreserves
<1>10. CASE UNCHANGED vars
  <2>1. UNCHANGED <<file, runs, op, todo, half, met, settled, issued>>
    BY <1>10 DEF vars
  <2>2. TypeOK' /\ AllMet' /\ WritesInPlace' /\ SecretsInPlace'
    BY <2>1 DEF IInv, TypeOK, AllMet, WritesInPlace, SecretsInPlace, Runs, Running
  <2>3. AloneInPlace'
    <3>1. \A a, f, x : WillHold(a, f, x)' <=> WillHold(a, f, x)
      BY <2>1 DEF WillHold
    <3>2. \A a, h, g, k : WillFit(a, h, g, k)' <=> WillFit(a, h, g, k)
      BY <3>1 DEF WillFit
    <3>3. \A a : Runs(a, "setup")' <=> Runs(a, "setup")
      BY <2>1 DEF Runs
    <3> QED
      BY <2>1, <3>1, <3>2, <3>3 DEF IInv, AloneInPlace
  <2>4. SettledInPlace' /\ IssuedInPlace'
    BY <2>1 DEF IInv, SettledInPlace, IssuedInPlace, Running, Runs, WillFit, WillHold
  <2>5. SetupMends' /\ IssuedFit'
    BY <2>1 DEF IInv, SetupMends, IssuedFit, Fits
  <2> QED
    BY <2>2, <2>3, <2>4, <2>5 DEF IInv
<1> QED
  BY <1>1, <1>2, <1>3, <1>4, <1>5, <1>6, <1>7, <1>8, <1>9, <1>10 DEF Next, Step

-----------------------------------------------------------------------------
(* What a state directory can be relied on for, however many admins, runs  *)
(* and clients there are.                                                  *)

(* The invariant holds in every state that runs lead to.                   *)
THEOREM SetupInvariant == Spec => []IInv
  BY InitInv, StepInv, PTL DEF Spec

(* A file holds only what may be written to it, and what a run has left is *)
(* writes.                                                                 *)
THEOREM Typing == Spec => []TypeOK
<1>1. IInv => TypeOK
  BY DEF IInv
<1> QED
  BY <1>1, SetupInvariant, PTL

(* Once a setup has ended well without meeting another run, the files of   *)
(* CA and daemon fit together, and configuration and secrets are there,    *)
(* whatever broke off before, and whatever emit-client does after.         *)
THEOREM Mends == Spec => []SetupMends
<1>1. IInv => SetupMends
  BY DEF IInv
<1> QED
  BY <1>1, SetupInvariant, PTL

(* After it, every client a run has ended well for fits the daemon's CA.   *)
THEOREM Issued == Spec => []IssuedFit
<1>1. IInv => IssuedFit
  BY DEF IInv
<1> QED
  BY <1>1, SetupInvariant, PTL

(* A step that replaces entered secrets is one of a setup that met another.*)
LEMMA SecretsStep ==
    ASSUME IInv, [Next]_vars, file[Secrets] = Edited, file'[Secrets] # Edited
    PROVE  \E a \in Admin, n \in Name :
             op[a] # None /\ op[a][1] = "setup" /\ <<"setup", n>> \in met[a]
<1>1. TypeOK /\ SecretsInPlace
  BY DEF IInv
<1>2. PICK a \in Admin : CreateSecrets(a) \/ Truncate(a) \/ Complete(a)
  BY Drawn
  DEF Next, Step, vars, BeginSetup, BeginEmit, Begin, LookForSecrets, Finish, BreakOff, EnterSecrets
<1>3. CASE CreateSecrets(a)
  <2>1. /\ Head(todo[a]) = todo[a][1] /\ 1 \in DOMAIN todo[a] /\ todo[a] # <<>>
        /\ todo[a][1] = <<Secrets, Default>>
    BY <1>1, <1>3, FirstWrite DEF CreateSecrets
  <2>2. \E n \in Name : <<"setup", n>> \in met[a]
    BY <1>1, <2>1, Drawn DEF SecretsInPlace
  <2>3. todo[a][1][1] = Secrets
    BY <2>1
  <2>4. a \in Running /\ \E n \in Name : op[a] = <<"setup", n>>
    BY <2>1, <2>3, SecretsBySetup
  <2> QED
    BY <2>2, <2>4 DEF Running
<1>4. CASE Truncate(a) \/ Complete(a)
  <2>1. Head(todo[a])[1] # Secrets
    BY <1>4 DEF Truncate, Complete, IInv, WritesInPlace
  <2> QED
    BY <1>1, <1>4, <2>1, Files DEF Truncate, Complete, TypeOK
<1> QED
  BY <1>2, <1>3, <1>4

(* Secrets that were entered are lost only to a setup that has met another.*)
THEOREM Secret == Spec => SecretsKept
<1>1. IInv /\ [Next]_vars =>
        [file[Secrets] = Edited /\ file'[Secrets] # Edited =>
            \E a \in Admin, n \in Name :
              op[a] # None /\ op[a][1] = "setup" /\ <<"setup", n>> \in met[a]]_vars
  BY SecretsStep
<1> QED
  BY <1>1, SetupInvariant, PTL DEF Spec, SecretsKept
=============================================================================
