-------------------------- MODULE SystemFilesProofs --------------------------
(***************************************************************************)
(* Proofs of the safety properties of SystemFiles, and that it implements  *)
(* AtomicFiles, for any set of configurations and any number of changesets *)
(* and crashes.                                                            *)
(***************************************************************************)
EXTENDS SystemFiles, SequenceTheorems, TLAPS

(***************************************************************************)
(* What may be left to do of a callback.                                   *)
(***************************************************************************)

(* The ends of a sequence of operations.                                   *)
Rests(s) == {SubSeq(s, k, Len(s)) : k \in 1 .. Len(s)}

StagingLeft(x) == Rests(Staging(x))

InstallingLeft(x) ==
  Rests(Installing(x)) \cup
    IF x = "dns" THEN {<<Op("resolvconf", "resolv")>>} ELSE {}

(* The files that are still to be staged, or installed.                    *)
With(do, p) == {f \in File : \E k \in DOMAIN p : p[k] = Op(do, f)}

-----------------------------------------------------------------------------
(***************************************************************************)
(* The inductive invariant.                                                *)
(***************************************************************************)

(* A function on the files.                                                *)
Files(g) == g = [f \in File |-> g[f]]

TypeOK ==
  /\ running \in Config /\ new \in Config
  /\ phase \in {"none", "change", "done", "abort"}
  /\ subs \subseteq Sub /\ pending \subseteq subs
  /\ Files(conf) /\ Files(next) /\ Files(prev)
  /\ stored \subseteq Config
  /\ torn \subseteq Sub
  /\ crashes \in Nat

(* The callback under way is one that has been called with this event, and *)
(* the changeset is about the difference of what it is applied to.         *)
Control ==
  /\ phase = "none" => pending = {}
  /\ phase = "change" => subs = Diff(new)
  /\ phase = "done" => running = new /\ new \in stored
  /\ running \in stored \cup {Default}
  /\ ops # << >> => \E x \in subs \ pending :
       \/ phase = "change" /\ ops \in StagingLeft(x)
       \/ phase = "done" /\ ops \in InstallingLeft(x)

(* On CHANGE each file is staged with the text of the changeset, and on    *)
(* DONE it is that text which is installed: a file that is left over from  *)
(* an earlier changeset has been written anew.                             *)
Staged ==
  /\ phase = "change" =>
       \A x \in subs \ pending : \A f \in FilesOf(x) :
         f \in With("stage", ops) \/ next[f] = Text(f, new)
  /\ phase = "done" =>
       /\ \A x \in pending : \A f \in FilesOf(x) : next[f] = Text(f, new)
       /\ \A x \in subs \ pending : \A f \in FilesOf(x) :
            IF f \in With("install", ops) THEN next[f] = Text(f, new)
            ELSE conf[f] = Text(f, new)

(* The file is away between the two renames.                               *)
Away ==
  \A f \in File :
    ops # << >> /\ Head(ops) = Op("install", f) => conf[f] = NoFile

(* Between changes, and during those that do not concern it.               *)
Kept ==
  \A x \in Sub \ torn : phase # "done" \/ x \notin subs =>
    \A f \in FilesOf(x) :
      \/ conf[f] = Text(f, running)
      \/ conf[f] = Shipped /\ \A c \in stored : c[x] = Default[x]

IInv == TypeOK /\ Control /\ Staged /\ Away

-----------------------------------------------------------------------------
(***************************************************************************)
(* Lemmas about what is left to do.                                        *)
(***************************************************************************)

(* An operation is what it does and the file.                              *)
LEMMA OpFields ==
  ASSUME NEW d, NEW f
  PROVE  /\ Op(d, f).do = d /\ Op(d, f).file = f
         /\ \A e, g : Op(d, f) = Op(e, g) => d = e /\ f = g
  BY DEF Op

(* The first operation of the end of a sequence, and what comes then.      *)
RestFacts(s, k, p) ==
  /\ p # << >>
  /\ Head(p) = s[k]
  /\ k = Len(s) => Tail(p) = << >>
  /\ k # Len(s) => /\ k + 1 \in 1 .. Len(s)
                   /\ Tail(p) = SubSeq(s, k + 1, Len(s))
                   /\ Tail(p) # << >>
                   /\ Head(Tail(p)) = s[k + 1]
  /\ \A do : With(do, p) = {f \in File : \E j \in k .. Len(s) : s[j] = Op(do, f)}

(* What is left of a sequence of operations after the first of them.       *)
LEMMA RestStep ==
  ASSUME NEW S, NEW s \in Seq(S), NEW k \in 1 .. Len(s), NEW p,
         p = SubSeq(s, k, Len(s))
  PROVE  RestFacts(s, k, p)
<1>1. /\ p \in Seq(S) /\ Len(p) = Len(s) - k + 1
      /\ \A j \in 1 .. Len(s) - k + 1 : p[j] = s[k + j - 1]
  <2>1. p \in Seq(S)
    OBVIOUS
  <2>2. Len(p) = Len(s) - k + 1
    OBVIOUS
  <2>3. \A j \in 1 .. Len(s) - k + 1 : p[j] = s[k + j - 1]
    OBVIOUS
  <2>4. QED
    BY <2>1, <2>2, <2>3
<1>2. /\ p # << >> /\ Head(p) = s[k]
      /\ Tail(p) = SubSeq(s, k + 1, Len(s))
  <2>1. Len(s) \in k .. Len(s)
    OBVIOUS
  <2>2. Len(p) # 0
    BY <1>1
  <2>3. QED
    BY <2>1, <2>2, EmptySeq, HeadTailOfSubSeq, Zenon
<1>3. ASSUME k = Len(s) PROVE Tail(p) = << >>
  BY <1>2, <1>3, SubSeqEmpty
<1>4. ASSUME k # Len(s)
      PROVE  /\ k + 1 \in 1 .. Len(s)
             /\ Tail(p) = SubSeq(s, k + 1, Len(s))
             /\ Tail(p) # << >>
             /\ Head(Tail(p)) = s[k + 1]
  <2>1. k + 1 \in 1 .. Len(s) /\ Len(s) \in k + 1 .. Len(s)
    BY <1>4
  <2>2. Len(SubSeq(s, k + 1, Len(s))) # 0
    BY <2>1
  <2>3. QED
    BY <1>2, <2>1, <2>2, EmptySeq, HeadTailOfSubSeq, Zenon
<1>5. \A do : With(do, p) = {f \in File : \E j \in k .. Len(s) : s[j] = Op(do, f)}
  <2> SUFFICES ASSUME NEW do, NEW f \in File
               PROVE  (\E i \in DOMAIN p : p[i] = Op(do, f)) <=>
                        (\E j \in k .. Len(s) : s[j] = Op(do, f))
    BY DEF With
  <2>1. DOMAIN p = 1 .. Len(s) - k + 1
    BY <1>1
  <2>2. ASSUME NEW i \in DOMAIN p, p[i] = Op(do, f)
        PROVE  \E j \in k .. Len(s) : s[j] = Op(do, f)
    BY <1>1, <2>1, <2>2
  <2>3. ASSUME NEW j \in k .. Len(s), s[j] = Op(do, f)
        PROVE  \E i \in DOMAIN p : p[i] = Op(do, f)
    <3>1. j - k + 1 \in DOMAIN p /\ p[j - k + 1] = s[j]
      BY <1>1, <2>1
    <3>2. QED
      BY <2>3, <3>1
  <2>4. QED
    BY <2>2, <2>3
<1>6. QED
  BY <1>2, <1>3, <1>4, <1>5 DEF RestFacts

(* Sequences that are joined.                                              *)
LEMMA JoinedOne ==
  ASSUME NEW a, NEW b, NEW c, NEW d
  PROVE  <<a, b, c>> \o <<d>> = <<a, b, c, d>>
<1> DEFINE S == {a, b, c, d}
<1>1. /\ <<a, b, c>> \in Seq(S) /\ <<d>> \in Seq(S)
      /\ <<a, b, c, d>> \in Seq(S)
  OBVIOUS
<1>2. <<a, b, c>> \o <<d>> \in Seq(S) /\ Len(<<a, b, c>> \o <<d>>) = 4
  BY <1>1
<1>3. \A i \in 1 .. 4 : (<<a, b, c>> \o <<d>>)[i] = <<a, b, c, d>>[i]
  BY <1>1
<1>4. QED
  BY <1>1, <1>2, <1>3, SeqEqual, Zenon

(* The same for longer ones.                                               *)
LEMMA JoinedThree ==
  ASSUME NEW a, NEW b, NEW c, NEW d, NEW e, NEW f
  PROVE  <<a, b, c>> \o <<d, e, f>> = <<a, b, c, d, e, f>>
<1> DEFINE S == {a, b, c, d, e, f}
<1>1. /\ <<a, b, c>> \in Seq(S) /\ <<d, e, f>> \in Seq(S)
      /\ <<a, b, c, d, e, f>> \in Seq(S)
  OBVIOUS
<1>2. <<a, b, c>> \o <<d, e, f>> \in Seq(S) /\ Len(<<a, b, c>> \o <<d, e, f>>) = 6
  BY <1>1
<1>3. \A i \in 1 .. 6 : (<<a, b, c>> \o <<d, e, f>>)[i] = <<a, b, c, d, e, f>>[i]
  BY <1>1
<1>4. QED
  BY <1>1, <1>2, <1>3, SeqEqual, Zenon

(* The operations of CHANGE: each file is staged after it was removed.     *)
StagingFact(x, s, k) ==
  /\ s[k] = Op(s[k].do, s[k].file)
  /\ s[k].do \in {"remove", "stage"} /\ s[k].file \in FilesOf(x)
  /\ s[k].do = "remove" => k < Len(s) /\ s[k + 1] = Op("stage", s[k].file)

StagingFacts(x, s) ==
  /\ s \in Seq({s[k] : k \in 1 .. Len(s)}) /\ Len(s) > 0
  /\ \A k \in 1 .. Len(s) : StagingFact(x, s, k)
  /\ \A f \in FilesOf(x) : \E k \in 1 .. Len(s) : s[k] = Op("stage", f)

(* Those of DONE: the file that is installed has just been renamed, and is *)
(* not installed again.                                                    *)
InstallingFact(x, s, k) ==
  /\ s[k] = Op(s[k].do, s[k].file)
  /\ s[k].do \in {"drop", "backup", "install", "service", "condition"}
  /\ s[k].file \in FilesOf(x)
  /\ s[k].do = "drop" => k + 1 < Len(s) /\ s[k + 2] = Op("install", s[k].file)
  /\ s[k].do = "backup" => k < Len(s) /\ s[k + 1] = Op("install", s[k].file)
  /\ s[k].do = "install" =>
       /\ k > 1 /\ s[k - 1] = Op("backup", s[k].file)
       /\ \A j \in k + 1 .. Len(s) : s[j] # s[k]
  /\ s[k].do = "condition" => k = Len(s) /\ x = "dns"

InstallingFacts(x, s) ==
  /\ s \in Seq({s[k] : k \in 1 .. Len(s)}) /\ Len(s) > 0
  /\ s[1].do = "drop"
  /\ \A k \in 1 .. Len(s) : InstallingFact(x, s, k)
  /\ \A f \in FilesOf(x) : \E k \in 1 .. Len(s) : s[k] = Op("install", f)

(* Staging() is as stated.                                                 *)
LEMMA StagingIs ==
  ASSUME NEW x \in Sub
  PROVE  StagingFacts(x, Staging(x))
<1> DEFINE s == Staging(x)
<1>1. CASE x = "clock"
  <2>1. s = <<Op("remove", "localtime"), Op("stage", "localtime"),
              Op("stage", "timezone")>>
    BY <1>1 DEF Staging
  <2>2. s \in Seq({s[k] : k \in 1 .. Len(s)}) /\ Len(s) = 3
    BY <2>1
  <2>3. /\ s[1].do = "remove" /\ s[1].file = "localtime" /\ s[1] = Op("remove", "localtime")
        /\ s[2].do = "stage" /\ s[2].file = "localtime" /\ s[2] = Op("stage", "localtime")
        /\ s[3].do = "stage" /\ s[3].file = "timezone" /\ s[3] = Op("stage", "timezone")
    BY <2>1, OpFields
  <2>4. FilesOf(x) = {"localtime", "timezone"}
    BY <1>1 DEF FilesOf
  <2> HIDE DEF s
  <2>5. ASSUME NEW k \in 1 .. Len(s) PROVE StagingFact(x, s, k)
    BY <1>1, <2>2, <2>3, <2>4, OpFields DEF StagingFact
  <2>6. \A f \in FilesOf(x) : \E k \in 1 .. Len(s) : s[k] = Op("stage", f)
    BY <2>2, <2>3, <2>4
  <2>7. QED
    BY <2>2, <2>3, <2>5, <2>6 DEF StagingFacts, s
<1>2. CASE x = "ntp"
  <2>1. s = <<Op("stage", "chrony")>>
    BY <1>2 DEF Staging
  <2>2. s \in Seq({s[k] : k \in 1 .. Len(s)}) /\ Len(s) = 1
    BY <2>1
  <2>3. /\ s[1].do = "stage" /\ s[1].file = "chrony" /\ s[1] = Op("stage", "chrony")
    BY <2>1, OpFields
  <2>4. FilesOf(x) = {"chrony"}
    BY <1>2 DEF FilesOf
  <2> HIDE DEF s
  <2>5. ASSUME NEW k \in 1 .. Len(s) PROVE StagingFact(x, s, k)
    BY <1>2, <2>2, <2>3, <2>4, OpFields DEF StagingFact
  <2>6. \A f \in FilesOf(x) : \E k \in 1 .. Len(s) : s[k] = Op("stage", f)
    BY <2>2, <2>3, <2>4
  <2>7. QED
    BY <2>2, <2>3, <2>5, <2>6 DEF StagingFacts, s
<1>3. CASE x = "dns"
  <2>1. s = <<Op("stage", "resolv")>>
    BY <1>3 DEF Staging
  <2>2. s \in Seq({s[k] : k \in 1 .. Len(s)}) /\ Len(s) = 1
    BY <2>1
  <2>3. /\ s[1].do = "stage" /\ s[1].file = "resolv" /\ s[1] = Op("stage", "resolv")
    BY <2>1, OpFields
  <2>4. FilesOf(x) = {"resolv"}
    BY <1>3 DEF FilesOf
  <2> HIDE DEF s
  <2>5. ASSUME NEW k \in 1 .. Len(s) PROVE StagingFact(x, s, k)
    BY <1>3, <2>2, <2>3, <2>4, OpFields DEF StagingFact
  <2>6. \A f \in FilesOf(x) : \E k \in 1 .. Len(s) : s[k] = Op("stage", f)
    BY <2>2, <2>3, <2>4
  <2>7. QED
    BY <2>2, <2>3, <2>5, <2>6 DEF StagingFacts, s
<1>4. QED
  BY <1>1, <1>2, <1>3 DEF Sub

(* Installing() is as stated.                                              *)
LEMMA InstallingIs ==
  ASSUME NEW x \in Sub
  PROVE  InstallingFacts(x, Installing(x))
<1> DEFINE s == Installing(x)
<1>1. CASE x = "clock"
  <2>1. s = <<Op("drop", "timezone"), Op("backup", "timezone"),
              Op("install", "timezone"), Op("drop", "localtime"),
              Op("backup", "localtime"), Op("install", "localtime")>>
    <3>1. s = Swap("timezone") \o Swap("localtime")
      BY <1>1 DEF Installing
    <3>2. \A a, b, c, d, e, f : <<a, b, c>> \o <<d, e, f>> = <<a, b, c, d, e, f>>
      BY JoinedThree, Zenon
    <3>3. QED
      BY <3>1, <3>2, SMT DEF Swap
  <2>2. s \in Seq({s[k] : k \in 1 .. Len(s)}) /\ Len(s) = 6
    BY <2>1
  <2>3. /\ s[1].do = "drop" /\ s[1].file = "timezone" /\ s[1] = Op("drop", "timezone")
        /\ s[2].do = "backup" /\ s[2].file = "timezone" /\ s[2] = Op("backup", "timezone")
        /\ s[3].do = "install" /\ s[3].file = "timezone" /\ s[3] = Op("install", "timezone")
        /\ s[4].do = "drop" /\ s[4].file = "localtime" /\ s[4] = Op("drop", "localtime")
        /\ s[5].do = "backup" /\ s[5].file = "localtime" /\ s[5] = Op("backup", "localtime")
        /\ s[6].do = "install" /\ s[6].file = "localtime" /\ s[6] = Op("install", "localtime")
    BY <2>1, OpFields
  <2>4. FilesOf(x) = {"timezone", "localtime"}
    BY <1>1 DEF FilesOf
  <2> HIDE DEF s
  <2>5. ASSUME NEW k \in 1 .. Len(s) PROVE InstallingFact(x, s, k)
    BY <1>1, <2>2, <2>3, <2>4, OpFields DEF InstallingFact
  <2>6. \A f \in FilesOf(x) : \E k \in 1 .. Len(s) : s[k] = Op("install", f)
    BY <2>2, <2>3, <2>4
  <2>7. QED
    BY <2>2, <2>3, <2>5, <2>6 DEF InstallingFacts, s
<1>2. CASE x = "ntp"
  <2>1. s = <<Op("drop", "chrony"), Op("backup", "chrony"),
              Op("install", "chrony"), Op("service", "chrony")>>
    <3>1. s = Swap("chrony") \o <<Op("service", "chrony")>>
      BY <1>2 DEF Installing
    <3>2. QED
      BY <3>1, JoinedOne, Zenon DEF Swap
  <2>2. s \in Seq({s[k] : k \in 1 .. Len(s)}) /\ Len(s) = 4
    BY <2>1
  <2>3. /\ s[1].do = "drop" /\ s[1].file = "chrony" /\ s[1] = Op("drop", "chrony")
        /\ s[2].do = "backup" /\ s[2].file = "chrony" /\ s[2] = Op("backup", "chrony")
        /\ s[3].do = "install" /\ s[3].file = "chrony" /\ s[3] = Op("install", "chrony")
        /\ s[4].do = "service" /\ s[4].file = "chrony" /\ s[4] = Op("service", "chrony")
    BY <2>1, OpFields
  <2>4. FilesOf(x) = {"chrony"}
    BY <1>2 DEF FilesOf
  <2> HIDE DEF s
  <2>5. ASSUME NEW k \in 1 .. Len(s) PROVE InstallingFact(x, s, k)
    BY <1>2, <2>2, <2>3, <2>4, OpFields DEF InstallingFact
  <2>6. \A f \in FilesOf(x) : \E k \in 1 .. Len(s) : s[k] = Op("install", f)
    BY <2>2, <2>3, <2>4
  <2>7. QED
    BY <2>2, <2>3, <2>5, <2>6 DEF InstallingFacts, s
<1>3. CASE x = "dns"
  <2>1. s = <<Op("drop", "resolv"), Op("backup", "resolv"),
              Op("install", "resolv"), Op("condition", "resolv")>>
    <3>1. s = Swap("resolv") \o <<Op("condition", "resolv")>>
      BY <1>3 DEF Installing
    <3>2. QED
      BY <3>1, JoinedOne, Zenon DEF Swap
  <2>2. s \in Seq({s[k] : k \in 1 .. Len(s)}) /\ Len(s) = 4
    BY <2>1
  <2>3. /\ s[1].do = "drop" /\ s[1].file = "resolv" /\ s[1] = Op("drop", "resolv")
        /\ s[2].do = "backup" /\ s[2].file = "resolv" /\ s[2] = Op("backup", "resolv")
        /\ s[3].do = "install" /\ s[3].file = "resolv" /\ s[3] = Op("install", "resolv")
        /\ s[4].do = "condition" /\ s[4].file = "resolv" /\ s[4] = Op("condition", "resolv")
    BY <2>1, OpFields
  <2>4. FilesOf(x) = {"resolv"}
    BY <1>3 DEF FilesOf
  <2> HIDE DEF s
  <2>5. ASSUME NEW k \in 1 .. Len(s) PROVE InstallingFact(x, s, k)
    BY <1>3, <2>2, <2>3, <2>4, OpFields DEF InstallingFact
  <2>6. \A f \in FilesOf(x) : \E k \in 1 .. Len(s) : s[k] = Op("install", f)
    BY <2>2, <2>3, <2>4
  <2>7. QED
    BY <2>2, <2>3, <2>5, <2>6 DEF InstallingFacts, s
<1>4. QED
  BY <1>1, <1>2, <1>3 DEF Sub

(* How staging goes on from p.                                             *)
StagingGoesOn(x, p) ==
  /\ p # << >>
  /\ Head(p).do \in {"remove", "stage"}
  /\ Head(p).file \in FilesOf(x)
  /\ Tail(p) # << >> => Tail(p) \in StagingLeft(x)
  /\ With("stage", p) \subseteq With("stage", Tail(p)) \cup {Head(p).file}
  /\ Head(p).do = "remove" => Head(p).file \in With("stage", Tail(p))

(* What is left to be staged after one operation.                          *)
LEMMA StagingStep ==
  ASSUME NEW x \in Sub, NEW p \in StagingLeft(x)
  PROVE  StagingGoesOn(x, p)
<1> DEFINE s == Staging(x)
           S == {s[k] : k \in 1 .. Len(s)}
<1>1. StagingFacts(x, s)
  BY StagingIs
<1>2. s \in Seq(S)
  BY <1>1 DEF StagingFacts
<1>3. PICK k \in 1 .. Len(s) : p = SubSeq(s, k, Len(s))
  BY DEF StagingLeft, Rests
<1> HIDE DEF s, S
<1>4. RestFacts(s, k, p)
  BY <1>2, <1>3, RestStep, Zenon
<1>5. With("stage", Tail(p)) =
        {f \in File : \E j \in k + 1 .. Len(s) : s[j] = Op("stage", f)}
  <2>1. CASE k = Len(s)
    BY <1>4, <2>1 DEF With, RestFacts
  <2>2. CASE k # Len(s)
    <3>1. k + 1 \in 1 .. Len(s) /\ Tail(p) = SubSeq(s, k + 1, Len(s))
      BY <1>4, <2>2 DEF RestFacts
    <3>2. RestFacts(s, k + 1, Tail(p))
      BY <1>2, <3>1, RestStep, Zenon
    <3>3. QED
      BY <3>2 DEF RestFacts
  <2>3. QED
    BY <2>1, <2>2
<1>6. Len(s) \in Nat /\ StagingFact(x, s, k)
  BY <1>1, <1>2 DEF StagingFacts
<1>7. Tail(p) # << >> => Tail(p) \in StagingLeft(x)
  BY <1>4, Zenon DEF StagingLeft, Rests, RestFacts, s
<1>8. With("stage", p) \subseteq With("stage", Tail(p)) \cup {s[k].file}
  BY <1>4, <1>5, <1>6, OpFields DEF RestFacts
<1>9. FilesOf(x) \subseteq File
  BY DEF FilesOf, File, Sub
<1>10. s[k].do = "remove" => s[k].file \in With("stage", Tail(p))
  BY <1>5, <1>6, <1>9 DEF StagingFact
<1>11. QED
  BY <1>4, <1>6, <1>7, <1>8, <1>10 DEF StagingGoesOn, StagingFact, RestFacts

(* How installation goes on from p.                                        *)
InstallingGoesOn(x, p) ==
  /\ p # << >> /\ Head(p) = Op(Head(p).do, Head(p).file)
  /\ Head(p).do \in {"drop", "backup", "install", "service", "condition",
                     "resolvconf"}
  /\ Head(p).file \in FilesOf(x)
  /\ Tail(p) # << >> => Tail(p) \in InstallingLeft(x)
  /\ With("install", p) \subseteq FilesOf(x)
  /\ With("install", Tail(p)) =
       IF Head(p).do = "install" THEN With("install", p) \ {Head(p).file}
       ELSE With("install", p)
  /\ Head(p).do \in {"drop", "backup", "install"} =>
       Head(p).file \in With("install", p)
  /\ Head(p).do = "backup" <=> Tail(p) # << >> /\ Head(Tail(p)).do = "install"
  /\ Head(p).do = "backup" => Head(Tail(p)) = Op("install", Head(p).file)
  /\ Head(p).do = "condition" => x = "dns" /\ Tail(p) = << >>

(* What is left to be installed after one operation.                       *)
LEMMA InstallingStep ==
  ASSUME NEW x \in Sub, NEW p \in InstallingLeft(x)
  PROVE  InstallingGoesOn(x, p)
<1> DEFINE s == Installing(x)
           S == {s[k] : k \in 1 .. Len(s)}
<1>1. FilesOf(x) \subseteq File
  BY DEF FilesOf, File, Sub
<1>2. CASE x = "dns" /\ p = <<Op("resolvconf", "resolv")>>
  <2>1. p # << >> /\ Head(p) = Op("resolvconf", "resolv") /\ Tail(p) = << >>
    BY <1>2
  <2>2. With("install", p) = {} /\ With("install", Tail(p)) = {}
    BY <1>2, <2>1, OpFields DEF With
  <2>3. "resolv" \in FilesOf(x)
    BY <1>2 DEF FilesOf
  <2>4. Head(p).do = "resolvconf" /\ Head(p).file = "resolv"
    BY <2>1, OpFields
  <2>5. QED
    BY <2>1, <2>2, <2>3, <2>4, Zenon DEF InstallingGoesOn
<1>3. CASE p \in Rests(s)
  <2>1. InstallingFacts(x, s)
    BY InstallingIs
  <2>2. s \in Seq(S)
    BY <2>1 DEF InstallingFacts
  <2>3. PICK k \in 1 .. Len(s) : p = SubSeq(s, k, Len(s))
    BY <1>3 DEF Rests
  <2> HIDE DEF s, S
  <2>4. RestFacts(s, k, p)
    BY <2>2, <2>3, RestStep, Zenon
  <2>5. With("install", Tail(p)) =
          {f \in File : \E j \in k + 1 .. Len(s) : s[j] = Op("install", f)}
    <3>1. CASE k = Len(s)
      BY <2>4, <3>1 DEF With, RestFacts
    <3>2. CASE k # Len(s)
      <4>1. k + 1 \in 1 .. Len(s) /\ Tail(p) = SubSeq(s, k + 1, Len(s))
        BY <2>4, <3>2 DEF RestFacts
      <4>2. RestFacts(s, k + 1, Tail(p))
        BY <2>2, <4>1, RestStep, Zenon
      <4>3. QED
        BY <4>2 DEF RestFacts
    <3>3. QED
      BY <3>1, <3>2
  <2>6. Len(s) \in Nat /\ \A j \in 1 .. Len(s) : InstallingFact(x, s, j)
    BY <2>1, <2>2 DEF InstallingFacts
  <2>7. Tail(p) # << >> => Tail(p) \in InstallingLeft(x)
    BY <2>4, Zenon DEF InstallingLeft, Rests, RestFacts, s
  <2>8. /\ With("install", p) =
             {f \in File : \E j \in k .. Len(s) : s[j] = Op("install", f)}
        /\ \A j \in k .. Len(s) : InstallingFact(x, s, j)
    BY <2>4, <2>6 DEF RestFacts
  <2>9. With("install", p) \subseteq FilesOf(x)
    <3> SUFFICES ASSUME NEW f \in With("install", p) PROVE f \in FilesOf(x)
      OBVIOUS
    <3>1. PICK j \in k .. Len(s) : s[j] = Op("install", f)
      BY <2>8
    <3>2. QED
      BY <2>8, <3>1, OpFields DEF InstallingFact
  <2>10. With("install", Tail(p)) =
           IF s[k].do = "install" THEN With("install", p) \ {s[k].file}
           ELSE With("install", p)
    <3>1. \A f : s[k] = Op("install", f) <=> s[k].do = "install" /\ s[k].file = f
      BY <2>8, OpFields DEF InstallingFact
    <3>2. With("install", p) = With("install", Tail(p)) \cup
                                 {f \in File : s[k] = Op("install", f)}
      BY <2>5, <2>6, <2>8
    <3>3. s[k].do = "install" => s[k].file \notin With("install", Tail(p))
      BY <2>5, <2>8, <3>1 DEF InstallingFact
    <3>4. QED
      BY <3>1, <3>2, <3>3, Zenon
  <2>11. s[k].do \in {"drop", "backup", "install"} =>
           s[k].file \in With("install", p)
    <3>1. InstallingFact(x, s, k) /\ s[k].file \in File
      BY <1>1, <2>6 DEF InstallingFact
    <3>2. CASE s[k].do = "drop"
      <4>1. k + 2 \in k .. Len(s) /\ s[k + 2] = Op("install", s[k].file)
        BY <2>6, <3>1, <3>2 DEF InstallingFact
      <4>2. QED
        BY <2>8, <3>1, <4>1
    <3>3. CASE s[k].do = "backup"
      <4>1. k + 1 \in k .. Len(s) /\ s[k + 1] = Op("install", s[k].file)
        BY <2>6, <3>1, <3>3 DEF InstallingFact
      <4>2. QED
        BY <2>8, <3>1, <4>1
    <3>4. CASE s[k].do = "install"
      BY <2>6, <2>8, <3>1, <3>4 DEF InstallingFact
    <3>5. QED
      BY <3>2, <3>3, <3>4
  <2>12. /\ s[k].do = "backup" <=> Tail(p) # << >> /\ Head(Tail(p)).do = "install"
         /\ s[k].do = "backup" => Head(Tail(p)) = Op("install", s[k].file)
         /\ s[k].do = "condition" => x = "dns" /\ Tail(p) = << >>
    <3>1. InstallingFact(x, s, k)
      BY <2>6
    <3>2. CASE k = Len(s)
      BY <2>4, <3>1, <3>2 DEF InstallingFact, RestFacts
    <3>3. CASE k # Len(s)
      <4>1. k + 1 \in 1 .. Len(s) /\ Tail(p) # << >> /\ Head(Tail(p)) = s[k + 1]
        BY <2>4, <3>3 DEF RestFacts
      <4>2. s[k].do = "backup" => s[k + 1] = Op("install", s[k].file)
        BY <3>1 DEF InstallingFact
      <4>3. s[k + 1].do = "install" => s[k] = Op("backup", s[k + 1].file)
        BY <2>6, <4>1 DEF InstallingFact
      <4>4. QED
        BY <3>1, <3>3, <4>1, <4>2, <4>3, OpFields DEF InstallingFact
    <3>4. QED
      BY <3>2, <3>3
  <2>13. QED
    BY <2>4, <2>6, <2>7, <2>9, <2>10, <2>11, <2>12, Zenon
       DEF InstallingGoesOn, InstallingFact, RestFacts
<1>4. QED
  BY <1>2, <1>3 DEF InstallingLeft

-----------------------------------------------------------------------------
(***************************************************************************)
(* The parts and the files.                                                *)
(***************************************************************************)

(* Each file belongs to one part, and its text depends on that part only.  *)
LEMMA Parts ==
  /\ \A x \in Sub : FilesOf(x) \subseteq File /\ Main(x) \in FilesOf(x)
  /\ \A x, y \in Sub : x # y => FilesOf(x) \cap FilesOf(y) = {}
  /\ \A x \in Sub : \A f \in FilesOf(x) : \A c, d \in Config :
       c[x] = d[x] => Text(f, c) = Text(f, d)
<1>1. \A x \in Sub : FilesOf(x) \subseteq File /\ Main(x) \in FilesOf(x)
  BY DEF Sub, File, FilesOf, Main
<1>2. \A x, y \in Sub : x # y => FilesOf(x) \cap FilesOf(y) = {}
  BY DEF Sub, FilesOf
<1>3. ASSUME NEW x \in Sub, NEW f \in FilesOf(x), NEW c \in Config,
             NEW d \in Config,
             c[x] = d[x]
      PROVE  Text(f, c) = Text(f, d)
  BY <1>3 DEF Sub, FilesOf, Text, Resolv
<1>4. QED
  BY <1>1, <1>2, <1>3

(* Nothing is left of nothing, and resolvconf installs no file.            *)
LEMMA Nothing ==
  /\ \A do : With(do, << >>) = {}
  /\ With("install", <<Op("resolvconf", "resolv")>>) = {}
<1>1. \A do : With(do, << >>) = {}
  BY DEF With
<1>2. With("install", <<Op("resolvconf", "resolv")>>) = {}
  BY OpFields DEF With
<1>3. QED
  BY <1>1, <1>2

-----------------------------------------------------------------------------
(***************************************************************************)
(* The steps.                                                              *)
(***************************************************************************)

(* Nothing that the files depend on changes.                               *)
Aside == UNCHANGED <<event, pending, ops, files, torn, crashes>>

(* An operation that leaves the files alone.                               *)
Apart ==
  /\ ops # << >>
  /\ Head(ops).do \in {"service", "condition", "resolvconf"}
  /\ \/ ops' = Tail(ops)
     \/ Head(ops).do = "condition" /\ ops' = <<Op("resolvconf", "resolv")>>
  /\ UNCHANGED <<event, pending, files, torn, crashes>>

(* The kinds of steps.                                                     *)
LEMMA Steps ==
  ASSUME [Next]_vars
  PROVE  \/ \E c \in Config : Begin(c)
         \/ Store \/ Refuse \/ End
         \/ \E x \in Sub : Change(x) \/ ChangeFails(x) \/ Abort(x) \/ Done(x)
         \/ \E f \in File :
              Remove(f) \/ Stage(f) \/ Drop(f) \/ Backup(f) \/ Install(f)
         \/ Apart \/ Crash \/ Aside
<1>1. Service \/ Resolvconf => Apart
  BY OpFields DEF Service, Resolvconf, Do, Apart
<1>2. Condition => Apart
  BY OpFields DEF Condition, Do, Apart
<1>3. SysUp \/ BootResolvconf \/ UNCHANGED vars => Aside
  BY Zenon DEF SysUp, BootResolvconf, vars, Aside
<1>4. QED
  BY <1>1, <1>2, <1>3 DEF Next, Callback, Operation

(* The variables keep their types.                                         *)
LEMMA TypeStep ==
  ASSUME TypeOK, [Next]_vars
  PROVE  TypeOK'
<1>1. ASSUME NEW c \in Config, Begin(c) PROVE TypeOK'
  BY <1>1 DEF TypeOK, Files, Begin, event, files, Diff
<1>2. CASE Store
  BY <1>2 DEF TypeOK, Files, Store, files
<1>3. CASE Refuse
  BY <1>3 DEF TypeOK, Files, Refuse, Refused, files
<1>4. CASE End
  BY <1>4 DEF TypeOK, Files, End, files
<1>5. ASSUME NEW x \in Sub, Change(x) PROVE TypeOK'
  BY <1>5 DEF TypeOK, Files, Change, Call, event, files
<1>6. ASSUME NEW x \in Sub, ChangeFails(x) PROVE TypeOK'
  <2>1. Files(next)'
    BY <1>6 DEF TypeOK, Files, ChangeFails
  <2>2. QED
    BY <1>6, <2>1 DEF TypeOK, Files, ChangeFails, Refused
<1>7. ASSUME NEW x \in Sub, Abort(x) PROVE TypeOK'
  <2>1. UNCHANGED <<event, conf, prev, torn, crashes>> /\ pending' \subseteq pending
    BY <1>7 DEF Abort, Call
  <2>2. Files(next)'
    BY <1>7 DEF TypeOK, Files, Abort
  <2>3. QED
    BY <2>1, <2>2 DEF TypeOK, Files, event
<1>8. ASSUME NEW x \in Sub, Done(x) PROVE TypeOK'
  BY <1>8 DEF TypeOK, Files, Done, Call, event, files
<1>9. ASSUME NEW f \in File, Remove(f) PROVE TypeOK'
  BY <1>9, Zenon DEF TypeOK, Files, Remove, Do, event
<1>10. ASSUME NEW f \in File, Stage(f) PROVE TypeOK'
  <2>1. UNCHANGED <<event, pending, conf, prev, torn, crashes>>
    BY <1>10 DEF Stage, Do
  <2>2. Files(next)'
    BY <1>10, Zenon DEF TypeOK, Files, Stage
  <2>3. QED
    BY <2>1, <2>2 DEF TypeOK, Files, event
<1>11. ASSUME NEW f \in File, Drop(f) PROVE TypeOK'
  BY <1>11, Zenon DEF TypeOK, Files, Drop, Do, event
<1>12. ASSUME NEW f \in File, Backup(f) PROVE TypeOK'
  BY <1>12 DEF TypeOK, Files, Backup, Do, event
<1>13. ASSUME NEW f \in File, Install(f) PROVE TypeOK'
  BY <1>13 DEF TypeOK, Files, Install, Do, event
<1>14. CASE Apart
  BY <1>14 DEF TypeOK, Files, Apart, event, files
<1>15. CASE Crash
  BY <1>15 DEF TypeOK, Files, Crash, files, Busy
<1>16. CASE Aside
  BY <1>16 DEF TypeOK, Files, Aside, event, files
<1>17. QED
  BY <1>1, <1>2, <1>3, <1>4, <1>5, <1>6, <1>7, <1>8, <1>9, <1>10, <1>11,
     <1>12, <1>13, <1>14, <1>15, <1>16, Steps

(* The operation that is done is the first of those left.                  *)
LEMMA Doing ==
  ASSUME NEW d, NEW f, Do(d, f)
  PROVE  /\ ops # << >> /\ Head(ops) = Op(d, f)
         /\ Head(ops).do = d /\ Head(ops).file = f
  BY OpFields DEF Do

(* What is under way: a file is staged on CHANGE ...                       *)
LEMMA Stages ==
  ASSUME TypeOK, Control, ops # << >>, Head(ops).do \in {"remove", "stage"}
  PROVE  /\ phase = "change"
         /\ \E x \in subs \ pending : x \in Sub /\ StagingGoesOn(x, ops)
<1>1. PICK x \in subs \ pending :
        \/ phase = "change" /\ ops \in StagingLeft(x)
        \/ phase = "done" /\ ops \in InstallingLeft(x)
  BY DEF Control
<1>2. x \in Sub
  BY DEF TypeOK
<1>3. ops \in StagingLeft(x) => StagingGoesOn(x, ops)
  BY <1>2, StagingStep
<1>4. ops \in InstallingLeft(x) => InstallingGoesOn(x, ops)
  BY <1>2, InstallingStep
<1>5. QED
  BY <1>1, <1>2, <1>3, <1>4 DEF InstallingGoesOn

(* ... and installed on DONE.                                              *)
LEMMA Installs ==
  ASSUME TypeOK, Control, ops # << >>, Head(ops).do \notin {"remove", "stage"}
  PROVE  /\ phase = "done"
         /\ \E x \in subs \ pending : x \in Sub /\ InstallingGoesOn(x, ops)
<1>1. PICK x \in subs \ pending :
        \/ phase = "change" /\ ops \in StagingLeft(x)
        \/ phase = "done" /\ ops \in InstallingLeft(x)
  BY DEF Control
<1>2. x \in Sub
  BY DEF TypeOK
<1>3. ops \in StagingLeft(x) => StagingGoesOn(x, ops)
  BY <1>2, StagingStep
<1>4. ops \in InstallingLeft(x) => InstallingGoesOn(x, ops)
  BY <1>2, InstallingStep
<1>5. QED
  BY <1>1, <1>2, <1>3, <1>4 DEF StagingGoesOn

(* An operation starts from what is left, and goes on to what is left.     *)
LEMMA Starts ==
  ASSUME NEW x \in Sub
  PROVE  /\ Staging(x) \in StagingLeft(x)
         /\ Installing(x) \in InstallingLeft(x)
         /\ Head(Installing(x)).do = "drop"
         /\ FilesOf(x) \subseteq With("stage", Staging(x))
         /\ FilesOf(x) \subseteq With("install", Installing(x))
<1>1. FilesOf(x) \subseteq File
  BY Parts
<1>2. ASSUME NEW s, s \in Seq({s[k] : k \in 1 .. Len(s)}), Len(s) > 0
      PROVE  s \in Rests(s) /\ DOMAIN s = 1 .. Len(s) /\ Head(s) = s[1]
  <2>1. 1 \in 1 .. Len(s) /\ DOMAIN s = 1 .. Len(s)
    BY <1>2
  <2>2. SubSeq(s, 1, Len(s)) = s
    BY <1>2
  <2>3. RestFacts(s, 1, s)
    BY <1>2, <2>1, <2>2, RestStep, Zenon
  <2>4. QED
    BY <2>1, <2>2, <2>3 DEF Rests, RestFacts
<1>3. StagingFacts(x, Staging(x))
  BY StagingIs
<1>4. InstallingFacts(x, Installing(x))
  BY InstallingIs
<1>5. /\ Staging(x) \in Rests(Staging(x))
      /\ DOMAIN Staging(x) = 1 .. Len(Staging(x))
  BY <1>2, <1>3 DEF StagingFacts
<1>6. /\ Installing(x) \in Rests(Installing(x))
      /\ DOMAIN Installing(x) = 1 .. Len(Installing(x))
      /\ Head(Installing(x)) = Installing(x)[1]
  BY <1>2, <1>4 DEF InstallingFacts
<1>7. FilesOf(x) \subseteq With("stage", Staging(x))
  BY <1>1, <1>3, <1>5 DEF StagingFacts, With
<1>8. FilesOf(x) \subseteq With("install", Installing(x))
  BY <1>1, <1>4, <1>6 DEF InstallingFacts, With
<1>9. QED
  BY <1>4, <1>5, <1>6, <1>7, <1>8
     DEF StagingLeft, InstallingLeft, InstallingFacts

(* The callbacks are called as sysrepo does, and go on with what is left.  *)
LEMMA ControlStep ==
  ASSUME TypeOK, Control, [Next]_vars
  PROVE  Control'
<1>1. ASSUME NEW c \in Config, Begin(c) PROVE Control'
  BY <1>1 DEF Control, Diff, Begin, event, files, Diff
<1>2. CASE Store
  BY <1>2 DEF Control, Diff, Store, files
<1>3. CASE Refuse
  BY <1>3 DEF Control, Diff, Refuse, Refused, files
<1>4. CASE End
  BY <1>4 DEF Control, Diff, End, files
<1>5. ASSUME NEW x \in Sub, Change(x) PROVE Control'
  <2>1. Staging(x) \in StagingLeft(x)
    BY Starts
  <2>2. QED
    BY <1>5, <2>1 DEF TypeOK, Control, Diff, Change, Call, event, files
<1>6. ASSUME NEW x \in Sub, ChangeFails(x) PROVE Control'
  BY <1>6 DEF Control, Diff, ChangeFails, Refused
<1>7. ASSUME NEW x \in Sub, Abort(x) PROVE Control'
  BY <1>7 DEF Control, Diff, Abort, Call, event
<1>8. ASSUME NEW x \in Sub, Done(x) PROVE Control'
  <2>1. Installing(x) \in InstallingLeft(x)
    BY Starts
  <2>2. QED
    BY <1>8, <2>1 DEF TypeOK, Control, Diff, Done, Call, event, files
<1>9. ASSUME NEW f \in File, Remove(f) PROVE Control'
  <2>1. /\ ops # << >> /\ ops' = Tail(ops)
        /\ Head(ops).do = "remove" /\ Head(ops).file = f
    BY <1>9, Doing DEF Remove
  <2>2. PICK x \in subs \ pending : /\ phase = "change" /\ x \in Sub
                                    /\ StagingGoesOn(x, ops)
    BY <2>1, Stages
  <2>3. ops' # << >> => ops' \in StagingLeft(x)
    BY <2>1, <2>2 DEF StagingGoesOn
  <2>4. QED
    BY <1>9, <2>2, <2>3 DEF Control, Remove, Do, event, Diff
<1>10. ASSUME NEW f \in File, Stage(f) PROVE Control'
  <2>1. /\ ops # << >> /\ ops' = Tail(ops)
        /\ Head(ops).do = "stage" /\ Head(ops).file = f
    BY <1>10, Doing DEF Stage
  <2>2. PICK x \in subs \ pending : /\ phase = "change" /\ x \in Sub
                                    /\ StagingGoesOn(x, ops)
    BY <2>1, Stages
  <2>3. ops' # << >> => ops' \in StagingLeft(x)
    BY <2>1, <2>2 DEF StagingGoesOn
  <2>4. QED
    BY <1>10, <2>2, <2>3 DEF Control, Stage, Do, event, Diff
<1>11. ASSUME NEW f \in File, Drop(f) PROVE Control'
  <2>1. /\ ops # << >> /\ ops' = Tail(ops)
        /\ Head(ops).do = "drop" /\ Head(ops).file = f
    BY <1>11, Doing DEF Drop
  <2>2. PICK x \in subs \ pending : /\ phase = "done" /\ x \in Sub
                                    /\ InstallingGoesOn(x, ops)
    BY <2>1, Installs
  <2>3. ops' # << >> => ops' \in InstallingLeft(x)
    BY <2>1, <2>2 DEF InstallingGoesOn
  <2>4. QED
    BY <1>11, <2>2, <2>3 DEF Control, Drop, Do, event, Diff
<1>12. ASSUME NEW f \in File, Backup(f) PROVE Control'
  <2>1. /\ ops # << >> /\ ops' = Tail(ops)
        /\ Head(ops).do = "backup" /\ Head(ops).file = f
    BY <1>12, Doing DEF Backup
  <2>2. PICK x \in subs \ pending : /\ phase = "done" /\ x \in Sub
                                    /\ InstallingGoesOn(x, ops)
    BY <2>1, Installs
  <2>3. ops' # << >> => ops' \in InstallingLeft(x)
    BY <2>1, <2>2 DEF InstallingGoesOn
  <2>4. QED
    BY <1>12, <2>2, <2>3 DEF Control, Backup, Do, event, Diff
<1>13. ASSUME NEW f \in File, Install(f) PROVE Control'
  <2>1. /\ ops # << >> /\ ops' = Tail(ops)
        /\ Head(ops).do = "install" /\ Head(ops).file = f
    BY <1>13, Doing DEF Install
  <2>2. PICK x \in subs \ pending : /\ phase = "done" /\ x \in Sub
                                    /\ InstallingGoesOn(x, ops)
    BY <2>1, Installs
  <2>3. ops' # << >> => ops' \in InstallingLeft(x)
    BY <2>1, <2>2 DEF InstallingGoesOn
  <2>4. QED
    BY <1>13, <2>2, <2>3 DEF Control, Install, Do, event, Diff
<1>14. CASE Apart
  <2>1. PICK x \in subs \ pending : /\ phase = "done" /\ x \in Sub
                                    /\ InstallingGoesOn(x, ops)
    BY <1>14, Installs DEF Apart
  <2>2. ops' # << >> => ops' \in InstallingLeft(x)
    BY <1>14, <2>1, Zenon DEF Apart, InstallingGoesOn, InstallingLeft
  <2>3. QED
    BY <1>14, <2>1, <2>2 DEF Control, Apart, event, files, Diff
<1>15. CASE Crash
  BY <1>15 DEF Control, Diff, Crash, files, Busy
<1>16. CASE Aside
  BY <1>16 DEF Control, Diff, Aside, event, files
<1>17. QED
  BY <1>1, <1>2, <1>3, <1>4, <1>5, <1>6, <1>7, <1>8, <1>9, <1>10, <1>11,
     <1>12, <1>13, <1>14, <1>15, <1>16, Steps

(* What is staged is the text of the changeset, and so is what is installed. *)
LEMMA StagedStep ==
  ASSUME TypeOK, Control, Staged, [Next]_vars
  PROVE  Staged'
<1>1. ASSUME NEW c \in Config, Begin(c) PROVE Staged'
  BY <1>1 DEF Staged, Begin, event, files, Diff
<1>2. CASE Store
  <2>1. With("stage", ops) = {}
    BY <1>2, Nothing DEF Store
  <2>2. QED
    BY <1>2, <2>1 DEF Staged, Store, files
<1>3. CASE Refuse
  BY <1>3 DEF Staged, Refuse, Refused, files
<1>4. CASE End
  BY <1>4 DEF Staged, End, files
<1>5. ASSUME NEW x \in Sub, Change(x) PROVE Staged'
  <2>1. With("stage", ops) = {}
    BY <1>5, Nothing DEF Change, Call
  <2>2. FilesOf(x) \subseteq With("stage", ops')
    BY <1>5, Starts DEF Change
  <2>3. QED
    BY <1>5, <2>1, <2>2 DEF Staged, Change, Call, event, files
<1>6. ASSUME NEW x \in Sub, ChangeFails(x) PROVE Staged'
  BY <1>6 DEF Staged, ChangeFails, Refused
<1>7. ASSUME NEW x \in Sub, Abort(x) PROVE Staged'
  BY <1>7 DEF Staged, Abort, Call, event
<1>8. ASSUME NEW x \in Sub, Done(x) PROVE Staged'
  <2>1. phase = "done" /\ x \in pending /\ ops = << >>
    BY <1>8 DEF Done, Call
  <2>2. next[Main(x)] = Text(Main(x), new)
    BY <2>1, Parts DEF Staged
  <2>3. next[Main(x)] # NoFile
    BY <2>2, Parts, TextAssumption DEF TypeOK
  <2>4. ops' = Installing(x)
    BY <1>8, <2>3 DEF Done
  <2>5. With("install", ops) = {}
    BY <2>1, Nothing
  <2>6. With("install", ops') = FilesOf(x)
    <3>1. /\ InstallingGoesOn(x, Installing(x))
          /\ FilesOf(x) \subseteq With("install", Installing(x))
      BY Starts, InstallingStep
    <3>2. QED
      BY <2>4, <3>1, Zenon DEF InstallingGoesOn
  <2>7. \A y \in subs : y # x => FilesOf(x) \cap FilesOf(y) = {}
    BY <2>1, Parts DEF TypeOK
  <2>8. UNCHANGED <<phase, subs, new, conf, next>> /\ pending' = pending \ {x}
    BY <1>8 DEF Done, Call, event, files
  <2>9. QED
    BY <2>1, <2>5, <2>6, <2>7, <2>8 DEF TypeOK, Staged
<1>9. ASSUME NEW f \in File, Remove(f) PROVE Staged'
  <2>1. /\ ops # << >> /\ ops' = Tail(ops)
        /\ Head(ops).do = "remove" /\ Head(ops).file = f
    BY <1>9, Doing DEF Remove
  <2>2. PICK x \in subs \ pending : /\ phase = "change" /\ x \in Sub
                                    /\ StagingGoesOn(x, ops)
    BY <2>1, Stages
  <2>3. With("stage", ops) \subseteq With("stage", ops') \cup {f}
    BY <2>1, <2>2 DEF StagingGoesOn
  <2>4. f \in With("stage", ops')
    BY <2>1, <2>2 DEF StagingGoesOn
  <2>5. QED
    BY <1>9, <2>2, <2>3, <2>4 DEF TypeOK, Files, Staged, Remove, Do, event
<1>10. ASSUME NEW f \in File, Stage(f) PROVE Staged'
  <2>1. /\ ops # << >> /\ ops' = Tail(ops)
        /\ Head(ops).do = "stage" /\ Head(ops).file = f
    BY <1>10, Doing DEF Stage
  <2>2. PICK x \in subs \ pending : /\ phase = "change" /\ x \in Sub
                                    /\ StagingGoesOn(x, ops)
    BY <2>1, Stages
  <2>3. With("stage", ops) \subseteq With("stage", ops') \cup {f}
    BY <2>1, <2>2 DEF StagingGoesOn
  <2>4. QED
    BY <1>10, <2>2, <2>3, Parts, Zenon
       DEF TypeOK, Files, Staged, Stage, Do, event
<1>11. ASSUME NEW f \in File, Drop(f) PROVE Staged'
  <2>1. /\ ops # << >> /\ ops' = Tail(ops)
        /\ Head(ops).do = "drop" /\ Head(ops).file = f
    BY <1>11, Doing DEF Drop
  <2>2. PICK x \in subs \ pending : /\ phase = "done" /\ x \in Sub
                                    /\ InstallingGoesOn(x, ops)
    BY <2>1, Installs
  <2>3. f \in With("install", ops) /\ f \in FilesOf(x)
    BY <2>1, <2>2 DEF InstallingGoesOn
  <2>4. With("install", ops') = With("install", ops)
    BY <2>1, <2>2, Zenon DEF InstallingGoesOn
  <2>5. QED
    BY <1>11, <2>2, <2>3, <2>4, Zenon
       DEF TypeOK, Files, Staged, Drop, Do, event
<1>12. ASSUME NEW f \in File, Backup(f) PROVE Staged'
  <2>1. /\ ops # << >> /\ ops' = Tail(ops)
        /\ Head(ops).do = "backup" /\ Head(ops).file = f
    BY <1>12, Doing DEF Backup
  <2>2. PICK x \in subs \ pending : /\ phase = "done" /\ x \in Sub
                                    /\ InstallingGoesOn(x, ops)
    BY <2>1, Installs
  <2>3. f \in With("install", ops) /\ f \in FilesOf(x)
    BY <2>1, <2>2, Zenon DEF InstallingGoesOn
  <2>4. With("install", ops') = With("install", ops)
    BY <2>1, <2>2, Zenon DEF InstallingGoesOn
  <2>5. \A g \in File : g # f => conf'[g] = conf[g]
    BY <1>12 DEF TypeOK, Files, Backup
  <2>6. UNCHANGED <<phase, subs, pending, new, next>>
    BY <1>12, Zenon DEF Backup, Do, event
  <2>7. QED
    BY <2>2, <2>3, <2>4, <2>5, <2>6, Parts DEF TypeOK, Staged
<1>13. ASSUME NEW f \in File, Install(f) PROVE Staged'
  <2>1. /\ ops # << >> /\ ops' = Tail(ops)
        /\ Head(ops).do = "install" /\ Head(ops).file = f
    BY <1>13, Doing DEF Install
  <2>2. PICK x \in subs \ pending : /\ phase = "done" /\ x \in Sub
                                    /\ InstallingGoesOn(x, ops)
    BY <2>1, Installs
  <2>3. f \in With("install", ops) /\ f \in FilesOf(x)
    BY <2>1, <2>2, Zenon DEF InstallingGoesOn
  <2>4. With("install", ops') = With("install", ops) \ {f}
    BY <2>1, <2>2, Zenon DEF InstallingGoesOn
  <2>5. next[f] = Text(f, new) /\ next[f] # NoFile
    BY <2>2, <2>3, TextAssumption DEF TypeOK, Staged
  <2>6. /\ conf' = [conf EXCEPT ![f] = next[f]]
        /\ next' = [next EXCEPT ![f] = NoFile]
    BY <1>13, <2>5 DEF Install
  <2>7. ASSUME NEW y \in subs, NEW g \in FilesOf(y), g # f
        PROVE  conf'[g] = conf[g] /\ next'[g] = next[g]
    BY <2>6, <2>7, Parts, Zenon DEF TypeOK, Files
  <2>8. conf'[f] = Text(f, new)
    BY <2>5, <2>6 DEF TypeOK, Files
  <2>9. \A y \in pending : f \notin FilesOf(y)
    BY <2>2, <2>3, Parts DEF TypeOK
  <2>10. UNCHANGED <<phase, subs, pending, new>>
    BY <1>13 DEF Install, Do, event
  <2>11. QED
    BY <2>2, <2>4, <2>7, <2>8, <2>9, <2>10 DEF TypeOK, Staged
<1>14. CASE Apart
  <2>1. PICK x \in subs \ pending : /\ phase = "done" /\ x \in Sub
                                    /\ InstallingGoesOn(x, ops)
    BY <1>14, Installs DEF Apart
  <2>2. With("install", ops') = With("install", ops)
    BY <1>14, <2>1, Nothing, Zenon DEF Apart, InstallingGoesOn
  <2>3. QED
    BY <1>14, <2>1, <2>2 DEF Staged, Apart, event, files
<1>15. CASE Crash
  BY <1>15 DEF Staged, Crash, files, Busy
<1>16. CASE Aside
  BY <1>16 DEF Staged, Aside, event, files
<1>17. QED
  BY <1>1, <1>2, <1>3, <1>4, <1>5, <1>6, <1>7, <1>8, <1>9, <1>10, <1>11,
     <1>12, <1>13, <1>14, <1>15, <1>16, Steps

(* The operation at hand is not the second rename.                         *)
Beyond == ops # << >> => Head(ops).do # "install"

(* The second rename is only ever at hand after the first one.             *)
LEMMA Elsewhere ==
  ASSUME TypeOK, Control, [Next]_vars
  PROVE  \/ Beyond' \/ UNCHANGED <<ops, conf>>
         \/ \E g \in File : Backup(g)
<1> DEFINE Goal == \/ Beyond' \/ UNCHANGED <<ops, conf>>
                   \/ \E g \in File : Backup(g)
<1>1. ASSUME NEW c \in Config, Begin(c) PROVE Goal
  BY <1>1 DEF Begin, files
<1>2. CASE Store
  BY <1>2 DEF Store, files
<1>3. CASE Refuse
  BY <1>3 DEF Refuse, Refused, files
<1>4. CASE End
  BY <1>4 DEF End, files
<1>5. ASSUME NEW x \in Sub, Change(x) PROVE Goal
  <2>1. StagingGoesOn(x, ops')
    BY <1>5, Starts, StagingStep DEF Change
  <2>2. QED
    BY <2>1 DEF Beyond, StagingGoesOn
<1>6. ASSUME NEW x \in Sub, ChangeFails(x) PROVE Goal
  BY <1>6 DEF ChangeFails, Refused
<1>7. ASSUME NEW x \in Sub, Abort(x) PROVE Goal
  BY <1>7 DEF Abort, Call, event
<1>8. ASSUME NEW x \in Sub, Done(x) PROVE Goal
  BY <1>8, Starts DEF Done, Beyond
<1>9. ASSUME NEW f \in File, Remove(f) PROVE Goal
  <2>1. /\ ops # << >> /\ ops' = Tail(ops)
        /\ Head(ops).do = "remove" /\ Head(ops).file = f
    BY <1>9, Doing DEF Remove
  <2>2. PICK x \in subs \ pending : x \in Sub /\ StagingGoesOn(x, ops)
    BY <2>1, Stages
  <2>3. ops' # << >> => StagingGoesOn(x, ops')
    BY <2>1, <2>2, StagingStep, Zenon DEF StagingGoesOn
  <2>4. QED
    BY <2>3 DEF Beyond, StagingGoesOn
<1>10. ASSUME NEW f \in File, Stage(f) PROVE Goal
  <2>1. /\ ops # << >> /\ ops' = Tail(ops)
        /\ Head(ops).do = "stage" /\ Head(ops).file = f
    BY <1>10, Doing DEF Stage
  <2>2. PICK x \in subs \ pending : x \in Sub /\ StagingGoesOn(x, ops)
    BY <2>1, Stages
  <2>3. ops' # << >> => StagingGoesOn(x, ops')
    BY <2>1, <2>2, StagingStep, Zenon DEF StagingGoesOn
  <2>4. QED
    BY <2>3 DEF Beyond, StagingGoesOn
<1>11. ASSUME NEW f \in File, Drop(f) PROVE Goal
  <2>1. /\ ops # << >> /\ ops' = Tail(ops)
        /\ Head(ops).do = "drop" /\ Head(ops).file = f
    BY <1>11, Doing DEF Drop
  <2>2. PICK x \in subs \ pending : x \in Sub /\ InstallingGoesOn(x, ops)
    BY <2>1, Installs
  <2>3. QED
    BY <2>1, <2>2 DEF Beyond, InstallingGoesOn
<1>12. ASSUME NEW f \in File, Backup(f) PROVE Goal
  BY <1>12
<1>13. ASSUME NEW f \in File, Install(f) PROVE Goal
  <2>1. /\ ops # << >> /\ ops' = Tail(ops)
        /\ Head(ops).do = "install" /\ Head(ops).file = f
    BY <1>13, Doing DEF Install
  <2>2. PICK x \in subs \ pending : x \in Sub /\ InstallingGoesOn(x, ops)
    BY <2>1, Installs
  <2>3. QED
    BY <2>1, <2>2 DEF Beyond, InstallingGoesOn
<1>14. CASE Apart
  <2>1. PICK x \in subs \ pending : x \in Sub /\ InstallingGoesOn(x, ops)
    BY <1>14, Installs DEF Apart
  <2>2. Tail(ops) # << >> => Head(Tail(ops)).do # "install"
    BY <1>14, <2>1 DEF Apart, InstallingGoesOn
  <2>3. QED
    BY <1>14, <2>2, OpFields DEF Apart, Beyond
<1>15. CASE Crash
  BY <1>15 DEF Beyond, Crash
<1>16. CASE Aside
  BY <1>16 DEF Aside, event, files
<1>17. QED
  BY <1>1, <1>2, <1>3, <1>4, <1>5, <1>6, <1>7, <1>8, <1>9, <1>10, <1>11,
     <1>12, <1>13, <1>14, <1>15, <1>16, Steps

(* The first rename.                                                       *)
LEMMA BackupStep ==
  ASSUME TypeOK, Control, NEW f \in File, Backup(f)
  PROVE  /\ ops # << >> /\ Head(ops) = Op("backup", f)
         /\ ops' # << >> /\ Head(ops') = Op("install", f)
         /\ conf'[f] = NoFile
         /\ \A g \in File : g # f => conf'[g] = conf[g]
<1>1. ops # << >> /\ Head(ops) = Op("backup", f) /\ ops' = Tail(ops)
  BY DEF Backup, Do
<1>2. PICK x \in subs \ pending : x \in Sub /\ InstallingGoesOn(x, ops)
  BY <1>1, Installs, OpFields
<1>3. ops' # << >> /\ Head(ops') = Op("install", f)
  BY <1>1, <1>2, OpFields DEF InstallingGoesOn
<1>4. conf'[f] = NoFile /\ \A g \in File : g # f => conf'[g] = conf[g]
  BY DEF Backup, TypeOK, Files
<1>5. QED
  BY <1>1, <1>3, <1>4

(* A file that is about to be installed has just been renamed.             *)
LEMMA AwayStep ==
  ASSUME TypeOK, Control, Away, [Next]_vars
  PROVE  Away'
<1>1. CASE Beyond'
  BY <1>1, OpFields DEF Beyond, Away
<1>2. CASE UNCHANGED <<ops, conf>>
  BY <1>2 DEF Away
<1>3. ASSUME NEW f \in File, Backup(f) PROVE Away'
  BY <1>3, BackupStep, OpFields DEF Away
<1>4. QED
  BY <1>1, <1>2, <1>3, Elsewhere

(* What a change does not concern stays as it is, and what it concerns is  *)
(* installed at its end.                                                   *)
LEMMA KeptStep ==
  ASSUME IInv, Kept, [Next]_vars
  PROVE  Kept'
<1> USE DEF IInv
<1> DEFINE Same == /\ UNCHANGED <<subs, running, stored, torn, conf>>
                   /\ phase = "done" => phase' = "done"
<1>0. ASSUME Same PROVE Kept'
  BY <1>0, Zenon DEF Kept
<1>1. ASSUME NEW c \in Config, Begin(c) PROVE Kept'
  BY <1>1 DEF Kept, Begin, event, files, Diff
<1>2. CASE Store
  <2>1. subs = Diff(new) /\ running \in stored \cup {Default}
    BY <1>2 DEF Store, Control
  <2>2. ASSUME NEW x \in Sub \ torn, x \notin subs, NEW f \in FilesOf(x)
        PROVE  \/ conf[f] = Text(f, new)
               \/ conf[f] = Shipped /\ \A c \in stored \cup {new} : c[x] = Default[x]
    <3>1. new[x] = running[x]
      BY <2>1, <2>2 DEF Diff
    <3>2. Text(f, new) = Text(f, running)
      BY <3>1, Parts DEF TypeOK
    <3>3. \/ conf[f] = Text(f, running)
          \/ conf[f] = Shipped /\ \A c \in stored : c[x] = Default[x]
      BY <2>2 DEF Kept
    <3>4. QED
      BY <2>1, <3>1, <3>2, <3>3
  <2>3. /\ UNCHANGED <<subs, torn, conf>>
        /\ running' = new /\ stored' = stored \cup {new}
    BY <1>2 DEF Store, files
  <2>4. phase' = "done"
    BY <1>2 DEF Store
  <2>5. QED
    BY <2>2, <2>3, <2>4 DEF Kept
<1>3. CASE Refuse
  BY <1>3, <1>0 DEF Refuse, Refused, files
<1>4. CASE End
  <2>1. ASSUME phase = "done", NEW x \in subs, NEW f \in FilesOf(x)
        PROVE  conf[f] = Text(f, running)
    BY <1>4, <2>1, Nothing DEF End, Control, Staged
  <2>2. UNCHANGED <<subs, running, stored, torn, conf>>
    BY <1>4 DEF End, files
  <2>3. phase \in {"done", "abort"}
    BY <1>4 DEF End
  <2>4. QED
    BY <2>1, <2>2, <2>3 DEF Kept
<1>5. ASSUME NEW x \in Sub, Change(x) PROVE Kept'
  BY <1>5, <1>0 DEF Change, Call, event, files
<1>6. ASSUME NEW x \in Sub, ChangeFails(x) PROVE Kept'
  BY <1>6, <1>0 DEF ChangeFails, Refused
<1>7. ASSUME NEW x \in Sub, Abort(x) PROVE Kept'
  BY <1>7, <1>0 DEF Abort, Call, event
<1>8. ASSUME NEW x \in Sub, Done(x) PROVE Kept'
  <2>1. x \in subs /\ phase = "done"
    BY <1>8 DEF Done, Call, TypeOK
  <2>2. /\ UNCHANGED <<phase, subs, running, stored, conf>>
        /\ torn' = torn \ {x}
    BY <1>8 DEF Done, Call, event, files
  <2>3. QED
    BY <2>1, <2>2 DEF Kept
<1>9. ASSUME NEW f \in File, Remove(f) PROVE Kept'
  BY <1>9, <1>0 DEF Remove, Do, event
<1>10. ASSUME NEW f \in File, Stage(f) PROVE Kept'
  BY <1>10, <1>0 DEF Stage, Do, event
<1>11. ASSUME NEW f \in File, Drop(f) PROVE Kept'
  BY <1>11, <1>0, Zenon DEF Drop, Do, event
<1>12. ASSUME NEW f \in File, Backup(f) PROVE Kept'
  <2>1. /\ ops # << >>
        /\ Head(ops).do = "backup" /\ Head(ops).file = f
    BY <1>12, Doing DEF Backup
  <2>2. PICK x \in subs \ pending : /\ phase = "done" /\ x \in Sub
                                    /\ InstallingGoesOn(x, ops)
    BY <2>1, Installs, Zenon
  <2>3. f \in FilesOf(x)
    BY <2>1, <2>2 DEF InstallingGoesOn
  <2>4. \A g \in File : g # f => conf'[g] = conf[g]
    BY <1>12 DEF TypeOK, Files, Backup
  <2>5. UNCHANGED <<phase, subs, running, stored, torn>>
    BY <1>12, Zenon DEF Backup, Do, event
  <2>6. ASSUME NEW y \in Sub, y \notin subs, NEW g \in FilesOf(y)
        PROVE  conf'[g] = conf[g]
    BY <2>2, <2>3, <2>4, <2>6, Parts, Zenon
  <2>7. QED
    BY <2>2, <2>5, <2>6, Zenon DEF Kept
<1>13. ASSUME NEW f \in File, Install(f) PROVE Kept'
  <2>1. /\ ops # << >>
        /\ Head(ops).do = "install" /\ Head(ops).file = f
    BY <1>13, Doing DEF Install
  <2>2. PICK x \in subs \ pending : /\ phase = "done" /\ x \in Sub
                                    /\ InstallingGoesOn(x, ops)
    BY <2>1, Installs
  <2>3. f \in FilesOf(x)
    BY <2>1, <2>2 DEF InstallingGoesOn
  <2>4. \A g \in File : g # f => conf'[g] = conf[g]
    BY <1>13 DEF TypeOK, Files, Install
  <2>5. UNCHANGED <<phase, subs, running, stored, torn>>
    BY <1>13 DEF Install, Do, event
  <2>6. ASSUME NEW y \in Sub, y \notin subs, NEW g \in FilesOf(y)
        PROVE  conf'[g] = conf[g]
    BY <2>2, <2>3, <2>4, <2>6, Parts
  <2>7. QED
    BY <2>2, <2>5, <2>6 DEF Kept
<1>14. CASE Apart
  BY <1>14, <1>0 DEF Apart, event, files
<1>15. CASE Crash
  <2>1. ASSUME phase = "done", NEW x \in subs \ torn', NEW f \in FilesOf(x)
        PROVE  conf[f] = Text(f, running)
    <3>1. x \in subs \ pending /\ x \notin Busy /\ x \in Sub
      BY <1>15, <2>1 DEF Crash, TypeOK
    <3>2. f \notin With("install", ops)
      <4>1. CASE ops = << >>
        BY <4>1, Nothing, Zenon
      <4>2. CASE ops # << >>
        <5>1. PICK y \in subs \ pending :
                \/ phase = "change" /\ ops \in StagingLeft(y)
                \/ phase = "done" /\ ops \in InstallingLeft(y)
          BY <4>2 DEF Control
        <5>2. y \in Sub /\ InstallingGoesOn(y, ops)
          BY <2>1, <5>1, InstallingStep DEF TypeOK
        <5>3. y # x
          BY <3>1, <4>2, <5>2 DEF Busy, InstallingGoesOn
        <5>4. QED
          BY <3>1, <5>2, <5>3, Parts DEF InstallingGoesOn
      <4>3. QED
        BY <4>1, <4>2
    <3>3. QED
      BY <2>1, <3>1, <3>2 DEF Control, Staged
  <2>2. UNCHANGED <<subs, running, stored, conf>> /\ torn \subseteq torn'
    BY <1>15 DEF Crash, files
  <2>3. QED
    BY <2>1, <2>2, Zenon DEF Kept, TypeOK
<1>16. CASE Aside
  BY <1>16, <1>0 DEF Aside, event, files
<1>17. QED
  BY <1>1, <1>2, <1>3, <1>4, <1>5, <1>6, <1>7, <1>8, <1>9, <1>10, <1>11,
     <1>12, <1>13, <1>14, <1>15, <1>16, Steps

(* The text that is installed is that of the stored configuration.         *)
LEMMA InstallsText ==
  ASSUME IInv, NEW f \in File,
         ops # << >>, Head(ops) \in {Op("backup", f), Op("install", f)}
  PROVE  /\ phase = "done" /\ running = new /\ new \in stored
         /\ next[f] = Text(f, new) /\ next[f] # NoFile
<1> USE DEF IInv
<1>1. PICK x \in subs \ pending : /\ phase = "done" /\ x \in Sub
                                  /\ InstallingGoesOn(x, ops)
  BY Installs, OpFields, Zenon
<1>2. f \in With("install", ops) /\ f \in FilesOf(x)
  BY <1>1, OpFields DEF InstallingGoesOn
<1>3. QED
  BY <1>1, <1>2, TextAssumption DEF TypeOK, Control, Staged

(* What is installed has been stored.                                      *)
LEMMA OnlyStoredStep ==
  ASSUME IInv, OnlyStored, [Next]_vars
  PROVE  OnlyStored'
<1> USE DEF IInv
<1>0. ASSUME UNCHANGED <<conf, prev>>, stored \subseteq stored' PROVE OnlyStored'
  BY <1>0 DEF OnlyStored
<1>1. ASSUME NEW c \in Config, Begin(c) PROVE OnlyStored'
  BY <1>1, <1>0 DEF Begin, event, files
<1>2. CASE Store
  BY <1>2, <1>0 DEF Store, files
<1>3. CASE Refuse
  BY <1>3, <1>0 DEF Refuse, Refused, files
<1>4. CASE End
  BY <1>4, <1>0 DEF End, files
<1>5. ASSUME NEW x \in Sub, Change(x) PROVE OnlyStored'
  BY <1>5, <1>0 DEF Change, Call, event, files
<1>6. ASSUME NEW x \in Sub, ChangeFails(x) PROVE OnlyStored'
  BY <1>6, <1>0 DEF ChangeFails, Refused
<1>7. ASSUME NEW x \in Sub, Abort(x) PROVE OnlyStored'
  BY <1>7, <1>0 DEF Abort, Call, event
<1>8. ASSUME NEW x \in Sub, Done(x) PROVE OnlyStored'
  BY <1>8, <1>0 DEF Done, Call, event, files
<1>9. ASSUME NEW f \in File, Remove(f) PROVE OnlyStored'
  BY <1>9, <1>0 DEF Remove, Do, event
<1>10. ASSUME NEW f \in File, Stage(f) PROVE OnlyStored'
  BY <1>10, <1>0 DEF Stage, Do, event
<1>11. ASSUME NEW f \in File, Drop(f) PROVE OnlyStored'
  <2>1. \A g \in File : prev'[g] \in {prev[g], NoFile}
    BY <1>11 DEF TypeOK, Files, Drop
  <2>2. UNCHANGED <<conf, stored>>
    BY <1>11 DEF Drop, Do, event
  <2>3. QED
    BY <2>1, <2>2 DEF OnlyStored
<1>12. ASSUME NEW f \in File, Backup(f) PROVE OnlyStored'
  <2>1. \A g \in File : /\ conf'[g] \in {conf[g], NoFile}
                        /\ prev'[g] \in {prev[g], conf[g]}
    BY <1>12 DEF TypeOK, Files, Backup
  <2>2. UNCHANGED stored
    BY <1>12 DEF Backup, Do, event
  <2>3. QED
    BY <2>1, <2>2 DEF OnlyStored
<1>13. ASSUME NEW f \in File, Install(f) PROVE OnlyStored'
  <2>1. next[f] = Text(f, new) /\ next[f] # NoFile /\ new \in stored
    BY <1>13, InstallsText DEF Install, Do
  <2>2. conf' = [conf EXCEPT ![f] = next[f]]
    BY <1>13, <2>1 DEF Install
  <2>3. UNCHANGED <<prev, stored>>
    BY <1>13 DEF Install, Do, event
  <2>4. QED
    BY <2>1, <2>2, <2>3 DEF OnlyStored
<1>14. CASE Apart
  BY <1>14, <1>0 DEF Apart, event, files
<1>15. CASE Crash
  BY <1>15, <1>0 DEF Crash, files
<1>16. CASE Aside
  BY <1>16, <1>0 DEF Aside, event, files
<1>17. QED
  BY <1>1, <1>2, <1>3, <1>4, <1>5, <1>6, <1>7, <1>8, <1>9, <1>10, <1>11,
     <1>12, <1>13, <1>14, <1>15, <1>16, Steps

(* All of it holds at first.                                               *)
LEMMA Initially == Init => IInv /\ Kept /\ OnlyStored
<1> SUFFICES ASSUME Init PROVE IInv /\ Kept /\ OnlyStored
  OBVIOUS
<1>1. TypeOK
  BY ConfigAssumption DEF Init, TypeOK, Files
<1>2. Control /\ Staged /\ Away
  BY Zenon DEF Init, Control, Staged, Away
<1>3. Kept
  BY Parts DEF Init, Kept
<1>4. OnlyStored
  BY DEF Init, OnlyStored
<1>5. QED
  BY <1>1, <1>2, <1>3, <1>4 DEF IInv

(* The inductive invariant holds throughout.                               *)
THEOREM Inductive == Spec => []IInv
<1>1. Init => IInv
  BY Initially
<1>2. IInv /\ [Next]_vars => IInv'
  BY TypeStep, ControlStep, StagedStep, AwayStep DEF IInv
<1>3. QED
  BY <1>1, <1>2, PTL DEF Spec

(* OnlyStored: no text of a changeset that was refused or lost is ever     *)
(* installed.                                                              *)
THEOREM OnlyStoredCorrect == Spec => []OnlyStored
<1>1. Init => OnlyStored
  BY Initially
<1>2. IInv /\ OnlyStored /\ [Next]_vars => OnlyStored'
  BY OnlyStoredStep
<1>3. QED
  BY <1>1, <1>2, Inductive, PTL DEF Spec

(* Installed: between changesets the files say what is configured, if no   *)
(* DONE of that part was lost in a crash since.                            *)
THEOREM InstalledCorrect == Spec => []Installed
<1>1. Init => Kept
  BY Initially
<1>2. IInv /\ Kept /\ [Next]_vars => Kept'
  BY KeptStep
<1>3. Kept => Installed
  BY DEF Kept, Installed
<1>4. QED
  BY <1>1, <1>2, <1>3, Inductive, PTL DEF Spec

-----------------------------------------------------------------------------
(***************************************************************************)
(* SystemFiles implements AtomicFiles.                                     *)
(***************************************************************************)

(* What readers see: the installed file, or the staged one between the two *)
(* renames.                                                                *)
LEMMA Reading ==
  ASSUME IInv
  PROVE  /\ Beyond => \A f \in File : Shown(f) = conf[f]
         /\ \A f \in File : ops # << >> /\ Head(ops) = Op("install", f) =>
              /\ Shown(f) = next[f]
              /\ \A g \in File : g # f => Shown(g) = conf[g]
<1>1. Beyond => \A f \in File : Shown(f) = conf[f]
  BY OpFields DEF Beyond, Shown
<1>2. ASSUME NEW f \in File, ops # << >>, Head(ops) = Op("install", f)
      PROVE  Shown(f) = next[f] /\ \A g \in File : g # f => Shown(g) = conf[g]
  BY <1>2, OpFields DEF IInv, Away, Shown
<1>3. QED
  BY <1>1, <1>2

(* A step that is neither a rename, nor a crash, shows nothing.            *)
LEMMA Hidden ==
  ASSUME IInv, Beyond, Beyond', UNCHANGED conf
  PROVE  \A f \in File : Shown(f)' = Shown(f)
  BY OpFields DEF Beyond, Shown

(* Every step is one of the abstract specification, or leaves it as it is. *)
LEMMA RefinementStep ==
  ASSUME IInv, IInv', [Next]_vars
  PROVE  [Atomic!Next]_(Atomic!vars)
<1> DEFINE Shows == [f \in File |-> Shown(f)]
           Same == /\ UNCHANGED <<running, crashes>>
                   /\ \A f \in File : Shown(f)' = Shown(f)
<1>1. ASSUME Same PROVE UNCHANGED Atomic!vars
  BY <1>1 DEF Atomic!vars
<1>2. ASSUME Beyond, UNCHANGED <<running, crashes, conf>>,
             ~ \E g \in File : Backup(g)
      PROVE  Same
  <2>1. Beyond'
    BY <1>2, Elsewhere, Zenon DEF IInv, Beyond
  <2>2. QED
    BY <1>2, <2>1, Hidden
<1>3. ASSUME NEW c \in Config, Begin(c) PROVE Same
  BY <1>3 DEF Begin, files, Shown
<1>4. ASSUME Refuse \/ End \/ Aside PROVE Same
  BY <1>4 DEF Refuse, Refused, End, Aside, event, files, Shown
<1>5. CASE Store
  <2>1. \A f \in File : Shown(f)' = Shown(f)
    BY <1>5 DEF Store, files, Shown
  <2>2. running' \in Config /\ UNCHANGED crashes
    BY <1>5 DEF Store, IInv, TypeOK
  <2>3. Atomic!Store
    BY <2>1, <2>2 DEF Atomic!Store
  <2>4. QED
    BY <2>3 DEF Atomic!Next
<1>6. ASSUME NEW x \in Sub, Change(x) \/ ChangeFails(x) \/ Abort(x) \/ Done(x)
      PROVE  Same
  <2>1. ops = << >>
    BY <1>6 DEF Change, ChangeFails, Abort, Done, Call
  <2>2. Beyond /\ \A g \in File : ~ Backup(g)
    BY <2>1, Zenon DEF Beyond, Backup, Do
  <2>3. UNCHANGED <<running, crashes, conf>>
    BY <1>6 DEF Change, ChangeFails, Refused, Abort, Done, Call, event, files
  <2>4. QED
    BY <1>2, <2>2, <2>3, Zenon
<1>7. ASSUME NEW f \in File, Remove(f) \/ Stage(f) \/ Drop(f) PROVE Same
  <2>1. Head(ops).do \in {"remove", "stage", "drop"}
    BY <1>7, Doing DEF Remove, Stage, Drop
  <2>2. Beyond /\ \A g \in File : ~ Backup(g)
    BY <2>1, Doing DEF Beyond, Backup
  <2>3. UNCHANGED <<running, crashes, conf>>
    BY <1>7 DEF Remove, Stage, Drop, Do, event
  <2>4. QED
    BY <1>2, <2>2, <2>3
<1>8. ASSUME Apart PROVE Same
  <2>1. Beyond /\ \A g \in File : ~ Backup(g)
    BY <1>8, Doing DEF Apart, Beyond, Backup
  <2>2. UNCHANGED <<running, crashes, conf>>
    BY <1>8 DEF Apart, event, files
  <2>3. QED
    BY <1>2, <2>1, <2>2
<1>9. ASSUME NEW f \in File, Backup(f) PROVE Atomic!Next
  <2>1. /\ ops # << >> /\ Head(ops) = Op("backup", f)
        /\ ops' # << >> /\ Head(ops') = Op("install", f)
        /\ \A g \in File : g # f => conf'[g] = conf[g]
    BY <1>9, BackupStep DEF IInv
  <2>2. next[f] = Text(f, running)
    BY <2>1, InstallsText
  <2>3. UNCHANGED <<running, crashes, next>>
    BY <1>9 DEF Backup, Do, event
  <2>4. Beyond
    BY <2>1, OpFields DEF Beyond
  <2>5. \A g \in File : Shown(g) = conf[g]
    BY <2>4, Reading, Zenon
  <2>6. Shown(f)' = next[f] /\ \A g \in File : g # f => Shown(g)' = conf'[g]
    BY <2>1, <2>3, OpFields DEF IInv, Away, Shown
  <2>7. Shows' = [Shows EXCEPT ![f] = Text(f, running)]
    BY <2>1, <2>2, <2>5, <2>6, Zenon
  <2>8. Atomic!Show(f)
    BY <2>3, <2>7 DEF Atomic!Show
  <2>9. QED
    BY <2>8, Zenon DEF Atomic!Next
<1>10. ASSUME NEW f \in File, Install(f) PROVE Same
  <2>1. ops # << >> /\ Head(ops) = Op("install", f)
    BY <1>10 DEF Install, Do
  <2>2. next[f] # NoFile
    BY <2>1, InstallsText
  <2>3. conf'[f] = next[f] /\ \A g \in File : g # f => conf'[g] = conf[g]
    BY <1>10, <2>2 DEF Install, IInv, TypeOK, Files
  <2>4. Shown(f) = next[f] /\ \A g \in File : g # f => Shown(g) = conf[g]
    BY <2>1, Reading, Zenon
  <2>5. Beyond'
    <3>1. PICK x \in subs \ pending : x \in Sub /\ InstallingGoesOn(x, ops)
      BY <2>1, Installs, OpFields DEF IInv
    <3>2. Head(ops).do # "backup" /\ ops' = Tail(ops)
      BY <1>10, <2>1, OpFields DEF Install
    <3>3. QED
      BY <3>1, <3>2 DEF Beyond, InstallingGoesOn
  <2>6. \A g \in File : Shown(g)' = conf'[g]
    BY <2>5, OpFields DEF Beyond, Shown
  <2>7. UNCHANGED <<running, crashes>>
    BY <1>10 DEF Install, Do, event
  <2>8. QED
    BY <2>3, <2>4, <2>6, <2>7
<1>11. CASE Crash
  <2>1. UNCHANGED <<running, conf>> /\ ops' = << >> /\ crashes' = crashes + 1
    BY <1>11 DEF Crash, files
  <2>2. \A g \in File : Shown(g)' = conf[g]
    BY <2>1 DEF Shown
  <2>3. CASE Beyond
    <3>1. UNCHANGED Shows
      BY <2>2, <2>3, Reading
    <3>2. Atomic!Crash
      BY <2>1, <3>1 DEF Atomic!Crash
    <3>3. QED
      BY <3>2 DEF Atomic!Next
  <2>4. ASSUME NEW f \in File, ops # << >>, Head(ops) = Op("install", f)
        PROVE  Atomic!Next
    <3>1. conf[f] = NoFile /\ \A g \in File : g # f => Shown(g) = conf[g]
      BY <2>4, Reading, Zenon DEF IInv, Away
    <3>2. Shows' = [Shows EXCEPT ![f] = NoFile]
      BY <2>2, <3>1, Zenon
    <3>3. Atomic!Crash
      BY <2>1, <3>2, Zenon DEF Atomic!Crash
    <3>4. QED
      BY <3>3 DEF Atomic!Next
  <2>5. Beyond \/ \E f \in File : ops # << >> /\ Head(ops) = Op("install", f)
    <3> SUFFICES ASSUME ops # << >>, Head(ops).do = "install"
                 PROVE  \E f \in File : Head(ops) = Op("install", f)
      BY DEF Beyond
    <3>1. PICK x \in subs \ pending : x \in Sub /\ InstallingGoesOn(x, ops)
      BY Installs DEF IInv
    <3>2. Head(ops) = Op("install", Head(ops).file) /\ Head(ops).file \in File
      BY <3>1 DEF InstallingGoesOn, FilesOf, File, Sub
    <3>3. QED
      BY <3>2
  <2>6. QED
    BY <2>3, <2>4, <2>5
<1>12. QED
  BY <1>1, <1>3, <1>4, <1>5, <1>6, <1>7, <1>8, <1>9, <1>10, <1>11, Steps

(* Replaces: the three renames amount to one atomic replacement.           *)
THEOREM ReplacesCorrect == Spec => Replaces
<1>1. Init => Atomic!Init
  BY ConfigAssumption DEF Init, Atomic!Init, Shown
<1>2. IInv /\ IInv' /\ [Next]_vars => [Atomic!Next]_(Atomic!vars)
  BY RefinementStep
<1>3. QED
  BY <1>1, <1>2, Inductive, PTL DEF Spec, Replaces, Atomic!Spec

=============================================================================
