-------------------------- MODULE EdgeServerProofs --------------------------
(***************************************************************************)
(* Proofs about the edge server, for any number of clients, handles,       *)
(* regions and entities, whatever commands and events there may be, hasty  *)
(* clients and late answers included.                                      *)
(*                                                                         *)
(* Typing alone is not inductive: a step reads from its job what an        *)
(* earlier one put there, so JobsReady says of each pc, and of each place  *)
(* a job will return to, what the job then holds.  IndexAgrees needs that  *)
(* what a remap removes is not the entity it lands on, which is            *)
(* NoneReplacesItself.                                                     *)
(*                                                                         *)
(* That the clients' indices agree with the entities is proved for edges   *)
(* none of whose entities changes region (StayPut).  HomeInv says whose    *)
(* everything is in the middle of a step: an entity asked for is its       *)
(* thread's alone until it is bound, one that was dropped is still owed an *)
(* unbinding by the thread that dropped it, and nothing else refers to     *)
(* what was not bound (Known).  A step leaves all of that be, or starts,   *)
(* binds, parts with or unbinds one entity (HomeStep).                     *)
(***************************************************************************)
EXTENDS EdgeServer, FiniteSetTheorems, SequenceTheorems, TLAPS

(* What a thread in the middle of something has in hand for it.            *)
JobReady(j, n) ==
    /\ j.pc = "idle" => j = Idle
    /\ j.pc = "ask" => j.other \in Key /\ j.dest \in Region
    /\ j.pc \in {"begin", "decide"} => j.key \in Key /\ j.dest \in Region
    /\ j.pc = "decide" => j.key < n
    /\ j.pc \in {"link", "carry", "note"} \/ j.next = "link" =>
          j.key \in Key /\ j.other \in Key /\ j.key # j.other
    /\ j.pc = "remap" => j.key \in Key /\ j.other \in Key /\ j.key # j.other
    /\ j.pc \in {"remap", "landed"} \/ j.next = "landed" \/ j.after = "landed" =>
          j.key \in Key /\ j.dest \in Region
    /\ j.pc \in {"rehandle", "resend", "stand", "arrive"} =>
          j.key \in Key /\ j.other \in Key /\ j.dest \in Region
    /\ j.pc = "unhold" \/ j.next = "unhold" => j.dest \in Region
    /\ j.pc \in {"release", "forget", "unbind", "uncarry"} => j.victim \in Key
    /\ j.pc = "say" => j.word \in Word

JobsReady == \A t \in Thread : JobReady(job[t], minted)

(* No entity replaces itself.                                              *)
NoneReplacesItself == \A k \in Key : Held(k) => ent[k].replaces # k

IInv == TypeOK /\ JobsReady /\ NoneReplacesItself /\ IndexAgrees

-----------------------------------------------------------------------------
LEMMA ThreadFacts ==
    /\ \A c \in Client : c \in Thread /\ c # "reader" /\ c # "publisher" /\ c # "game"
    /\ "reader" \in Thread /\ "publisher" \in Thread /\ "game" \in Thread
  BY EdgeServerAssumption DEF Thread

LEMMA NoneFacts ==
    /\ None \notin Key /\ None \notin Client /\ None \notin Handle /\ None \notin Region
    /\ None \notin EntityType /\ None \notin ClientType
    /\ Key \subseteq Nat
  BY EdgeServerAssumption DEF Key

LEMMA IdleReady == Idle \in JobType /\ \A n : JobReady(Idle, n)
<1>1. <<>> \in Seq(Word)
  OBVIOUS
<1>2. Idle \in JobType
  BY <1>1, EdgeServerAssumption DEF Idle, JobType, Steps, Returns, Afters
<1>3. QED
  BY <1>2 DEF Idle, JobReady

(* A step that gives thread t a new job, and leaves the others theirs.     *)
LEMMA NewJob ==
    ASSUME job \in [Thread -> JobType], JobsReady, minted \in Nat,
           minted' \in Nat, minted <= minted',
           NEW t \in Thread, NEW j \in JobType, JobReady(j, minted'),
           job' = [job EXCEPT ![t] = j]
    PROVE  job' \in [Thread -> JobType] /\ JobsReady'
<1>1. job' \in [Thread -> JobType]
  OBVIOUS
<1>2. ASSUME NEW u \in Thread PROVE JobReady(job'[u], minted')
  <2>1. CASE u = t
    BY <2>1
  <2>2. CASE u # t
    <3>1. job'[u] = job[u] /\ JobReady(job[u], minted)
      BY <2>2 DEF JobsReady
    <3>2. job[u].pc = "decide" => job[u].key \in Nat
      BY <3>1, NoneFacts DEF JobReady
    <3>3. QED
      BY <3>1, <3>2 DEF JobReady
  <2>3. QED
    BY <2>1, <2>2
<1>3. QED
  BY <1>1, <1>2 DEF JobsReady

LEMMA SameJobs ==
    ASSUME job \in [Thread -> JobType], JobsReady, minted \in Nat,
           minted' \in Nat, minted <= minted', UNCHANGED job
    PROVE  job' \in [Thread -> JobType] /\ JobsReady'
<1>1. ASSUME NEW u \in Thread PROVE JobReady(job'[u], minted')
  <2>1. JobReady(job[u], minted)
    BY DEF JobsReady
  <2>2. job[u].pc = "decide" => job[u].key \in Nat
    BY <2>1, NoneFacts DEF JobReady
  <2>3. QED
    BY <2>1, <2>2 DEF JobReady
<1>2. QED
  BY <1>1 DEF JobsReady

(* What a new job may say of each thing a thread has in hand.              *)
Fields(new) ==
    /\ DOMAIN new \subseteq DOMAIN Idle
    /\ "pc" \in DOMAIN new => new.pc \in Steps
    /\ "key" \in DOMAIN new => new.key \in Key \cup {None}
    /\ "other" \in DOMAIN new => new.other \in Key \cup {None}
    /\ "client" \in DOMAIN new => new.client \in Client \cup {None}
    /\ "handle" \in DOMAIN new => new.handle \in Handle \cup {None}
    /\ "dest" \in DOMAIN new => new.dest \in Region \cup {None}
    /\ "carry" \in DOMAIN new => new.carry \in BOOLEAN
    /\ "shadow" \in DOMAIN new => new.shadow \in BOOLEAN
    /\ "word" \in DOMAIN new => new.word \in 0 .. MaxWords
    /\ "words" \in DOMAIN new => new.words \in Seq(Word)
    /\ "reach" \in DOMAIN new => new.reach \in SUBSET Region
    /\ "keep" \in DOMAIN new => new.keep \in SUBSET Key
    /\ "had" \in DOMAIN new => new.had \in SUBSET (Key \X Region)
    /\ "due" \in DOMAIN new => new.due \in SUBSET (Key \X Key)
    /\ "victim" \in DOMAIN new => new.victim \in Key \cup {None}
    /\ "of" \in DOMAIN new => new.of \in (Client \cup {None}) \X (Handle \cup {None})
    /\ "todo" \in DOMAIN new => new.todo \in SUBSET Key
    /\ "next" \in DOMAIN new => new.next \in Returns
    /\ "after" \in DOMAIN new => new.after \in Afters

LEMMA WithType ==
    ASSUME NEW j \in JobType, NEW new, Fields(new)
    PROVE  With(j, new) \in JobType
  BY DEF With, JobType, Fields, Idle

LEMMA WithFields ==
    ASSUME NEW j \in JobType, NEW new, Fields(new)
    PROVE  \A f \in DOMAIN Idle :
                With(j, new)[f] = IF f \in DOMAIN new THEN new[f] ELSE j[f]
  BY DEF With, JobType, Fields, Idle

LEMMA MintedIsNat == TypeOK => minted \in Nat /\ MaxKeys \in Nat /\ minted <= MaxKeys
<1> SUFFICES ASSUME TypeOK PROVE minted \in Nat /\ MaxKeys \in Nat /\ minted <= MaxKeys
  OBVIOUS
<1>1. minted \in 0 .. MaxKeys
  BY DEF TypeOK
<1>2. QED
  BY <1>1, EdgeServerAssumption

(* A thread that returns to where an ask, a release or a forget was made.  *)
LEMMA GoneOn ==
    ASSUME NEW j \in JobType, NEW n, JobReady(j, n),
           NEW p \in {j.next, j.after} \ {"rest"}
    PROVE  /\ With(j, [pc |-> p]) \in JobType
           /\ JobReady(With(j, [pc |-> p]), n)
<1>1. p \in Steps /\ p \in (Returns \cup Afters) \ {"rest"}
  BY DEF JobType, Steps
<1>2. With(j, [pc |-> p]) \in JobType
  BY <1>1 DEF With, JobType
<1>3. JobReady(With(j, [pc |-> p]), n)
  <2> DEFINE w == With(j, [pc |-> p])
  <2>1. /\ w.pc = p /\ w.key = j.key /\ w.other = j.other /\ w.dest = j.dest
        /\ w.next = j.next /\ w.after = j.after /\ w.victim = j.victim /\ w.word = j.word
    BY DEF With, JobType
  <2> SUFFICES JobReady(w, n)
    OBVIOUS
  <2> HIDE DEF w
  <2>2. p \in {"link", "unhold"} => p = j.next
    BY DEF JobType, Returns, Afters
  <2>3. CASE p = "link"
    BY <2>1, <2>2, <2>3 DEF JobReady
  <2>4. CASE p = "unhold"
    BY <2>1, <2>2, <2>4 DEF JobReady
  <2>5. CASE p = "landed"
    BY <2>1, <2>5 DEF JobReady
  <2>6. CASE p \in {"todo", "unlist", "view", "finish", "notify", "list"}
    BY <2>1, <2>6 DEF JobReady
  <2>7. QED
    BY <1>1, <2>3, <2>4, <2>5, <2>6 DEF Returns, Afters
<1>4. QED
  BY <1>2, <1>3

(* Keys are only minted, one at a time.                                    *)
LEMMA CommonMints ==
    ASSUME NEW t \in Thread, Common(t)
    PROVE  UNCHANGED minted \/ Mint
<1>1. CASE Ask(t) \/ Release(t)
  BY <1>1 DEF Ask, Release
<1>2. CASE ReleaseUnanswered(t) \/ ReleaseNext(t) \/ CheckLeft(t) \/ Begin(t)
  BY <1>2 DEF ReleaseUnanswered, ReleaseNext, CheckLeft, Begin, OnlyJob, edge
<1>3. CASE Forget(t)
  BY <1>3 DEF Forget, OnlyHeld
<1>4. CASE Unbind(t)
  BY <1>4 DEF Unbind, OnlyClients
<1>5. CASE Disconnected(t)
  BY <1>5 DEF Disconnected
<1>6. CASE Denied(t)
  BY <1>6 DEF Denied, edge
<1>7. CASE \E carry \in BOOLEAN : AskCopy(t, carry)
  BY <1>7 DEF AskCopy, Record
<1>8. CASE Link(t)
  BY <1>8 DEF Link, OnlyEnt
<1>9. CASE Carry(t)
  BY <1>9 DEF Carry, OnlyCarried
<1>10. CASE Note(t)
  BY <1>10 DEF Note, OnlyTransits
<1>11. QED
  BY <1>1, <1>2, <1>3, <1>4, <1>5, <1>6, <1>7, <1>8, <1>9, <1>10 DEF Common

LEMMA CommonJobs ==
    ASSUME TypeOK, JobsReady, NEW t \in Thread, Common(t)
    PROVE  job' \in [Thread -> JobType] /\ JobsReady'
<1> DEFINE j == job[t]
           Becomes == \E new \in JobType :
                        JobReady(new, minted') /\ job' = [job EXCEPT ![t] = new]
<1>1. j \in JobType /\ JobReady(j, minted) /\ job \in [Thread -> JobType]
  BY DEF TypeOK, JobsReady
<1>2. minted \in Nat
  BY MintedIsNat
<1>3. minted' \in Nat /\ minted <= minted'
  BY <1>2, CommonMints DEF Mint
<1>4. SUFFICES Becomes
  BY <1>1, <1>2, <1>3, NewJob
<1>5. CASE Rest(t)
  BY <1>5, IdleReady DEF Rest
<1>6. ASSUME Return(t), UNCHANGED minted PROVE Becomes
  BY <1>1, <1>5, <1>6, GoneOn DEF Return, GoOn, Then
<1>7. CASE Ask(t)
  BY <1>6, <1>7 DEF Ask
<1>8. CASE ReleaseUnanswered(t)
  <2>1. JobReady(With(j, [pc |-> "forget"]), minted) /\ With(j, [pc |-> "forget"]) \in JobType
    BY <1>1, <1>8 DEF JobReady, With, JobType, Steps, ReleaseUnanswered, At
  <2>2. QED
    BY <1>8, <2>1 DEF ReleaseUnanswered, Then, OnlyJob, edge
<1>9. CASE Release(t)
  BY <1>6, <1>9 DEF Release
<1>10. CASE Forget(t)
  <2>1. CASE Return(t)
    BY <1>6, <1>10, <2>1 DEF Forget, OnlyHeld
  <2> DEFINE k == j.victim
             of == <<ent[k].client, ent[k].handle>>
             new == [pc |-> "unbind", of |-> of]
  <2>2. CASE Held(k) /\ Then(t, new)
    <3>1. k \in Key
      BY <1>1, <2>2 DEF Held, JobType
    <3>2. ent[k] \in EntityType
      BY <2>2, <3>1 DEF Held, TypeOK
    <3>3. of \in (Client \cup {None}) \X (Handle \cup {None})
      BY <3>2 DEF EntityType
    <3> HIDE DEF of
    <3>4. With(j, new) \in JobType
      BY <1>1, <3>1, <3>3 DEF With, JobType, Steps
    <3>5. JobReady(With(j, new), minted)
      BY <1>1, <1>10, <3>1 DEF Forget, At, JobReady, With, JobType
    <3>6. QED
      BY <1>10, <2>2, <3>4, <3>5 DEF Forget, Then, OnlyHeld, of
  <2>3. QED
    BY <1>10, <2>1, <2>2 DEF Forget
<1>11. CASE Unbind(t)
  BY <1>6, <1>11 DEF Unbind, OnlyClients
<1>12. CASE ReleaseNext(t)
  <2>1. CASE GoOn(t, j.after)
    BY <1>1, <1>5, <1>12, <2>1, GoneOn DEF GoOn, Then, ReleaseNext, OnlyJob, edge
  <2>2. ASSUME NEW k \in j.todo,
               Then(t, [pc |-> "release", victim |-> k, todo |-> j.todo \ {k}, next |-> "todo"])
        PROVE  Becomes
    <3> DEFINE new == [pc |-> "release", victim |-> k, todo |-> j.todo \ {k}, next |-> "todo"]
    <3>1. k \in Key
      BY <1>1 DEF JobType
    <3>2. With(j, new) \in JobType
      BY <1>1, <3>1 DEF With, JobType, Steps, Returns
    <3>3. JobReady(With(j, new), minted)
      BY <1>1, <1>12, <3>1 DEF ReleaseNext, At, JobReady, With, JobType
    <3>4. QED
      BY <1>12, <2>2, <3>2, <3>3 DEF ReleaseNext, OnlyJob, edge, Then
  <2>3. QED
    BY <1>12, <2>1, <2>2 DEF ReleaseNext
<1>13. CASE CheckLeft(t)
  <2> DEFINE new == [pc |-> "fire"]
  <2>1. With(j, new) \in JobType
    BY <1>1 DEF With, JobType, Steps
  <2>2. JobReady(With(j, new), minted)
    BY <1>1, <1>13 DEF CheckLeft, At, JobReady, With, JobType
  <2>3. QED
    BY <1>5, <1>13, <2>1, <2>2 DEF CheckLeft, OnlyJob, edge, Then
<1>14. CASE Disconnected(t) \/ Denied(t) \/ Note(t)
  BY <1>5, <1>14 DEF Disconnected, Denied, Note
<1>15. CASE Begin(t)
  <2> DEFINE k == j.key
             new == [pc |-> "decide", client |-> ent[k].client]
  <2>1. CASE Held(k) /\ Then(t, new)
    <3>1. k \in Key
      BY <1>1, <2>1 DEF Held, JobType
    <3>2. k < minted /\ ent[k] \in EntityType
      BY <2>1, <3>1 DEF Held, TypeOK
    <3>3. ent[k].client \in Client \cup {None}
      BY <3>2 DEF EntityType
    <3>4. With(j, new) \in JobType
      BY SMTT(30), <1>1, <3>3 DEF With, JobType, Steps
    <3>5. JobReady(With(j, new), minted)
      BY <1>1, <1>15, <3>1, <3>2 DEF Begin, At, JobReady, With, JobType
    <3>6. QED
      BY <1>15, <2>1, <3>4, <3>5 DEF Begin, OnlyJob, edge, Then
  <2>2. QED
    BY <1>5, <1>15, <2>1 DEF Begin
<1>16. ASSUME NEW carry \in BOOLEAN, AskCopy(t, carry) PROVE Becomes
  <2> DEFINE new == [pc |-> "ask", other |-> minted, carry |-> carry, next |-> "link"]
  <2>1. minted \in Key
    BY <1>2, <1>16, MintedIsNat DEF AskCopy, Record, Mint, Key
  <2>2. j.pc = "decide" /\ j.key \in Key /\ j.dest \in Region /\ j.key < minted
    BY <1>1, <1>16 DEF AskCopy, At, JobReady
  <2>3. j.key # minted
    BY <2>2, <1>2, NoneFacts
  <2>4. With(j, new) \in JobType
    BY <1>1, <2>1 DEF With, JobType, Steps, Returns
  <2>5. JobReady(With(j, new), minted')
    BY <1>1, <2>1, <2>2, <2>3 DEF JobReady, With, JobType
  <2>6. QED
    BY <1>16, <2>4, <2>5 DEF AskCopy, Then
<1>17. CASE Link(t)
  <2>1. j.pc = "link" /\ j.key \in Key /\ j.other \in Key /\ j.key # j.other
    BY <1>1, <1>17 DEF Link, At, JobReady
  <2>2. ASSUME NEW p \in {"carry", "note"}, Then(t, [pc |-> p]) PROVE Becomes
    <3>1. With(j, [pc |-> p]) \in JobType
      BY <1>1 DEF With, JobType, Steps
    <3>2. JobReady(With(j, [pc |-> p]), minted)
      BY <1>1, <2>1 DEF JobReady, With, JobType
    <3>3. QED
      BY <1>17, <2>2, <3>1, <3>2 DEF Link, OnlyEnt, Then
  <2> DEFINE new == [pc |-> "release", victim |-> j.other, next |-> "rest"]
  <2>3. With(j, new) \in JobType
    BY <1>1 DEF With, JobType, Steps, Returns
  <2>4. JobReady(With(j, new), minted)
    BY <1>1, <2>1 DEF JobReady, With, JobType
  <2>5. QED
    BY <1>17, <2>2, <2>3, <2>4 DEF Link, OnlyEnt, Then
<1>18. CASE Carry(t)
  <2> DEFINE new == [pc |-> "note"]
  <2>1. With(j, new) \in JobType
    BY <1>1 DEF With, JobType, Steps
  <2>2. JobReady(With(j, new), minted)
    BY <1>1, <1>18 DEF Carry, At, JobReady, With, JobType
  <2>3. QED
    BY <1>18, <2>1, <2>2 DEF Carry, OnlyCarried, Then
<1>19. QED
  BY <1>7, <1>8, <1>9, <1>10, <1>11, <1>12, <1>13, <1>14, <1>15, <1>16, <1>17, <1>18 DEF Common

(* What the reader reads is a report, and it starts from nothing.          *)
LEMMA ReportRead ==
    ASSUME TypeOK, JobsReady, NEW r \in Region, NEW what, Reads(r, what)
    PROVE  /\ presence[r][1] \in ReportType
           /\ presence[r][1].key \in Key /\ presence[r][1].to \subseteq Region
           /\ job["reader"] = Idle
           /\ presence' \in [Region -> Seq(ReportType)]
           /\ UNCHANGED <<inbox, alive, heard, events>>
<1>1. presence \in [Region -> Seq(ReportType)]
  BY DEF TypeOK
<1>2. presence[r] \in Seq(ReportType) /\ presence[r] # <<>>
  BY <1>1 DEF Reads
<1>3. presence[r][1] \in ReportType /\ Tail(presence[r]) \in Seq(ReportType)
  BY <1>2
<1>4. job["reader"] = Idle
  BY ThreadFacts DEF JobsReady, JobReady, Reads, At
<1>5. QED
  BY <1>1, <1>3, <1>4 DEF ReportType, Reads

LEMMA ReaderJobs ==
    ASSUME IInv, Reader
    PROVE  job' \in [Thread -> JobType] /\ JobsReady'
<1> DEFINE j == job["reader"]
           Becomes == \E new \in JobType :
                        JobReady(new, minted') /\ job' = [job EXCEPT !["reader"] = new]
<1>0. TypeOK /\ JobsReady /\ NoneReplacesItself /\ IndexAgrees
  BY DEF IInv
<1>1. j \in JobType /\ JobReady(j, minted)
  BY <1>0, ThreadFacts DEF TypeOK, JobsReady
<1>2. minted \in Nat
  BY <1>0, MintedIsNat
<1>3. UNCHANGED minted \/ Mint
  BY Zenon DEF Reader, AddedUnknown, Added, RemovedUnknown, Removed, Boundary, ViewCollision,
         ViewCleared, Greet, CopyOrphaned, Remap, Panic, Landed, Rehandle, Resend, Stand, Arrive,
         Unlist, Notify, KeepShadow, AskShadow, ViewSeen, List, Record, edge,
         OnlyHeld, OnlyTransits, OnlyClients, OnlyEnt, OnlyJob
<1>4. minted' \in Nat /\ minted <= minted'
  BY <1>2, <1>3 DEF Mint
<1>5. SUFFICES Becomes \/ UNCHANGED job
  <2>1. job \in [Thread -> JobType]
    BY <1>0 DEF TypeOK
  <2>2. QED
    BY <2>1, <1>1, <1>2, <1>4, <1>0, ThreadFacts, NewJob, SameJobs
<1>6. CASE Rest("reader")
  BY <1>6, IdleReady DEF Rest
<1>7. \A k : Held(k) /\ k \in Key => ent[k] \in EntityType
  BY <1>0 DEF Held, TypeOK
<1>8. byId \subseteq Key
  BY <1>0 DEF TypeOK
<1>10. CASE Greet \/ Arrive \/ Unlist \/ List
  BY <1>6, <1>10 DEF Greet, Arrive, Unlist, List
<1>11. CASE Panic \/ \E r \in Region : AddedUnknown(r) \/ RemovedUnknown(r)
  BY Zenon, <1>11 DEF Panic, AddedUnknown, RemovedUnknown
<1>12. ASSUME NEW r \in Region, Added(r) PROVE Becomes
  <2> DEFINE k == presence[r][1].key
             o == ent[k].replaces
             sh == ent[k].shadowOf # None
             new == [pc |-> IF o = None THEN "greet" ELSE "remap",
                     key |-> k, other |-> o, client |-> ent[k].client,
                     handle |-> ent[k].handle, dest |-> r, shadow |-> sh]
  <2>1. k \in Key /\ j = Idle /\ Held(k)
    BY <1>12, <1>0, ReportRead DEF Added
  <2>2. ent[k] \in EntityType
    BY <1>7, <2>1
  <2>3. /\ o \in Key \cup {None} /\ ent[k].client \in Client \cup {None}
        /\ ent[k].handle \in Handle \cup {None}
    BY <2>2 DEF EntityType
  <2>4. With(j, new) \in JobType
    <3>1. Fields(new)
      BY <2>1, <2>3 DEF Fields, Idle, Steps, Returns, Afters
    <3>2. QED
      BY Zenon, <3>1, <1>1, WithType
  <2>5. o # None => o # k
    BY <2>1, <1>12, <1>0 DEF NoneReplacesItself
  <2> DEFINE w == With(j, new)
  <2>6. /\ w.pc = IF o = None THEN "greet" ELSE "remap"
        /\ w.key = k /\ w.other = o /\ w.dest = r
        /\ w.next = "rest" /\ w.after = "rest"
    BY <1>1, <2>1 DEF With, Idle
  <2>7. JobReady(w, minted)
    <3> HIDE DEF w, k, o
    <3>1. CASE o = None
      BY <2>1, <2>6, <3>1 DEF JobReady
    <3>2. CASE o # None
      BY <2>1, <2>3, <2>5, <2>6, <3>2 DEF JobReady
    <3>3. QED
      BY <3>1, <3>2
  <2>8. QED
    BY Zenon, <1>12, <2>4, <2>7 DEF Added, Then
<1>13. CASE CopyOrphaned
  <2> DEFINE new == [pc |-> "forget", victim |-> j.key, next |-> "landed", other |-> None]
  <2>1. j.pc = "remap" /\ j.key \in Key /\ j.dest \in Region
    BY <1>1, <1>13 DEF CopyOrphaned, At, JobReady
  <2>2. With(j, new) \in JobType
    <3>1. Fields(new)
      BY <2>1 DEF Fields, Idle, Steps, Returns, Afters
    <3>2. QED
      BY <3>1, <1>1, WithType
  <2>3. JobReady(With(j, new), minted)
    BY <1>1, <2>1 DEF JobReady, With, JobType
  <2>4. QED
    BY <1>13, <2>2, <2>3 DEF CopyOrphaned, Then, edge
<1>14. CASE Remap
  <2> DEFINE old == j.other
             reach == IF ent[old].id THEN {ent[old].region} ELSE {}
             new == [pc |-> "todo", todo |-> ent[old].shadows, after |-> "landed",
                     handle |-> ent[old].handle, word |-> ent[old].standing,
                     words |-> ent[old].held, reach |-> reach]
  <2>1. j.pc = "remap" /\ j.key \in Key /\ j.dest \in Region /\ old \in Key
    BY <1>1, <1>14 DEF Remap, At, JobReady
  <2>2. ent[old] \in EntityType
    BY <1>7, <1>14, <2>1 DEF Remap
  <2>3. /\ ent[old].shadows \in SUBSET Key /\ ent[old].handle \in Handle \cup {None}
        /\ ent[old].standing \in 0 .. MaxWords /\ ent[old].held \in Seq(Word)
        /\ reach \in SUBSET Region
    BY <2>2 DEF EntityType
  <2> HIDE DEF reach
  <2>4. With(j, new) \in JobType
    <3>1. Fields(new)
      BY <2>1, <2>3 DEF Fields, Idle, Steps, Returns, Afters
    <3>2. QED
      BY <3>1, <1>1, WithType
  <2>5. JobReady(With(j, new), minted)
    BY Zenon, <1>1, <2>1 DEF JobReady, With, JobType
  <2>6. QED
    BY <1>14, <2>4, <2>5 DEF Remap, Then, OnlyHeld, reach
<1>15. CASE Landed
  <2> DEFINE new == [pc |-> "rehandle"]
  <2>1. j.pc = "landed" /\ j.key \in Key /\ j.dest \in Region
    BY <1>1, <1>15 DEF Landed, At, JobReady
  <2>2. With(j, new) \in JobType
    <3>1. Fields(new)
      BY DEF Fields, Idle, Steps, Returns, Afters
    <3>2. QED
      BY <3>1, <1>1, WithType
  <2>3. j.other # None => JobReady(With(j, new), minted)
    BY <1>1, <2>1 DEF JobReady, With, JobType
  <2>4. QED
    BY <1>6, <1>15, <2>2, <2>3 DEF Landed, Then, OnlyTransits
<1>16. ASSUME NEW p \in {"resend", "stand", "arrive"},
              j.pc \in {"rehandle", "resend", "stand"}, UNCHANGED minted,
              Then("reader", [pc |-> p])
       PROVE  Becomes
  <2>1. With(j, [pc |-> p]) \in JobType
    <3>1. Fields([pc |-> p])
      BY DEF Fields, Idle, Steps, Returns, Afters
    <3>2. QED
      BY <3>1, <1>1, WithType
  <2>2. JobReady(With(j, [pc |-> p]), minted)
    BY <1>1, <1>16 DEF JobReady, With, JobType
  <2>3. QED
    BY <1>16, <2>1, <2>2 DEF Then
<1>17. CASE Rehandle \/ Resend \/ Stand
  BY <1>16, <1>17 DEF Rehandle, Resend, Stand, At, OnlyClients, OnlyEnt, edge
<1>18. ASSUME NEW r \in Region, Removed(r) PROVE Becomes
  <2> DEFINE k == presence[r][1].key
             of == <<ent[k].client, ent[k].handle>>
             next == IF ent[k].shadowOf = None THEN "todo" ELSE "unlist"
             new == [pc |-> "unbind", victim |-> k, of |-> of,
                     client |-> ent[k].client, handle |-> ent[k].handle,
                     other |-> ent[k].shadowOf, todo |-> ent[k].shadows,
                     next |-> next, after |-> "notify"]
  <2>1. k \in Key /\ j = Idle
    BY Zenon, <1>18, <1>0, ReportRead DEF Removed
  <2>2. ent[k] \in EntityType
    BY Zenon, <1>7, <1>18, <2>1, <1>0 DEF Removed, IndexAgrees
  <2>3. /\ ent[k].client \in Client \cup {None} /\ ent[k].handle \in Handle \cup {None}
        /\ ent[k].shadowOf \in Key \cup {None} /\ ent[k].shadows \in SUBSET Key
        /\ of \in (Client \cup {None}) \X (Handle \cup {None})
        /\ next \in {"todo", "unlist"}
    BY <2>2 DEF EntityType
  <2> HIDE DEF of, next
  <2>4. With(j, new) \in JobType
    <3>1. Fields(new)
      BY <2>1, <2>3 DEF Fields, Idle, Steps, Returns, Afters
    <3>2. QED
      BY Zenon, <3>1, <1>1, WithType
  <2>5. JobReady(With(j, new), minted)
    BY Zenon, <1>1, <2>1, <2>3 DEF JobReady, With, JobType, Idle
  <2>6. QED
    BY Zenon, <1>18, <2>4, <2>5 DEF Removed, Then, of, next
<1>19. CASE Notify
  <2> DEFINE new == [pc |-> "finish"]
  <2>1. With(j, new) \in JobType
    <3>1. Fields(new)
      BY DEF Fields, Idle, Steps, Returns, Afters
    <3>2. QED
      BY <3>1, <1>1, WithType
  <2>2. JobReady(With(j, new), minted)
    BY <1>1, <1>19 DEF Notify, At, JobReady, With, JobType
  <2>3. QED
    BY <1>6, <1>19, <2>1, <2>2 DEF Notify, Then, edge
<1>20. ASSUME NEW r \in Region, Boundary(r) PROVE Becomes \/ UNCHANGED job
  <2> DEFINE k == presence[r][1].key
  <2>1. ASSUME NEW d \in presence[r][1].to, Then("reader", [pc |-> "begin", key |-> k, dest |-> d])
        PROVE  Becomes
    <3> DEFINE new == [pc |-> "begin", key |-> k, dest |-> d]
    <3>1. k \in Key /\ d \in Region /\ j = Idle
      BY <1>20, <1>0, ReportRead DEF Boundary
    <3>2. With(j, new) \in JobType
      <4>1. Fields(new)
        BY <3>1 DEF Fields, Idle, Steps, Returns, Afters
      <4>2. QED
        BY <4>1, <1>1, WithType
    <3>3. JobReady(With(j, new), minted)
      BY <1>1, <3>1 DEF JobReady, With, JobType, Idle
    <3>4. QED
      BY <1>20, <2>1, <3>2, <3>3 DEF Boundary, Then, edge
  <2>2. QED
    BY <1>20, <2>1 DEF Boundary
<1>21. ASSUME NEW r \in Region, ViewCollision(r) PROVE Becomes \/ UNCHANGED job
  <2> DEFINE k == presence[r][1].key
             reach == presence[r][1].to
             had == {<<s, ent[s].region>> : s \in {x \in ent[k].shadows : Held(x)}}
             new == [pc |-> "view", key |-> k, client |-> ent[k].client,
                     reach |-> reach, had |-> had]
  <2>1. k \in Key /\ j = Idle /\ reach \in SUBSET Region
    BY Zenon, <1>21, <1>0, ReportRead DEF ViewCollision
  <2>2. CASE k \in byId
    <3>1. ent[k] \in EntityType
      BY <1>7, <2>1, <2>2, <1>0 DEF IndexAgrees
    <3>2. ent[k].client \in Client \cup {None} /\ ent[k].shadows \in SUBSET Key
      BY <3>1 DEF EntityType
    <3>3. \A s \in {x \in ent[k].shadows : Held(x)} : s \in Key /\ ent[s].region \in Region
      BY <1>7, <3>2 DEF EntityType
    <3>4. had \in SUBSET (Key \X Region)
      BY <3>3
    <3> HIDE DEF reach, had
    <3>5. With(j, new) \in JobType
      <4>1. Fields(new)
        BY <2>1, <3>2, <3>4 DEF Fields, Idle, Steps, Returns, Afters
      <4>2. QED
        BY <4>1, <1>1, WithType
    <3>6. JobReady(With(j, new), minted)
      BY SMTT(30), <1>1, <2>1 DEF JobReady, With, JobType, Idle
    <3>7. QED
      BY <1>21, <2>2, <3>5, <3>6 DEF ViewCollision, Then, edge, reach, had
  <2>3. QED
    BY <1>21, <2>2 DEF ViewCollision
<1>22. CASE KeepShadow
  <2>1. PICK x \in j.had :
           /\ x[2] \in j.reach
           /\ Then("reader", [reach |-> j.reach \ {x[2]}, keep |-> j.keep \cup {x[1]}])
    BY <1>22 DEF KeepShadow
  <2> DEFINE new == [reach |-> j.reach \ {x[2]}, keep |-> j.keep \cup {x[1]}]
  <2>2. /\ j.reach \ {x[2]} \in SUBSET Region /\ j.keep \cup {x[1]} \in SUBSET Key
        /\ j.had \in SUBSET (Key \X Region)
    BY <1>1 DEF JobType
  <2>3. With(j, new) \in JobType
    <3>1. Fields(new)
      BY <2>2 DEF Fields, Idle, Steps, Returns, Afters
    <3>2. QED
      BY <3>1, <1>1, WithType
  <2>4. JobReady(With(j, new), minted)
    BY <1>1, <1>22 DEF KeepShadow, At, JobReady, With, JobType
  <2>5. QED
    BY <1>22, <2>1, <2>3, <2>4 DEF KeepShadow, Then, OnlyJob, edge
<1>23. CASE AskShadow
  <2>1. PICK d \in j.reach :
           /\ Record(j.client, None, d, j.key)
           /\ Then("reader", [pc |-> "ask", other |-> minted, dest |-> d,
                              reach |-> j.reach \ {d}, keep |-> j.keep \cup {minted},
                              next |-> "view"])
    BY <1>23 DEF AskShadow
  <2> DEFINE new == [pc |-> "ask", other |-> minted, dest |-> d,
                     reach |-> j.reach \ {d}, keep |-> j.keep \cup {minted}, next |-> "view"]
  <2>2. minted \in Key
    BY <1>2, <2>1, <1>0, MintedIsNat DEF Record, Mint, Key
  <2>3. /\ j.reach \ {d} \in SUBSET Region /\ j.keep \cup {minted} \in SUBSET Key
        /\ d \in Region
    BY <1>1, <2>2 DEF JobType
  <2>4. With(j, new) \in JobType
    <3>1. Fields(new)
      BY <2>2, <2>3 DEF Fields, Idle, Steps, Returns, Afters
    <3>2. QED
      BY <3>1, <1>1, WithType
  <2>5. j.pc = "view"
    BY <1>23 DEF AskShadow, At
  <2>6. JobReady(With(j, new), minted')
    BY <1>1, <2>2, <2>3, <2>5 DEF JobReady, With, JobType
  <2>7. QED
    BY <2>1, <2>4, <2>6 DEF Then
<1>24. CASE ViewSeen
  <2> DEFINE todo == {x[1] : x \in j.had} \ j.keep
             new == [pc |-> "todo", todo |-> todo, after |-> "list"]
  <2>1. j.had \in SUBSET (Key \X Region) /\ j.pc = "view"
    BY <1>1, <1>24 DEF JobType, ViewSeen, At
  <2>2. todo \in SUBSET Key
    BY <2>1
  <2> HIDE DEF todo
  <2>3. With(j, new) \in JobType
    <3>1. Fields(new)
      BY <2>2 DEF Fields, Idle, Steps, Returns, Afters
    <3>2. QED
      BY <3>1, <1>1, WithType
  <2>4. JobReady(With(j, new), minted)
    BY <1>1, <2>1 DEF JobReady, With, JobType
  <2>5. QED
    BY <1>24, <2>3, <2>4 DEF ViewSeen, Then, OnlyJob, edge, todo
<1>25. ASSUME NEW r \in Region, ViewCleared(r) PROVE Becomes \/ UNCHANGED job
  <2> DEFINE k == presence[r][1].key
             new == [pc |-> "todo", todo |-> ent[k].shadows]
  <2>1. k \in Key /\ j = Idle
    BY <1>25, <1>0, ReportRead DEF ViewCleared
  <2>2. CASE k \in byId
    <3>1. ent[k] \in EntityType
      BY <1>7, <2>1, <2>2, <1>0 DEF IndexAgrees
    <3>2. ent[k].shadows \in SUBSET Key
      BY <3>1 DEF EntityType
    <3>3. With(j, new) \in JobType
      <4>1. Fields(new)
        BY <3>2 DEF Fields, Idle, Steps, Returns, Afters
      <4>2. QED
        BY <4>1, <1>1, WithType
    <3>4. JobReady(With(j, new), minted)
      BY <1>1, <2>1 DEF JobReady, With, JobType, Idle
    <3>5. QED
      BY <1>25, <2>2, <3>3, <3>4 DEF ViewCleared, Then
  <2>3. QED
    BY <1>25, <2>2 DEF ViewCleared
<1>26. QED
  BY <1>10, <1>11, <1>12, <1>13, <1>14, <1>15, <1>17, <1>18, <1>19, <1>20, <1>21, <1>22,
     <1>23, <1>24, <1>25 DEF Reader

(* What the regions do leaves the edge alone.                              *)
LEMMA WorldsFrame ==
    Worlds => UNCHANGED <<edge, outbound, job, aside>>
<1>1. ASSUME NEW r \in Region, RegionTakes(r) PROVE UNCHANGED <<edge, outbound, job, aside>>
  BY ZenonT(30), <1>1 DEF RegionTakes
<1>2. ASSUME NEW r \in Region, NEW k \in Key,
             \/ SeeNothing(r, k) \/ RegionDespawns(r, k)
             \/ \E d \in Region : MeetBoundary(r, k, d)
             \/ \E to \in SUBSET Region : SeeBeyond(r, k, to)
      PROVE  UNCHANGED <<edge, outbound, job, aside>>
  BY <1>2 DEF SeeNothing, RegionDespawns, MeetBoundary, SeeBeyond, Happens
<1>3. QED
  BY <1>1, <1>2 DEF Worlds

LEMMA CommandMints ==
    ASSUME NEW c \in Client, Commanded(c) \/ Say(c)
    PROVE  UNCHANGED minted \/ Mint
<1>1. CASE Say(c)
  BY Zenon, <1>1 DEF Say
<1>2. ASSUME NEW h \in Handle, ClientDespawn(c, h) \/ ClientSay(c, h) PROVE UNCHANGED minted
  BY <1>2 DEF ClientDespawn, ClientSay, edge
<1>3. ASSUME NEW h \in Handle, NEW r \in Region, ClientSpawn(c, h, r) PROVE Mint
  BY <1>3 DEF ClientSpawn, Record
<1>4. ASSUME NEW h \in Handle, NEW r \in Region, ClientTeleport(c, h, r) PROVE UNCHANGED minted
  BY <1>4 DEF ClientTeleport, OnlyJob, edge
<1>5. CASE ClientLeave(c)
  BY <1>5 DEF ClientLeave, OnlyClients
<1>6. QED
  BY <1>1, <1>2, <1>3, <1>4, <1>5 DEF Commanded

LEMMA OtherJobs ==
    ASSUME TypeOK, JobsReady,
           \/ Expire \/ Publisher \/ Game \/ Worlds
           \/ \E c \in Client : Commanded(c) \/ Say(c)
    PROVE  job' \in [Thread -> JobType] /\ JobsReady'
<1> DEFINE Becomes(t) == \E new \in JobType :
                           JobReady(new, minted') /\ job' = [job EXCEPT ![t] = new]
<1>1. \A t \in Thread : job[t] \in JobType /\ JobReady(job[t], minted)
  BY DEF TypeOK, JobsReady
<1>2. minted \in Nat
  BY MintedIsNat
<1>3. UNCHANGED minted \/ Mint
  <2>1. CASE Publisher
    BY Zenon, <2>1 DEF Publisher, Publish, LeaveBe, GiveUp, Uncarry, Unhold, Expired, edge, OnlyJob,
       OnlyEnt, OnlyCarried
  <2>2. CASE Expire \/ Game
    BY <2>2 DEF Expire, OnlyTransits, Game, GameSpawn, GameDespawn, Record, edge
  <2>3. CASE Worlds
    BY <2>3, WorldsFrame DEF edge
  <2>4. CASE \E c \in Client : Commanded(c) \/ Say(c)
    BY <2>4, CommandMints
  <2>5. QED
    BY <2>1, <2>2, <2>3, <2>4
<1>4. minted' \in Nat /\ minted <= minted'
  BY <1>2, <1>3 DEF Mint
<1>5. SUFFICES UNCHANGED job \/ \E t \in Thread : Becomes(t)
  <2>1. job \in [Thread -> JobType]
    BY DEF TypeOK
  <2>2. QED
    BY <2>1, <1>2, <1>4, NewJob, SameJobs
<1>6. ASSUME NEW t \in Thread, Rest(t) PROVE Becomes(t)
  BY <1>6, IdleReady DEF Rest
<1>7. \A k : Held(k) /\ k \in Key => ent[k] \in EntityType
  BY DEF Held, TypeOK
<1>8. \A c \in Client : clients[c] # None => clients[c] \in ClientType
  BY DEF TypeOK
<1>9. CASE Publish \/ Worlds
  BY Zenon, <1>9, WorldsFrame DEF Publish
<1>10. CASE Expired \/ \E c \in Client : Say(c)
  BY Zenon, <1>6, <1>10, ThreadFacts DEF Expired, Say
<1> DEFINE p == job["publisher"]
<1>11. p \in JobType /\ JobReady(p, minted)
  BY <1>1, ThreadFacts
<1>12. CASE Expire
  <2>1. PICK due \in SUBSET transits :
           Then("publisher", [pc |-> "expire", due |-> due])
    BY <1>12 DEF Expire
  <2> DEFINE new == [pc |-> "expire", due |-> due]
  <2>2. due \in SUBSET (Key \X Key)
    BY DEF TypeOK
  <2>3. With(p, new) \in JobType
    <3>1. Fields(new)
      BY <2>2 DEF Fields, Idle, Steps
    <3>2. QED
      BY <3>1, <1>11, WithType
  <2>4. p = Idle
    BY <1>11, <1>12 DEF Expire, At, JobReady
  <2>5. JobReady(With(p, new), minted)
    BY <2>4 DEF With, JobReady, Idle
  <2>6. QED
    BY <1>12, <2>1, <2>3, <2>5, ThreadFacts DEF Expire, Then, OnlyTransits
<1>13. ASSUME NEW x \in p.due, LeaveBe(x) PROVE Becomes("publisher")
  <2> DEFINE new == [due |-> p.due \ {x}]
  <2>1. p.due \ {x} \in SUBSET (Key \X Key)
    BY <1>11 DEF JobType
  <2>2. With(p, new) \in JobType
    <3>1. Fields(new)
      BY <2>1 DEF Fields, Idle
    <3>2. QED
      BY <3>1, <1>11, WithType
  <2>3. JobReady(With(p, new), minted)
    BY <1>11, <1>13 DEF LeaveBe, At, With, JobReady, JobType
  <2>4. QED
    BY <1>13, <2>2, <2>3 DEF LeaveBe, Then, OnlyJob, edge
<1>14. ASSUME NEW x \in p.due, GiveUp(x) PROVE Becomes("publisher")
  <2> DEFINE new == [pc |-> "uncarry", due |-> p.due \ {x}, key |-> x[1],
                     victim |-> x[2], words |-> ent[x[1]].held, dest |-> ent[x[1]].region,
                     next |-> "unhold"]
  <2>1. p.due \ {x} \in SUBSET (Key \X Key) /\ x[1] \in Key /\ x[2] \in Key
    BY <1>11 DEF JobType
  <2>2. ent[x[1]] \in EntityType
    BY <1>7, <1>14, <2>1 DEF GiveUp, Unconfirmed
  <2>3. ent[x[1]].held \in Seq(Word) /\ ent[x[1]].region \in Region
    BY <2>2 DEF EntityType
  <2>4. With(p, new) \in JobType
    <3>1. Fields(new)
      BY <2>1, <2>3 DEF Fields, Idle, Steps, Returns
    <3>2. QED
      BY <3>1, <1>11, WithType
  <2>5. p.pc = "expire"
    BY <1>14 DEF GiveUp, At
  <2>6. JobReady(With(p, new), minted)
    BY <1>11, <2>3, <2>5, <2>1 DEF With, JobReady, JobType
  <2>7. QED
    BY <1>14, <2>4, <2>6 DEF GiveUp, Then, OnlyEnt
<1>15. CASE Uncarry
  <2> DEFINE new == [pc |-> "forget"]
  <2>1. With(p, new) \in JobType
    <3>1. Fields(new)
      BY DEF Fields, Idle, Steps
    <3>2. QED
      BY <3>1, <1>11, WithType
  <2>2. JobReady(With(p, new), minted)
    BY <1>11, <1>15 DEF Uncarry, At, With, JobReady, JobType
  <2>3. QED
    BY <1>15, <2>1, <2>2, ThreadFacts DEF Uncarry, Then, OnlyCarried
<1>16. CASE Unhold
  <2> DEFINE new == [pc |-> "expire"]
  <2>1. With(p, new) \in JobType
    <3>1. Fields(new)
      BY DEF Fields, Idle, Steps
    <3>2. QED
      BY <3>1, <1>11, WithType
  <2>2. JobReady(With(p, new), minted)
    BY <1>11, <1>16 DEF Unhold, At, With, JobReady, JobType
  <2>3. QED
    BY <1>16, <2>1, <2>2, ThreadFacts DEF Unhold, Then, edge
<1>17. ASSUME NEW c \in Client, NEW r \in Region, GameSpawn(c, r) PROVE Becomes("game")
  <2> DEFINE new == [pc |-> "ask", other |-> minted, client |-> c, dest |-> r]
             j == job["game"]
  <2>1. minted \in Key
    BY <1>2, <1>17, MintedIsNat DEF GameSpawn, Record, Mint, Key
  <2>2. j \in JobType /\ j = Idle
    BY <1>1, <1>17, ThreadFacts DEF GameSpawn, At, JobReady
  <2>3. With(j, new) \in JobType
    <3>1. Fields(new)
      BY <2>1 DEF Fields, Idle, Steps
    <3>2. QED
      BY <3>1, <2>2, WithType
  <2>4. JobReady(With(j, new), minted')
    BY <2>1, <2>2 DEF With, JobReady, Idle
  <2>5. QED
    BY <1>17, <2>3, <2>4 DEF GameSpawn, Then
<1>18. ASSUME NEW k \in Key, GameDespawn(k) PROVE Becomes("game")
  <2> DEFINE new == [pc |-> "release", victim |-> k]
             j == job["game"]
  <2>1. j \in JobType /\ j = Idle
    BY <1>1, <1>18, ThreadFacts DEF GameDespawn, At, JobReady
  <2>2. With(j, new) \in JobType
    <3>1. Fields(new)
      BY DEF Fields, Idle, Steps
    <3>2. QED
      BY <3>1, <2>1, WithType
  <2>3. JobReady(With(j, new), minted)
    BY <2>1 DEF With, JobReady, Idle
  <2>4. QED
    BY <1>18, <2>2, <2>3 DEF GameDespawn, Then, edge
<1>19. ASSUME NEW c \in Client, Commanded(c) PROVE Becomes(c)
  <2> DEFINE j == job[c]
  <2>1. Connected(c)
    BY <1>19 DEF Commanded, ClientDespawn, ClientSay, ClientSpawn, ClientTeleport, ClientLeave
  <2>2. j \in JobType /\ j = Idle /\ c \in Thread
    BY <1>1, <2>1, ThreadFacts DEF Connected, At, JobReady
  <2>3. clients[c] \in ClientType
    BY <1>8, <2>1 DEF Connected
  <2>4. clients[c].keys \in SUBSET Key /\ \A h \in Handle : clients[c].handles[h] \in Key \cup {None}
    BY <2>3 DEF ClientType
  <2>5. ASSUME NEW h \in Handle, ClientDespawn(c, h) PROVE Becomes(c)
    <3> DEFINE k == clients[c].handles[h]
               new == [pc |-> "release", victim |-> k]
    <3>1. k \in Key
      BY <2>4, <2>5 DEF ClientDespawn
    <3> HIDE DEF k
    <3>2. With(j, new) \in JobType
      <4>1. Fields(new)
        BY <3>1 DEF Fields, Idle, Steps
      <4>2. QED
        BY <4>1, <2>2, WithType
    <3>3. JobReady(With(j, new), minted)
      BY <2>2, <3>1 DEF With, JobReady, Idle
    <3>4. QED
      BY <2>5, <3>2, <3>3 DEF ClientDespawn, Then, edge, k
  <2>6. ASSUME NEW h \in Handle, ClientSay(c, h) PROVE Becomes(c)
    <3> DEFINE k == clients[c].handles[h]
               w == words + 1
               new == [pc |-> "say", key |-> k, word |-> w]
    <3>1. k \in Key
      BY <2>4, <2>6 DEF ClientSay
    <3>2. w \in Word /\ w \in 0 .. MaxWords
      <4>1. words \in 0 .. MaxWords
        BY DEF TypeOK
      <4>2. words < MaxWords
        BY <2>6 DEF ClientSay
      <4>3. QED
        BY <4>1, <4>2, EdgeServerAssumption DEF Word
    <3> HIDE DEF k, w
    <3>3. With(j, new) \in JobType
      <4>1. Fields(new)
        BY <3>1, <3>2 DEF Fields, Idle, Steps
      <4>2. QED
        BY <4>1, <2>2, WithType
    <3>4. JobReady(With(j, new), minted)
      BY <2>2, <3>1, <3>2 DEF With, JobReady, Idle
    <3>5. QED
      BY <2>6, <3>3, <3>4 DEF ClientSay, Then, edge, k, w
  <2>7. ASSUME NEW h \in Handle, NEW r \in Region, ClientSpawn(c, h, r) PROVE Becomes(c)
    <3> DEFINE new == [pc |-> "ask", other |-> minted, client |-> c, handle |-> h, dest |-> r]
    <3>1. minted \in Key
      BY <1>2, <2>7, MintedIsNat DEF ClientSpawn, Record, Mint, Key
    <3>2. With(j, new) \in JobType
      <4>1. Fields(new)
        BY <3>1 DEF Fields, Idle, Steps
      <4>2. QED
        BY <4>1, <2>2, WithType
    <3>3. JobReady(With(j, new), minted')
      BY <2>2, <3>1 DEF With, JobReady, Idle
    <3>4. QED
      BY <2>7, <3>2, <3>3 DEF ClientSpawn, Then
  <2>8. ASSUME NEW h \in Handle, NEW r \in Region, ClientTeleport(c, h, r) PROVE Becomes(c)
    <3> DEFINE k == clients[c].handles[h]
               new == [pc |-> "begin", key |-> k, dest |-> r]
    <3>1. k \in Key
      BY <2>4, <2>8 DEF ClientTeleport
    <3> HIDE DEF k
    <3>2. With(j, new) \in JobType
      <4>1. Fields(new)
        BY <3>1 DEF Fields, Idle, Steps
      <4>2. QED
        BY <4>1, <2>2, WithType
    <3>3. JobReady(With(j, new), minted)
      BY <2>2, <3>1 DEF With, JobReady, Idle
    <3>4. QED
      BY <2>8, <3>2, <3>3 DEF ClientTeleport, Then, edge, OnlyJob, k
  <2>9. CASE ClientLeave(c)
    <3> DEFINE todo == clients[c].keys
               new == [pc |-> "todo", client |-> c, todo |-> todo, after |-> "finish"]
    <3>1. todo \in SUBSET Key
      BY <2>4
    <3> HIDE DEF todo
    <3>2. With(j, new) \in JobType
      <4>1. Fields(new)
        BY <3>1 DEF Fields, Idle, Steps, Returns, Afters
      <4>2. QED
        BY <4>1, <2>2, WithType
    <3>3. JobReady(With(j, new), minted)
      BY <2>2 DEF With, JobReady, Idle
    <3>4. QED
      BY <2>9, <3>2, <3>3 DEF ClientLeave, Then, OnlyClients, todo
  <2>10. QED
    BY <1>19, <2>5, <2>6, <2>7, <2>8, <2>9 DEF Commanded
<1>20. QED
  BY <1>9, <1>10, <1>12, <1>13, <1>14, <1>15, <1>16, <1>17, <1>18, <1>19, ThreadFacts
     DEF Publisher, Game

-----------------------------------------------------------------------------
(* The records and the index beside them.                                  *)
RecordsInOrder ==
    /\ ent \in [Key -> EntityType \cup {None}]
    /\ \A k \in Key : Held(k) => k < minted
    /\ byId \subseteq Key
    /\ NoneReplacesItself
    /\ IndexAgrees

LEMMA SameRecords ==
    ASSUME RecordsInOrder, minted \in Nat, minted' \in Nat, minted <= minted',
           UNCHANGED <<ent, byId>>
    PROVE  RecordsInOrder'
<1>1. \A k \in Key : k \in Nat
  BY NoneFacts
<1>2. QED
  BY <1>1 DEF RecordsInOrder, Held, NoneReplacesItself, IndexAgrees

(* A record is changed, and may be answered for.                           *)
LEMMA RecordChanged ==
    ASSUME RecordsInOrder, NEW k \in Key, Held(k), NEW e \in EntityType,
           ent' = [ent EXCEPT ![k] = e], e.replaces # k,
           ent[k].id => e.id, byId' = IF e.id THEN byId \cup {k} ELSE byId,
           UNCHANGED minted
    PROVE  RecordsInOrder'
<1>1. ent' \in [Key -> EntityType \cup {None}]
  BY DEF RecordsInOrder
<1>2. \A x \in Key : Held(x)' <=> Held(x)
  BY NoneFacts DEF RecordsInOrder, Held
<1>3. \A x \in Key : ent'[x] = IF x = k THEN e ELSE ent[x]
  BY DEF RecordsInOrder
<1>4. IndexAgrees'
  <2>1. e.id \in BOOLEAN
    BY DEF EntityType
  <2>2. byId' = {x \in Key : Held(x)' /\ ent'[x].id}
    BY <1>2, <1>3, <2>1 DEF RecordsInOrder, IndexAgrees
  <2>3. QED
    BY <2>2 DEF IndexAgrees, Held
<1>5. NoneReplacesItself'
  BY <1>2, <1>3 DEF RecordsInOrder, NoneReplacesItself, Held
<1>6. QED
  BY <1>1, <1>2, <1>4, <1>5 DEF RecordsInOrder, Held

LEMMA RecordAdded ==
    ASSUME RecordsInOrder, TypeOK, NEW c \in Client \cup {None}, NEW h \in Handle \cup {None},
           NEW r \in Region, NEW owner \in Key \cup {None},
           Record(c, h, r, owner), UNCHANGED byId
    PROVE  RecordsInOrder'
<1>1. minted \in Nat /\ minted \in Key /\ minted' = minted + 1
  BY MintedIsNat DEF Record, Mint, Key
<1> DEFINE e == [client |-> c, handle |-> h, region |-> r, id |-> FALSE,
                 doomed |-> FALSE, replaces |-> None, shadows |-> {},
                 shadowOf |-> owner, standing |-> 0, to |-> None, held |-> <<>>]
<1>2. e \in EntityType
  <2>1. <<>> \in Seq(Word) /\ 0 \in 0 .. MaxWords
    BY EdgeServerAssumption
  <2>2. QED
    BY <2>1 DEF EntityType
<1>3. ent' = [ent EXCEPT ![minted] = e]
  BY DEF Record
<1>4. ~e.id /\ e.replaces = None
  OBVIOUS
<1> HIDE DEF e
<1>5. ent' \in [Key -> EntityType \cup {None}]
  BY <1>2, <1>3 DEF RecordsInOrder
<1>6. \A x \in Key : ent'[x] = IF x = minted THEN e ELSE ent[x]
  BY <1>3 DEF RecordsInOrder
<1>7. ~Held(minted)
  BY <1>1 DEF RecordsInOrder
<1>8. IndexAgrees'
  <2>1. byId' = {x \in Key : Held(x)' /\ ent'[x].id}
    BY <1>4, <1>6, <1>7, <1>1 DEF RecordsInOrder, IndexAgrees, Held
  <2>2. QED
    BY <2>1 DEF IndexAgrees, Held
<1>9. NoneReplacesItself'
  BY <1>1, <1>4, <1>6, NoneFacts DEF RecordsInOrder, NoneReplacesItself, Held
<1>10. \A x \in Key : Held(x)' => x < minted'
  BY <1>1, <1>6, NoneFacts DEF RecordsInOrder, Held
<1>11. QED
  BY <1>5, <1>8, <1>9, <1>10 DEF RecordsInOrder

LEMMA RecordDropped ==
    ASSUME RecordsInOrder, NEW k, Drop(k), UNCHANGED minted
    PROVE  RecordsInOrder'
<1>1. ent' \in [Key -> EntityType \cup {None}]
  BY DEF RecordsInOrder, Drop
<1>2. \A x \in Key : ent'[x] = IF x = k THEN None ELSE ent[x]
  BY DEF RecordsInOrder, Drop
<1>3. byId' = byId \ {k}
  BY DEF RecordsInOrder, Drop, IndexAgrees
<1>4. IndexAgrees'
  <2>1. byId' = {x \in Key : Held(x)' /\ ent'[x].id}
    BY <1>2, <1>3 DEF RecordsInOrder, IndexAgrees, Held
  <2>2. QED
    BY <2>1 DEF IndexAgrees, Held
<1>5. QED
  BY <1>1, <1>2, <1>3, <1>4 DEF RecordsInOrder, NoneReplacesItself, Held

(* A record is changed in what the index does not look at.                 *)
LEMMA RecordEdited ==
    ASSUME RecordsInOrder, NEW k \in Key, Held(k), NEW e \in EntityType,
           ent' = [ent EXCEPT ![k] = e], e.replaces # k, e.id = ent[k].id,
           UNCHANGED <<byId, minted>>
    PROVE  RecordsInOrder'
<1>1. byId' = IF e.id THEN byId \cup {k} ELSE byId
  BY DEF RecordsInOrder, IndexAgrees
<1>2. QED
  BY <1>1, RecordChanged

LEMMA SayRecords ==
    ASSUME TypeOK, JobsReady, RecordsInOrder, NEW c \in Thread, Say(c)
    PROVE  RecordsInOrder'
<1> DEFINE k == job[c].key
           w == job[c].word
<1>1. w \in Word /\ w \in 0 .. MaxWords /\ k \in Key \cup {None}
  <2>1. job[c] \in JobType /\ JobReady(job[c], minted)
    BY DEF TypeOK, JobsReady
  <2>2. QED
    BY <2>1 DEF Say, At, JobReady, JobType
<1>2. CASE UNCHANGED ent
  BY <1>2, MintedIsNat, SameRecords DEF Say
<1>3. CASE Held(k)
  <2>1. k \in Key
    BY <1>1, <1>3 DEF Held
  <2>2. ent[k] \in EntityType /\ ent[k].replaces # k
    BY <1>3, <2>1 DEF RecordsInOrder, NoneReplacesItself, Held
  <2>3. Append(ent[k].held, w) \in Seq(Word)
    BY <1>1, <2>2 DEF EntityType
  <2> DEFINE a == [ent[k] EXCEPT !.held = Append(@, w)]
             b == [ent[k] EXCEPT !.standing = w]
  <2>4. /\ a \in EntityType /\ a.replaces # k /\ a.id = ent[k].id
        /\ b \in EntityType /\ b.replaces # k /\ b.id = ent[k].id
    BY <1>1, <2>2, <2>3 DEF EntityType
  <2>5. ent' = [ent EXCEPT ![k] = a] \/ ent' = [ent EXCEPT ![k] = b]
    BY Zenon, <1>3 DEF Say
  <2>6. UNCHANGED <<byId, minted>>
    BY DEF Say
  <2> HIDE DEF a, b
  <2>7. QED
    BY <1>3, <2>1, <2>4, <2>5, <2>6, RecordEdited
<1>4. QED
  BY <1>2, <1>3 DEF Say

LEMMA LinkRecords ==
    ASSUME TypeOK, JobsReady, RecordsInOrder, NEW t \in Thread, Link(t)
    PROVE  RecordsInOrder'
<1> DEFINE k == job[t].key
           to == job[t].other
<1>1. k \in Key /\ to \in Key /\ k # to
  <2>1. JobReady(job[t], minted)
    BY DEF JobsReady
  <2>2. QED
    BY <2>1 DEF Link, At, JobReady
<1>2. UNCHANGED <<byId, minted>>
  BY DEF Link, OnlyEnt
<1> HIDE DEF k, to
<1>3. CASE UNCHANGED ent
  BY <1>2, <1>3, MintedIsNat, SameRecords
<1>4. CASE Held(k) /\ ent' = [x \in Key |->
                        IF x = k THEN [ent[k] EXCEPT !.to = to, !.held = <<>>]
                        ELSE IF x = to /\ Held(to) THEN [ent[to] EXCEPT !.replaces = k]
                        ELSE ent[x]]
  <2> DEFINE e == [ent[k] EXCEPT !.to = to, !.held = <<>>]
             f == [ent[to] EXCEPT !.replaces = k]
  <2>1. ent[k] \in EntityType /\ ent[k].replaces # k
    BY <1>1, <1>4 DEF RecordsInOrder, NoneReplacesItself, Held
  <2>2. Held(to) => ent[to] \in EntityType
    BY <1>1 DEF RecordsInOrder, Held
  <2>3. e \in EntityType /\ e.id = ent[k].id /\ e.replaces = ent[k].replaces
    <3>1. <<>> \in Seq(Word)
      OBVIOUS
    <3>2. QED
      BY <1>1, <2>1, <3>1 DEF EntityType
  <2>4. Held(to) => f \in EntityType /\ f.id = ent[to].id /\ f.replaces = k
    BY <1>1, <2>2 DEF EntityType
  <2> HIDE DEF e, f
  <2>5. \A x \in Key : ent'[x] = IF x = k THEN e ELSE IF x = to /\ Held(to) THEN f ELSE ent[x]
    BY <1>4 DEF e, f
  <2>6. ent' \in [Key -> EntityType \cup {None}]
    <3>1. \A x \in Key : ent'[x] \in EntityType \cup {None}
      BY <2>3, <2>4, <2>5 DEF RecordsInOrder
    <3>2. QED
      BY <1>4, <3>1
  <2>7. \A x \in Key : Held(x)' <=> Held(x)
    BY <1>4, <2>3, <2>4, <2>5, NoneFacts DEF Held
  <2>8. IndexAgrees'
    <3>1. byId' = {x \in Key : Held(x)' /\ ent'[x].id}
      BY <1>2, <2>3, <2>4, <2>5, <2>7 DEF RecordsInOrder, IndexAgrees
    <3>2. QED
      BY <3>1 DEF IndexAgrees, Held
  <2>9. NoneReplacesItself'
    BY <1>1, <2>1, <2>3, <2>4, <2>5, <2>7 DEF RecordsInOrder, NoneReplacesItself, Held
  <2>10. QED
    BY <1>2, <2>6, <2>7, <2>8, <2>9 DEF RecordsInOrder, Held
<1>5. QED
  BY <1>3, <1>4 DEF Link, k, to

LEMMA RemapRecords ==
    ASSUME TypeOK, JobsReady, RecordsInOrder, Remap
    PROVE  RecordsInOrder'
<1> DEFINE k == job["reader"].key
           old == job["reader"].other
           h == ent[old].handle
<1>1. k \in Key /\ old \in Key /\ k # old /\ Held(old) /\ (h # None => Held(k))
  <2>1. JobReady(job["reader"], minted)
    BY ThreadFacts DEF JobsReady
  <2>2. QED
    BY <2>1 DEF Remap, At, JobReady
<1>2. byId' = byId \ {old} /\ UNCHANGED minted
  BY DEF Remap, OnlyHeld
<1>3. ent' = IF h = None THEN [ent EXCEPT ![old] = None]
             ELSE [ent EXCEPT ![old] = None, ![k].handle = h]
  BY DEF Remap, Remapped
<1>4. h \in Handle \cup {None}
  <2>1. ent[old] \in EntityType
    BY <1>1 DEF RecordsInOrder, Held
  <2>2. QED
    BY <2>1 DEF EntityType
<1> HIDE DEF k, old, h
<1> DEFINE e == [ent[k] EXCEPT !.handle = h]
<1>5. Held(k) => /\ e \in EntityType /\ e.id = ent[k].id /\ e.replaces = ent[k].replaces
  <2>1. Held(k) => ent[k] \in EntityType
    BY <1>1 DEF RecordsInOrder, Held
  <2>2. QED
    BY <1>4, <2>1 DEF EntityType
<1>6. \A x \in Key : ent'[x] = IF x = old THEN None
                               ELSE IF x = k /\ h # None THEN e ELSE ent[x]
  BY <1>1, <1>3 DEF RecordsInOrder
<1> HIDE DEF e
<1>7. ent' \in [Key -> EntityType \cup {None}]
  <2>1. \A x \in Key : ent'[x] \in EntityType \cup {None}
    BY <1>1, <1>5, <1>6 DEF RecordsInOrder
  <2>2. DOMAIN ent' = Key /\ ent' = [x \in Key |-> ent'[x]]
    BY <1>3 DEF RecordsInOrder
  <2>3. QED
    BY <2>1, <2>2
<1>8. \A x \in Key : Held(x)' <=> Held(x) /\ x # old
  BY <1>1, <1>5, <1>6, NoneFacts DEF Held
<1>9. IndexAgrees'
  <2>1. byId' = {x \in Key : Held(x)' /\ ent'[x].id}
    BY <1>1, <1>2, <1>5, <1>6, <1>8 DEF RecordsInOrder, IndexAgrees
  <2>2. QED
    BY <2>1 DEF IndexAgrees, Held
<1>10. NoneReplacesItself'
  BY <1>1, <1>5, <1>6, <1>8 DEF RecordsInOrder, NoneReplacesItself, Held
<1>11. QED
  BY <1>2, <1>7, <1>8, <1>9, <1>10 DEF RecordsInOrder, Held

LEMMA ReaderRecords ==
    ASSUME TypeOK, JobsReady, RecordsInOrder, Reader
    PROVE  RecordsInOrder'
<1> DEFINE j == job["reader"]
<1>1. j \in JobType /\ JobReady(j, minted)
  BY ThreadFacts DEF TypeOK, JobsReady
<1>2. \A k \in Key : Held(k) => ent[k] \in EntityType /\ ent[k].replaces # k
  BY DEF RecordsInOrder, NoneReplacesItself, Held
<1>3. CASE UNCHANGED <<ent, byId, minted>>
  BY <1>3, MintedIsNat, SameRecords
<1>4. CASE Greet \/ CopyOrphaned \/ Panic \/ Landed \/ Rehandle \/ Resend \/ Arrive \/ Notify
           \/ KeepShadow \/ ViewSeen
  BY <1>3, <1>4 DEF Greet, CopyOrphaned, Panic, Landed, Rehandle, Resend, Arrive, Notify,
     KeepShadow, ViewSeen, OnlyJob, OnlyTransits, OnlyClients, edge, held
<1>5. ASSUME NEW r \in Region,
             AddedUnknown(r) \/ RemovedUnknown(r) \/ Boundary(r) \/ ViewCollision(r)
      PROVE  RecordsInOrder'
  BY <1>3, <1>5 DEF AddedUnknown, RemovedUnknown, Boundary, ViewCollision, edge, held
<1>6. ASSUME NEW r \in Region, Added(r) PROVE RecordsInOrder'
  <2> DEFINE k == presence[r][1].key
             e == [ent[k] EXCEPT !.id = TRUE, !.replaces = None]
  <2>1. k \in Key /\ Held(k)
    BY <1>6, ReportRead DEF Added
  <2>2. ent' = [ent EXCEPT ![k] = e] /\ byId' = byId \cup {k} /\ UNCHANGED minted
    BY <1>6 DEF Added
  <2> HIDE DEF k
  <2>3. ent[k] \in EntityType
    BY <1>2, <2>1
  <2>4. e \in EntityType /\ e.id = TRUE /\ e.replaces = None
    BY <2>3 DEF EntityType
  <2> HIDE DEF e
  <2>5. QED
    BY <2>1, <2>2, <2>4, RecordChanged, NoneFacts
<1>7. ASSUME NEW r \in Region, Removed(r) PROVE RecordsInOrder'
  BY <1>7, RecordDropped DEF Removed
<1>8. CASE Unlist
  <2> DEFINE k == j.other
             e == [ent[k] EXCEPT !.shadows = @ \ {j.victim}]
  <2>1. UNCHANGED <<byId, minted>>
    BY <1>8 DEF Unlist, OnlyEnt
  <2>2. CASE ~Held(k)
    BY <1>3, <1>8, <2>1, <2>2 DEF Unlist, Unlisted
  <2>3. CASE Held(k)
    <3>1. k \in Key
      BY <1>1, <2>3 DEF Held, JobType
    <3>2. e \in EntityType /\ e.id = ent[k].id /\ e.replaces # k
      BY <1>2, <2>3, <3>1 DEF EntityType
    <3>3. ent' = [ent EXCEPT ![k] = e]
      BY <1>8, <2>3 DEF Unlist, Unlisted
    <3> HIDE DEF e, k
    <3>4. QED
      BY <2>1, <2>3, <3>1, <3>2, <3>3, RecordEdited
  <2>4. QED
    BY <2>2, <2>3
<1>9. CASE Stand
  <2> DEFINE k == j.key
             e == [ent[k] EXCEPT !.standing = j.word]
  <2>1. UNCHANGED <<byId, minted>>
    BY <1>9 DEF Stand, OnlyEnt
  <2>2. CASE UNCHANGED ent
    BY <1>3, <2>1, <2>2
  <2>3. CASE Held(k) /\ ent' = [ent EXCEPT ![k] = e]
    <3>1. k \in Key /\ j.word \in 0 .. MaxWords
      BY <1>1, <2>3 DEF Held, JobType
    <3>2. e \in EntityType /\ e.id = ent[k].id /\ e.replaces # k
      BY <1>2, <2>3, <3>1 DEF EntityType
    <3> HIDE DEF e, k
    <3>3. QED
      BY <2>1, <2>3, <3>1, <3>2, RecordEdited
  <2>4. QED
    BY <1>9, <2>2, <2>3 DEF Stand
<1>10. CASE List
  <2> DEFINE k == j.key
             e == [ent[k] EXCEPT !.shadows = j.keep]
  <2>1. UNCHANGED <<byId, minted>>
    BY <1>10 DEF List, OnlyEnt
  <2>2. CASE UNCHANGED ent
    BY <1>3, <2>1, <2>2
  <2>3. CASE Held(k) /\ ent' = [ent EXCEPT ![k] = e]
    <3>1. k \in Key /\ j.keep \in SUBSET Key
      BY <1>1, <2>3 DEF Held, JobType
    <3>2. e \in EntityType /\ e.id = ent[k].id /\ e.replaces # k
      BY <1>2, <2>3, <3>1 DEF EntityType
    <3> HIDE DEF e, k
    <3>3. QED
      BY <2>1, <2>3, <3>1, <3>2, RecordEdited
  <2>4. QED
    BY <1>10, <2>2, <2>3 DEF List
<1>11. ASSUME NEW r \in Region, ViewCleared(r) PROVE RecordsInOrder'
  <2> DEFINE k == presence[r][1].key
             e == [ent[k] EXCEPT !.shadows = {}]
  <2>1. UNCHANGED <<byId, minted>>
    BY <1>11 DEF ViewCleared
  <2>2. CASE UNCHANGED ent
    BY <1>3, <2>1, <2>2
  <2>3. CASE k \in byId /\ ent' = [ent EXCEPT ![k] = e]
    <3>1. k \in Key /\ Held(k)
      BY <2>3 DEF RecordsInOrder, IndexAgrees
    <3>2. e \in EntityType /\ e.id = ent[k].id /\ e.replaces # k
      BY <1>2, <3>1 DEF EntityType
    <3> HIDE DEF e, k
    <3>3. QED
      BY <2>1, <2>3, <3>1, <3>2, RecordEdited
  <2>4. QED
    BY <1>11, <2>2, <2>3 DEF ViewCleared
<1>12. CASE AskShadow
  <2>1. PICK d \in j.reach : Record(j.client, None, d, j.key)
    BY <1>12 DEF AskShadow
  <2>2. j.client \in Client \cup {None} /\ j.key \in Key \cup {None} /\ d \in Region
    BY <1>1 DEF JobType
  <2>3. UNCHANGED byId
    BY <1>12 DEF AskShadow, OnlyAsked
  <2>4. QED
    BY <2>1, <2>2, <2>3, RecordAdded
<1>13. QED
  BY <1>4, <1>5, <1>6, <1>7, <1>8, <1>9, <1>10, <1>11, <1>12, RemapRecords DEF Reader

LEMMA RecordsStep ==
    ASSUME IInv, Next
    PROVE  RecordsInOrder'
<1>0. TypeOK /\ JobsReady /\ RecordsInOrder
  BY DEF IInv, TypeOK, RecordsInOrder
<1>1. minted \in Nat
  BY <1>0, MintedIsNat
<1>2. \A k \in Key : Held(k) => ent[k] \in EntityType /\ ent[k].replaces # k
  BY <1>0 DEF RecordsInOrder, NoneReplacesItself, Held
<1>3. \A t \in Thread : job[t] \in JobType /\ JobReady(job[t], minted)
  BY <1>0 DEF TypeOK, JobsReady
<1>4. \A k : Held(k) /\ k \in Key \cup {None} => k \in Key
  BY DEF Held
<1>5. CASE UNCHANGED <<ent, byId>> /\ (UNCHANGED minted \/ Mint)
  BY <1>0, <1>1, <1>5, SameRecords DEF Mint
<1>6. ASSUME NEW t \in Thread, Common(t) PROVE RecordsInOrder'
  <2> DEFINE j == job[t]
  <2>1. j \in JobType /\ JobReady(j, minted)
    BY <1>3
  <2>2. CASE Ask(t) \/ ReleaseUnanswered(t) \/ ReleaseNext(t) \/ CheckLeft(t) \/ Unbind(t)
             \/ Disconnected(t) \/ Begin(t) \/ Denied(t) \/ Carry(t) \/ Note(t)
    BY <1>5, <2>2 DEF Ask, ReleaseUnanswered, ReleaseNext, CheckLeft, Unbind, Disconnected, Begin,
       Denied, Carry, Note, OnlyJob, OnlyClients, OnlyCarried, OnlyTransits, edge, held
  <2>3. CASE Release(t)
    <3> DEFINE k == j.victim
               e == [ent[k] EXCEPT !.doomed = TRUE]
    <3>1. CASE ~Held(k)
      BY <1>5, <2>3, <3>1 DEF Release
    <3>2. CASE Held(k)
      <4>1. k \in Key
        BY <1>4, <2>1, <3>2 DEF JobType
      <4>2. ent' = [ent EXCEPT ![k] = e] /\ UNCHANGED <<byId, minted>>
        BY <2>3, <3>2 DEF Release, Doom
      <4> HIDE DEF k
      <4>3. ent[k] \in EntityType /\ ent[k].replaces # k
        BY <1>2, <3>2, <4>1
      <4>4. e \in EntityType /\ e.replaces # k /\ e.id = ent[k].id
        BY <4>3 DEF EntityType
      <4> HIDE DEF e
      <4>5. QED
        BY <1>0, <3>2, <4>1, <4>2, <4>4, RecordEdited
    <3>3. QED
      BY <3>1, <3>2
  <2>4. CASE Forget(t)
    BY <1>0, <2>4, RecordDropped DEF Forget, OnlyHeld
  <2>5. ASSUME NEW carry \in BOOLEAN, AskCopy(t, carry) PROVE RecordsInOrder'
    <3>1. j.client \in Client \cup {None} /\ j.dest \in Region
      BY <2>1, <2>5 DEF AskCopy, At, JobReady, JobType
    <3>2. Record(j.client, None, j.dest, None) /\ UNCHANGED byId
      BY <2>5 DEF AskCopy
    <3>3. QED
      BY <1>0, <3>1, <3>2, RecordAdded
  <2>6. CASE Link(t)
    BY <1>0, <2>6, LinkRecords
  <2>7. QED
    BY <1>6, <2>2, <2>3, <2>4, <2>5, <2>6 DEF Common
<1>7. CASE Reader
  BY <1>0, <1>7, ReaderRecords
<1>8. CASE Expire \/ Publisher \/ Game
  <2>1. CASE Expire \/ Publish \/ Uncarry \/ Unhold \/ Expired
    BY <1>5, <2>1 DEF Expire, Publish, Uncarry, Unhold, Expired, OnlyJob, OnlyTransits, OnlyCarried,
       edge, held
  <2>2. ASSUME NEW x \in job["publisher"].due, LeaveBe(x) PROVE RecordsInOrder'
    BY <1>5, <2>2 DEF LeaveBe, OnlyJob, edge, held
  <2>3. ASSUME NEW x \in job["publisher"].due, GiveUp(x) PROVE RecordsInOrder'
    <3> DEFINE k == x[1]
               e == [ent[k] EXCEPT !.to = None, !.held = <<>>]
    <3>1. k \in Key /\ Held(k)
      BY <1>3, <2>3, ThreadFacts DEF GiveUp, Unconfirmed, JobType
    <3>2. <<>> \in Seq(Word)
      OBVIOUS
    <3>3. ent' = [ent EXCEPT ![k] = e] /\ UNCHANGED <<byId, minted>>
      BY <2>3 DEF GiveUp, OnlyEnt
    <3> HIDE DEF k
    <3>4. ent[k] \in EntityType /\ ent[k].replaces # k
      BY <1>2, <3>1
    <3>5. e \in EntityType /\ e.replaces # k /\ e.id = ent[k].id
      BY <3>2, <3>4 DEF EntityType
    <3> HIDE DEF e
    <3>6. QED
      BY <1>0, <3>1, <3>3, <3>5, RecordEdited
  <2>4. ASSUME NEW c \in Client, NEW r \in Region, GameSpawn(c, r) PROVE RecordsInOrder'
    <3>1. Record(c, None, r, None) /\ UNCHANGED byId
      BY <2>4 DEF GameSpawn
    <3>2. QED
      BY <1>0, <3>1, RecordAdded
  <2>5. ASSUME NEW k \in Key, GameDespawn(k) PROVE RecordsInOrder'
    BY <1>5, <2>5 DEF GameDespawn, edge, held
  <2>6. QED
    BY <1>8, <2>1, <2>2, <2>3, <2>4, <2>5 DEF Publisher, Game
<1>9. CASE Worlds
  BY <1>5, <1>9, WorldsFrame DEF edge, held
<1>10. ASSUME NEW c \in Client, Commanded(c) PROVE RecordsInOrder'
  <2>1. ASSUME NEW h \in Handle,
               \/ ClientDespawn(c, h) \/ ClientSay(c, h)
               \/ \E r \in Region : ClientTeleport(c, h, r)
        PROVE  RecordsInOrder'
    BY <1>5, <2>1 DEF ClientDespawn, ClientSay, ClientTeleport, OnlyJob, edge, held
  <2>2. ASSUME NEW h \in Handle, NEW r \in Region, ClientSpawn(c, h, r) PROVE RecordsInOrder'
    <3>1. Record(c, h, r, None) /\ UNCHANGED byId
      BY <2>2 DEF ClientSpawn
    <3>2. QED
      BY <1>0, <3>1, RecordAdded
  <2>3. CASE ClientLeave(c)
    BY <1>5, <2>3 DEF ClientLeave, OnlyClients, held
  <2>4. QED
    BY <1>10, <2>1, <2>2, <2>3 DEF Commanded
<1>11. ASSUME NEW c \in Client, Say(c) PROVE RecordsInOrder'
  BY <1>0, <1>11, SayRecords, ThreadFacts
<1>12. QED
  BY <1>6, <1>7, <1>8, <1>9, <1>10, <1>11 DEF Next

-----------------------------------------------------------------------------
(* The i-th of the places in I is the one with i places of I up to it: the *)
(* places of I are counted off from 1 to their number.                     *)
LEMMA PlacesCounted ==
    ASSUME NEW m \in Nat, NEW I \in SUBSET (1 .. m)
    PROVE  /\ IsFiniteSet(I) /\ Cardinality(I) \in Nat
           /\ \A n \in 1 .. Cardinality(I) :
                \E i \in I : Cardinality({j \in I : j <= i}) = n
           /\ \A i \in I : Cardinality({j \in I : j <= i}) \in 1 .. Cardinality(I)
           /\ \A i, k \in I :
                Cardinality({j \in I : j <= i}) = Cardinality({j \in I : j <= k}) => i = k
<1> DEFINE upTo(i) == {j \in I : j <= i}
           f == [i \in I |-> Cardinality(upTo(i))]
<1>1. IsFiniteSet(I) /\ Cardinality(I) \in Nat
  <2>1. IsFiniteSet(1 .. m)
    BY FS_Interval
  <2>2. IsFiniteSet(I)
    BY <2>1, FS_Subset
  <2>3. QED
    BY <2>2, FS_CardinalityType
<1>2. ASSUME NEW i \in I
      PROVE  /\ IsFiniteSet(upTo(i))
             /\ Cardinality(upTo(i)) \in 1 .. Cardinality(I)
  <2>1. upTo(i) \in SUBSET I /\ i \in upTo(i)
    OBVIOUS
  <2>2. IsFiniteSet(upTo(i)) /\ Cardinality(upTo(i)) <= Cardinality(I)
    BY <1>1, <2>1, FS_Subset
  <2>3. Cardinality(upTo(i)) \in Nat /\ Cardinality(upTo(i)) # 0
    BY <2>1, <2>2, FS_CardinalityType, FS_EmptySet
  <2>4. QED
    BY <1>1, <2>2, <2>3
<1>3. ASSUME NEW i \in I, NEW k \in I, i < k PROVE f[i] # f[k]
  <2>1. I \subseteq Int
    OBVIOUS
  <2>2. upTo(i) \in SUBSET upTo(k)
    <3>1. \A j \in I : j <= i => j <= k
      BY <1>3, <2>1
    <3>2. QED
      BY <3>1
  <2>3. k \in upTo(k) /\ k \notin upTo(i)
    BY <1>3, <2>1
  <2>4. Cardinality(upTo(i)) # Cardinality(upTo(k))
    BY <1>2, <2>2, <2>3, FS_Subset
  <2>5. QED
    BY <2>4
<1>4. f \in Injection(I, 1 .. Cardinality(I))
  <2>1. f \in [I -> 1 .. Cardinality(I)]
    BY <1>2
  <2>2. \A i, k \in I : i < k \/ k < i \/ i = k
    OBVIOUS
  <2>3. \A i, k \in I : f[i] = f[k] => i = k
    BY <1>3, <2>2
  <2>4. QED
    BY <2>1, <2>3 DEF Injection, IsInjective
<1>5. f \in Surjection(I, 1 .. Cardinality(I))
  <2>1. /\ IsFiniteSet(1 .. Cardinality(I))
        /\ Cardinality(1 .. Cardinality(I)) = Cardinality(I)
    BY <1>1, FS_Interval
  <2>2. QED
    BY <1>4, <2>1, FS_Injection
<1>6. \A n \in 1 .. Cardinality(I) : \E i \in I : f[i] = n
  BY <1>5 DEF Surjection
<1>7. QED
  BY <1>1, <1>2, <1>4, <1>6 DEF Injection, IsInjective

(* What is picked from a sequence is a sequence, of elements of it that    *)
(* stand at the places picked.                                             *)
LEMMA PickedType ==
    ASSUME NEW S, NEW s \in Seq(S), NEW I \in SUBSET DOMAIN s
    PROVE  /\ Picked(s, I) \in Seq(S)
           /\ \A n \in DOMAIN Picked(s, I) : \E i \in I : Picked(s, I)[n] = s[i]
           /\ \A i \in I : \E n \in DOMAIN Picked(s, I) : Picked(s, I)[n] = s[i]
           /\ \A m, n \in DOMAIN Picked(s, I) : m # n =>
                \E i, j \in I : i # j /\ Picked(s, I)[m] = s[i] /\ Picked(s, I)[n] = s[j]
<1> DEFINE nth(n) == CHOOSE i \in I : Cardinality({j \in I : j <= i}) = n
           p == [n \in 1 .. Cardinality(I) |-> s[nth(n)]]
<1>1. Len(s) \in Nat /\ DOMAIN s = 1 .. Len(s)
  OBVIOUS
<1> DEFINE upTo(i) == Cardinality({j \in I : j <= i})
<1>2. /\ Cardinality(I) \in Nat
      /\ \A n \in 1 .. Cardinality(I) : \E i \in I : upTo(i) = n
      /\ \A i \in I : upTo(i) \in 1 .. Cardinality(I)
      /\ \A i, k \in I : upTo(i) = upTo(k) => i = k
  BY <1>1, PlacesCounted
<1>3. \A n \in 1 .. Cardinality(I) : nth(n) \in I /\ upTo(nth(n)) = n
  BY <1>2
<1>4. \A i \in I : \E n \in 1 .. Cardinality(I) : nth(n) = i
  BY <1>2, <1>3
<1>5. \A m, n \in 1 .. Cardinality(I) : m # n => nth(m) # nth(n)
  BY <1>3
<1>6. Picked(s, I) = p
  BY DEF Picked
<1> HIDE DEF nth, upTo
<1>7. \A n \in 1 .. Cardinality(I) : p[n] = s[nth(n)] /\ p[n] \in S
  BY <1>1, <1>3
<1>8. p \in [1 .. Cardinality(I) -> S] /\ DOMAIN p = 1 .. Cardinality(I)
  BY <1>7
<1>9. p \in Seq(S)
  BY <1>2, <1>8
<1>10. QED
  BY <1>3, <1>6, <1>7, <1>8, <1>9, <1>4, <1>5

(* The elements of a finite set, in some order.                            *)
LEMMA SetToSeqType ==
    ASSUME NEW S, IsFiniteSet(S)
    PROVE  /\ SetToSeq(S) \in Seq(S)
           /\ \A x \in S : \E i \in DOMAIN SetToSeq(S) : SetToSeq(S)[i] = x
<1> DEFINE n == Cardinality(S)
           s == SetToSeq(S)
<1>1. PICK f \in Bijection(1 .. n, S) : TRUE
  BY FS_CardinalityType DEF ExistsBijection
<1>2. f \in [1 .. n -> S] /\ IsInjective(f)
  BY <1>1 DEF Bijection, Injection, IsInjective
<1>3. s \in [1 .. n -> S] /\ IsInjective(s)
  BY <1>2 DEF SetToSeq
<1>4. n \in Nat /\ IsFiniteSet(1 .. n) /\ Cardinality(1 .. n) = n
  BY FS_CardinalityType, FS_Interval
<1> HIDE DEF s
<1>5. s \in Surjection(1 .. n, S)
  <2>1. s \in Injection(1 .. n, S)
    BY <1>3 DEF Injection
  <2>2. QED
    BY <1>4, <2>1, FS_Injection
<1>6. s \in Seq(S) /\ DOMAIN s = 1 .. n
  BY <1>3, <1>4
<1>7. \A x \in S : \E i \in DOMAIN s : s[i] = x
  BY <1>5, <1>6 DEF Surjection
<1>8. QED
  BY <1>6, <1>7 DEF s

-----------------------------------------------------------------------------
(* The clients.                                                            *)
LEMMA ClientEdited ==
    ASSUME TypeOK, NEW c \in Client, NEW e \in ClientType \cup {None},
           clients' = [clients EXCEPT ![c] = e]
    PROVE  clients' \in [Client -> ClientType \cup {None}]
  BY DEF TypeOK

LEMMA AskClients ==
    ASSUME TypeOK, JobsReady, NEW t \in Thread, Ask(t)
    PROVE  clients' \in [Client -> ClientType \cup {None}]
<1> DEFINE c == job[t].client
           h == job[t].handle
           k == job[t].other
           e == [clients[c] EXCEPT !.keys = @ \cup {k},
                                   !.handles = IF h = None THEN @ ELSE [@ EXCEPT ![h] = k]]
<1>1. k \in Key /\ c \in Client \cup {None} /\ h \in Handle \cup {None}
  <2>1. job[t] \in JobType /\ JobReady(job[t], minted)
    BY DEF TypeOK, JobsReady
  <2>2. QED
    BY <2>1 DEF Ask, At, JobReady, JobType
<1>2. CASE UNCHANGED clients
  BY <1>2 DEF TypeOK
<1>3. CASE ~(c = None \/ clients[c] = None)
  <2>1. clients' = [clients EXCEPT ![c].keys = @ \cup {k},
                                   ![c].handles = IF h = None THEN @ ELSE [@ EXCEPT ![h] = k]]
    BY <1>3 DEF Ask
  <2> HIDE DEF c, h, k
  <2>2. c \in Client /\ clients[c] \in ClientType
    BY <1>1, <1>3 DEF TypeOK
  <2>3. e \in ClientType
    BY <1>1, <2>2 DEF ClientType
  <2>4. clients' = [clients EXCEPT ![c] = e]
    BY <2>1, <2>2 DEF TypeOK, ClientType
  <2> HIDE DEF e
  <2>5. QED
    BY <2>2, <2>3, <2>4, ClientEdited
<1>4. QED
  BY <1>2, <1>3 DEF Ask

LEMMA UnbindClients ==
    ASSUME TypeOK, JobsReady, NEW t \in Thread, Unbind(t)
    PROVE  clients' \in [Client -> ClientType \cup {None}]
<1> DEFINE c == job[t].of[1]
           h == job[t].of[2]
           k == job[t].victim
           e == [clients[c] EXCEPT !.keys = @ \ {k},
                                   !.handles = IF h = None THEN @ ELSE [@ EXCEPT ![h] = None]]
<1>1. c \in Client \cup {None} /\ h \in Handle \cup {None}
  <2>1. job[t] \in JobType
    BY DEF TypeOK
  <2>2. job[t].of \in (Client \cup {None}) \X (Handle \cup {None})
    BY <2>1 DEF JobType
  <2>3. QED
    BY <2>2
<1>2. clients' = Unbound(c, k, h)
  BY DEF Unbind
<1> HIDE DEF c, h, k
<1>3. CASE UNCHANGED clients
  BY <1>3 DEF TypeOK
<1>4. CASE ~(c = None \/ clients[c] = None)
  <2>1. c \in Client /\ clients[c] \in ClientType
    BY <1>1, <1>4 DEF TypeOK
  <2>2. e \in ClientType
    BY <1>1, <2>1 DEF ClientType
  <2>3. clients' = [clients EXCEPT ![c] = e]
    BY <1>2, <1>4, <2>1 DEF Unbound, TypeOK, ClientType
  <2> HIDE DEF e
  <2>4. QED
    BY <2>1, <2>2, <2>3, ClientEdited
<1>5. QED
  BY <1>2, <1>3, <1>4 DEF Unbound

LEMMA RehandleClients ==
    ASSUME TypeOK, JobsReady, Rehandle
    PROVE  clients' \in [Client -> ClientType \cup {None}]
<1> DEFINE c == job["reader"].client
           h == job["reader"].handle
           k == job["reader"].key
           old == job["reader"].other
           e == [clients[c] EXCEPT !.handles = [@ EXCEPT ![h] = k], !.keys = @ \ {old}]
<1>1. k \in Key /\ c \in Client \cup {None} /\ h \in Handle \cup {None}
  <2>1. job["reader"] \in JobType /\ JobReady(job["reader"], minted)
    BY ThreadFacts DEF TypeOK, JobsReady
  <2>2. QED
    BY <2>1 DEF Rehandle, At, JobReady, JobType
<1>2. clients' = Rehandled(c, h, k, old)
  BY DEF Rehandle
<1> HIDE DEF c, h, k, old
<1>3. CASE UNCHANGED clients
  BY <1>3 DEF TypeOK
<1>4. CASE ~(c = None \/ h = None \/ clients[c] = None)
  <2>1. c \in Client /\ h \in Handle /\ clients[c] \in ClientType
    BY <1>1, <1>4 DEF TypeOK
  <2>2. e \in ClientType
    BY <1>1, <2>1 DEF ClientType
  <2>3. clients' = [clients EXCEPT ![c] = e]
    BY <1>2, <1>4, <2>1 DEF Rehandled, TypeOK, ClientType
  <2> HIDE DEF e
  <2>4. QED
    BY <2>1, <2>2, <2>3, ClientEdited
<1>5. QED
  BY <1>2, <1>3, <1>4 DEF Rehandled

LEMMA ClientsStep ==
    ASSUME IInv, Next
    PROVE  clients' \in [Client -> ClientType \cup {None}]
<1>0. TypeOK /\ JobsReady
  BY DEF IInv
<1>1. CASE UNCHANGED clients
  BY <1>0, <1>1 DEF TypeOK
<1>2. ASSUME NEW t \in Thread, Common(t)
      PROVE  clients' \in [Client -> ClientType \cup {None}]
  <2>1. CASE Ask(t)
    BY <1>0, <2>1, AskClients
  <2>2. CASE Unbind(t)
    BY <1>0, <2>2, UnbindClients
  <2>3. CASE Disconnected(t)
    BY <1>0, <2>3 DEF Disconnected, TypeOK
  <2>4. CASE \/ ReleaseUnanswered(t) \/ Release(t) \/ Forget(t) \/ ReleaseNext(t) \/ CheckLeft(t)
             \/ Begin(t) \/ Denied(t) \/ (\E carry \in BOOLEAN : AskCopy(t, carry))
             \/ Link(t) \/ Carry(t) \/ Note(t)
    BY <1>1, <2>4 DEF ReleaseUnanswered, Release, Forget, ReleaseNext, CheckLeft, Begin, Denied,
       AskCopy, Link, Carry, Note, OnlyJob, OnlyHeld, OnlyEnt, OnlyCarried, OnlyTransits, edge
  <2>5. QED
    BY <1>2, <2>1, <2>2, <2>3, <2>4 DEF Common
<1>3. CASE Reader
  <2>1. CASE Rehandle
    BY <1>0, <2>1, RehandleClients
  <2>2. CASE UNCHANGED clients
    BY <1>1, <2>2
  <2>3. Reader => Rehandle \/ UNCHANGED clients
    BY Zenon DEF Reader, AddedUnknown, Added, RemovedUnknown, Removed, Boundary, ViewCollision,
           ViewCleared, Greet, CopyOrphaned, Remap, Panic, Landed, Resend, Stand, Arrive,
           Unlist, Notify, KeepShadow, AskShadow, ViewSeen, List, edge, OnlyAsked,
           OnlyHeld, OnlyTransits, OnlyEnt, OnlyJob
  <2>4. QED
    BY <1>3, <2>1, <2>2, <2>3
<1>4. CASE Expire \/ Publisher \/ Game
  BY <1>1, <1>4 DEF Expire, Publisher, Publish, LeaveBe, GiveUp, Uncarry, Unhold, Expired, Game,
     GameSpawn, GameDespawn, edge, OnlyJob, OnlyEnt, OnlyCarried, OnlyTransits
<1>5. CASE Worlds
  BY <1>1, <1>5, WorldsFrame DEF edge
<1>6. ASSUME NEW c \in Client, Commanded(c)
      PROVE  clients' \in [Client -> ClientType \cup {None}]
  <2>1. CASE ClientLeave(c)
    <3> DEFINE e == [clients[c] EXCEPT !.leaving = TRUE]
    <3>1. clients[c] \in ClientType
      BY <1>0, <2>1 DEF ClientLeave, Connected, TypeOK
    <3>2. e \in ClientType
      BY <3>1 DEF ClientType
    <3>3. clients' = [clients EXCEPT ![c] = e]
      BY <2>1 DEF ClientLeave
    <3>4. QED
      BY <1>0, <3>2, <3>3, ClientEdited
  <2>2. CASE UNCHANGED clients
    BY <1>1, <2>2
  <2>3. Commanded(c) => ClientLeave(c) \/ UNCHANGED clients
    BY DEF Commanded, ClientDespawn, ClientSay, ClientTeleport, ClientSpawn, edge, OnlyJob
  <2>4. QED
    BY <1>6, <2>1, <2>2, <2>3
<1>7. ASSUME NEW c \in Client, Say(c) PROVE clients' \in [Client -> ClientType \cup {None}]
  BY <1>1, <1>7 DEF Say
<1>8. QED
  BY <1>2, <1>3, <1>4, <1>5, <1>6, <1>7 DEF Next

-----------------------------------------------------------------------------
(* What is to be published.                                                *)
LEMMA MessageTypes ==
    ASSUME NEW r \in Region, NEW k \in Key
    PROVE  /\ Spawning(r, k) \in MessageType /\ Despawning(r, k) \in MessageType
           /\ \A w \in Word : Saying(r, k, w) \in MessageType
           /\ \A ws \in Seq(Word) : Messages(r, k, ws) \in Seq(MessageType)
<1>1. MaxWords \in Nat
  BY EdgeServerAssumption
<1>2. /\ Spawning(r, k) \in MessageType /\ Despawning(r, k) \in MessageType
      /\ \A w \in Word : Saying(r, k, w) \in MessageType
  BY <1>1 DEF Spawning, Despawning, Saying, MessageType, Word
<1>3. ASSUME NEW ws \in Seq(Word) PROVE Messages(r, k, ws) \in Seq(MessageType)
  <2>1. Len(ws) \in Nat /\ DOMAIN ws = 1 .. Len(ws) /\ \A i \in DOMAIN ws : ws[i] \in Word
    OBVIOUS
  <2>2. \A i \in DOMAIN ws : Saying(r, k, ws[i]) \in MessageType
    BY <1>2, <2>1
  <2>3. QED
    BY <2>1, <2>2 DEF Messages
<1>4. QED
  BY <1>2, <1>3

LEMMA Sent ==
    ASSUME TypeOK, NEW ms \in Seq(MessageType), Send(ms)
    PROVE  outbound' \in Seq(MessageType)
  BY DEF TypeOK, Send

LEMMA ResendOutbound ==
    ASSUME TypeOK, JobsReady, Resend
    PROVE  outbound' \in Seq(MessageType)
<1> DEFINE j == job["reader"]
           k == j.key
           old == j.other
           d == j.dest
           reach == j.reach
           word == j.word
           hold == j.words
<1>1. j \in JobType /\ JobReady(j, minted) /\ j.pc = "resend"
  BY ThreadFacts DEF TypeOK, JobsReady, Resend, At
<1>2. k \in Key /\ old \in Key /\ d \in Region
  BY <1>1 DEF JobReady
<1>3. reach \subseteq Region /\ word \in 0 .. MaxWords /\ hold \in Seq(Word)
  BY <1>1 DEF JobType
<1>4. Send(Leaves(reach, old) \o Messages(d, k, Repeats(word, hold)))
  BY DEF Resend
<1> HIDE DEF k, old, d, reach, word, hold
<1>5. Leaves(reach, old) \in Seq(MessageType)
  <2>1. reach # {} => (CHOOSE r \in reach : TRUE) \in Region
    BY <1>3
  <2>2. QED
    BY <1>2, <2>1, MessageTypes DEF Leaves
<1>6. Repeats(word, hold) \in Seq(Word)
  <2>1. word # 0 => word \in Word
    BY <1>3, EdgeServerAssumption DEF Word
  <2>2. QED
    BY <1>3, <2>1 DEF Repeats
<1>7. Messages(d, k, Repeats(word, hold)) \in Seq(MessageType)
  BY <1>2, <1>6, MessageTypes
<1> DEFINE ms == Leaves(reach, old) \o Messages(d, k, Repeats(word, hold))
<1>8. ms \in Seq(MessageType)
  BY <1>5, <1>7
<1> HIDE DEF ms
<1>9. QED
  BY <1>4, <1>8, Sent DEF ms

LEMMA SayOutbound ==
    ASSUME TypeOK, JobsReady, NEW c \in Thread, Say(c)
    PROVE  outbound' \in Seq(MessageType)
<1> DEFINE k == job[c].key
           w == job[c].word
<1>1. w \in Word /\ k \in Key \cup {None}
  <2>1. job[c] \in JobType /\ JobReady(job[c], minted)
    BY DEF TypeOK, JobsReady
  <2>2. QED
    BY <2>1 DEF Say, At, JobReady, JobType
<1>2. UNCHANGED outbound \/ (Held(k) /\ Send(<<Saying(ent[k].region, k, w)>>))
  BY DEF Say
<1> HIDE DEF k, w
<1>3. CASE UNCHANGED outbound
  BY <1>3 DEF TypeOK
<1>4. CASE Held(k) /\ Send(<<Saying(ent[k].region, k, w)>>)
  <2>1. k \in Key /\ ent[k] \in EntityType
    BY <1>1, <1>4 DEF Held, TypeOK
  <2>2. ent[k].region \in Region
    BY <2>1 DEF EntityType
  <2>3. Saying(ent[k].region, k, w) \in MessageType
    BY <1>1, <2>1, <2>2, MessageTypes
  <2>4. <<Saying(ent[k].region, k, w)>> \in Seq(MessageType)
    BY <2>3
  <2>5. QED
    BY <1>4, <2>4, Sent
<1>5. QED
  BY <1>2, <1>3, <1>4

LEMMA CommonOutbound ==
    ASSUME TypeOK, JobsReady, NEW t \in Thread, Common(t)
    PROVE  outbound' \in Seq(MessageType)
<1> DEFINE j == job[t]
<1>1. j \in JobType /\ JobReady(j, minted)
  BY DEF TypeOK, JobsReady
<1>2. CASE UNCHANGED outbound
  BY <1>2 DEF TypeOK
<1>3. CASE Ask(t)
  <2>1. j.other \in Key /\ j.dest \in Region
    BY <1>1, <1>3 DEF Ask, At, JobReady
  <2>2. <<Spawning(j.dest, j.other)>> \in Seq(MessageType)
    BY <2>1, MessageTypes
  <2>3. Send(<<Spawning(j.dest, j.other)>>)
    BY <1>3 DEF Ask
  <2>4. QED
    BY <2>2, <2>3, Sent
<1>4. CASE Release(t)
  <2> DEFINE k == j.victim
  <2>1. k \in Key \cup {None}
    BY <1>1 DEF JobType
  <2>2. UNCHANGED outbound \/ (Held(k) /\ Send(<<Despawning(ent[k].region, k)>>))
    BY <1>4 DEF Release, Doom
  <2> HIDE DEF k
  <2>3. CASE Held(k) /\ Send(<<Despawning(ent[k].region, k)>>)
    <3>1. k \in Key /\ ent[k] \in EntityType
      BY <2>1, <2>3 DEF Held, TypeOK
    <3>2. ent[k].region \in Region
      BY <3>1 DEF EntityType
    <3>3. <<Despawning(ent[k].region, k)>> \in Seq(MessageType)
      BY <3>1, <3>2, MessageTypes
    <3>4. QED
      BY <2>3, <3>3, Sent
  <2>4. QED
    BY <1>2, <2>2, <2>3
<1>5. CASE \/ ReleaseUnanswered(t) \/ Forget(t) \/ Unbind(t) \/ ReleaseNext(t) \/ CheckLeft(t)
           \/ Disconnected(t) \/ Begin(t) \/ Denied(t) \/ (\E carry \in BOOLEAN : AskCopy(t, carry))
           \/ Link(t) \/ Carry(t) \/ Note(t)
  BY <1>2, <1>5 DEF ReleaseUnanswered, Forget, Unbind, ReleaseNext, CheckLeft, Disconnected, Begin,
     Denied, AskCopy, Link, Carry, Note, OnlyJob, OnlyHeld, OnlyClients, OnlyEnt, OnlyCarried,
     OnlyTransits
<1>6. QED
  BY <1>3, <1>4, <1>5 DEF Common

LEMMA OutboundStep ==
    ASSUME IInv, Next
    PROVE  outbound' \in Seq(MessageType)
<1>0. TypeOK /\ JobsReady
  BY DEF IInv
<1>1. CASE UNCHANGED outbound
  BY <1>0, <1>1 DEF TypeOK
<1>2. ASSUME NEW t \in Thread, Common(t) PROVE outbound' \in Seq(MessageType)
  BY <1>0, <1>2, CommonOutbound
<1>3. ASSUME NEW r \in Region, AddedUnknown(r) PROVE outbound' \in Seq(MessageType)
  <2>1. presence[r][1].key \in Key /\ Send(<<Despawning(r, presence[r][1].key)>>)
    BY <1>0, <1>3, ReportRead DEF AddedUnknown
  <2>2. <<Despawning(r, presence[r][1].key)>> \in Seq(MessageType)
    BY <2>1, MessageTypes
  <2>3. QED
    BY <1>0, <2>1, <2>2, Sent
<1>4. CASE CopyOrphaned
  <2> DEFINE k == job["reader"].key
             d == job["reader"].dest
  <2>1. k \in Key /\ d \in Region
    BY <1>0, <1>4, ThreadFacts DEF CopyOrphaned, At, JobReady, JobsReady
  <2>2. Send(<<Despawning(d, k)>>)
    BY <1>4 DEF CopyOrphaned
  <2>3. <<Despawning(d, k)>> \in Seq(MessageType)
    BY <2>1, MessageTypes
  <2>4. QED
    BY <1>0, <2>2, <2>3, Sent
<1>5. CASE Reader
  <2>1. CASE Resend
    BY <1>0, <2>1, ResendOutbound
  <2>2. Reader => \/ Resend \/ CopyOrphaned \/ (\E r \in Region : AddedUnknown(r))
                  \/ UNCHANGED outbound
    BY Zenon DEF Reader, Added, RemovedUnknown, Removed, Boundary, ViewCollision,
           ViewCleared, Greet, Remap, Panic, Landed, Rehandle, Stand, Arrive,
           Unlist, Notify, KeepShadow, AskShadow, ViewSeen, List, OnlyAsked,
           OnlyHeld, OnlyTransits, OnlyClients, OnlyEnt, OnlyJob
  <2>3. QED
    BY <1>1, <1>3, <1>4, <1>5, <2>1, <2>2
<1>6. CASE Unhold
  <2> DEFINE j == job["publisher"]
             k == j.key
             d == j.dest
             ws == j.words
  <2>1. j \in JobType /\ JobReady(j, minted) /\ j.pc = "unhold"
    BY <1>0, <1>6, ThreadFacts DEF TypeOK, JobsReady, Unhold, At
  <2>2. d \in Region /\ ws \in Seq(Word) /\ k \in Key \cup {None}
    BY <2>1 DEF JobReady, JobType
  <2>3. UNCHANGED outbound \/ (Held(k) /\ Send(Messages(d, k, ws)))
    BY <1>6 DEF Unhold
  <2> HIDE DEF k, d, ws
  <2>4. CASE Held(k) /\ Send(Messages(d, k, ws))
    <3>1. Messages(d, k, ws) \in Seq(MessageType)
      BY <2>2, <2>4, MessageTypes DEF Held
    <3>2. QED
      BY <1>0, <2>4, <3>1, Sent
  <2>5. QED
    BY <1>1, <2>3, <2>4
<1>7. CASE Expire \/ Publisher \/ Game
  <2>1. CASE Publish
    <3>1. <<>> \in Seq(MessageType)
      OBVIOUS
    <3>2. QED
      BY <2>1, <3>1 DEF Publish
  <2>2. CASE UNCHANGED outbound
    BY <1>1, <2>2
  <2>3. Expire \/ Publisher \/ Game => Publish \/ Unhold \/ UNCHANGED outbound
    BY DEF Expire, Publisher, LeaveBe, GiveUp, Uncarry, Expired, Game,
           GameSpawn, GameDespawn, OnlyJob, OnlyEnt, OnlyCarried, OnlyTransits
  <2>4. QED
    BY <1>6, <1>7, <2>1, <2>2, <2>3
<1>8. CASE Worlds
  BY <1>1, <1>8, WorldsFrame
<1>9. ASSUME NEW c \in Client, Commanded(c) PROVE outbound' \in Seq(MessageType)
  BY <1>1, <1>9 DEF Commanded, ClientLeave, ClientDespawn, ClientSay, ClientTeleport, ClientSpawn,
     OnlyJob, OnlyClients
<1>10. ASSUME NEW c \in Client, Say(c) PROVE outbound' \in Seq(MessageType)
  BY <1>0, <1>10, SayOutbound, ThreadFacts
<1>11. QED
  BY <1>2, <1>5, <1>7, <1>8, <1>9, <1>10 DEF Next

-----------------------------------------------------------------------------
(* What is published, and what the regions make of it.  What they hold,    *)
(* take and report is about keys of S, and reports are of the kinds W, if  *)
(* what is published is about keys of S.                                   *)
Reports == {"added", "removed", "cross", "view", "cleared"}

MessageOf(S) ==
    [what : {"spawn", "despawn", "message"}, region : Region, key : S, word : 0 .. MaxWords]

ReportOf(S, W) == [what : W, key : S, to : SUBSET Region]

RegionsOf(S, W) ==
    /\ inbox \in [Region -> Seq(MessageOf(S))]
    /\ presence \in [Region -> Seq(ReportOf(S, W))] /\ alive \in [Region -> SUBSET S]
    /\ heard \in [Key -> Seq(0 .. MaxWords)] /\ events \in 0 .. MaxEvents

RegionsTyped == RegionsOf(Key, Reports)

LEMMA KeysTyped ==
    /\ MessageType = MessageOf(Key) /\ ReportType = ReportOf(Key, Reports)
    /\ TypeOK => RegionsTyped
  BY DEF MessageType, MessageOf, ReportType, ReportOf, Reports, TypeOK, RegionsTyped, RegionsOf

LEMMA PublishRegions ==
    ASSUME NEW S, NEW W, RegionsOf(S, W), outbound \in Seq(MessageOf(S)), Publish
    PROVE  RegionsOf(S, W)'
<1> DEFINE of(r, what) ==
            Picked(outbound,
                   {i \in DOMAIN outbound : outbound[i].region = r /\ outbound[i].what = what})
<1>1. \A r, what : of(r, what) \in Seq(MessageOf(S))
  BY PickedType
<1>2. inbox' = [r \in Region |->
                    inbox[r] \o of(r, "spawn") \o of(r, "despawn") \o of(r, "message")]
  BY DEF Publish
<1> HIDE DEF of
<1>3. ASSUME NEW r \in Region
      PROVE  inbox[r] \o of(r, "spawn") \o of(r, "despawn") \o of(r, "message")
                \in Seq(MessageOf(S))
  <2>1. inbox[r] \in Seq(MessageOf(S))
    BY DEF RegionsOf
  <2>2. inbox[r] \o of(r, "spawn") \in Seq(MessageOf(S))
    BY <1>1, <2>1
  <2>3. inbox[r] \o of(r, "spawn") \o of(r, "despawn") \in Seq(MessageOf(S))
    BY <1>1, <2>2
  <2>4. QED
    BY <1>1, <2>3
<1>4. inbox' \in [Region -> Seq(MessageOf(S))]
  BY <1>2, <1>3
<1>5. QED
  BY <1>4 DEF RegionsOf, Publish

LEMMA HappensRegions ==
    ASSUME NEW S, NEW W, RegionsOf(S, W),
           NEW r \in Region, NEW what \in W, NEW k, NEW to \in SUBSET Region,
           Happens(r, what, k, to), alive' \in [Region -> SUBSET S]
    PROVE  RegionsOf(S, W)'
<1>1. k \in S
  BY DEF Happens, RegionsOf
<1>2. [what |-> what, key |-> k, to |-> to] \in ReportOf(S, W)
  BY <1>1 DEF ReportOf
<1>3. presence' \in [Region -> Seq(ReportOf(S, W))]
  BY <1>2 DEF Happens, RegionsOf
<1>4. events' \in 0 .. MaxEvents
  BY EdgeServerAssumption DEF Happens, RegionsOf
<1>5. QED
  BY <1>3, <1>4 DEF RegionsOf, Happens

LEMMA TakesRegions ==
    ASSUME NEW S \in SUBSET Key, NEW W, {"added", "removed"} \subseteq W, RegionsOf(S, W),
           NEW r \in Region, RegionTakes(r)
    PROVE  RegionsOf(S, W)'
<1>0. /\ inbox \in [Region -> Seq(MessageOf(S))] /\ inbox[r] \in Seq(MessageOf(S))
      /\ presence \in [Region -> Seq(ReportOf(S, W))] /\ alive \in [Region -> SUBSET S]
      /\ heard \in [Key -> Seq(0 .. MaxWords)] /\ events \in 0 .. MaxEvents
  BY DEF RegionsOf
<1> DEFINE batch(n) == SubSeq(inbox[r], 1, n)
           of(n, what) == Picked(batch(n), {i \in DOMAIN batch(n) : batch(n)[i].what = what})
           keys(ms) == {m.key : m \in ToSet(ms)}
           report(ks, what) == [i \in DOMAIN ks |-> [what |-> what, key |-> ks[i], to |-> {}]]
           says(n, k) == Picked(batch(n), {i \in DOMAIN batch(n) :
                              batch(n)[i].what = "message" /\ batch(n)[i].key = k})
           added(n, refused) == Picked(batch(n), {i \in DOMAIN batch(n) :
                              batch(n)[i].what = "spawn" /\ batch(n)[i].key \notin refused})
           there(n, refused) == alive[r] \cup keys(added(n, refused))
           removed(n, refused) == there(n, refused) \cap keys(of(n, "despawn"))
           spoken(n, k) == [i \in DOMAIN says(n, k) |-> says(n, k)[i].word]
           adds(n, refused) == [i \in DOMAIN added(n, refused) |-> added(n, refused)[i].key]
<1>1. PICK n \in 1 .. Len(inbox[r]) : \E refused \in SUBSET keys(of(n, "spawn")) :
        /\ refused = {} \/ "refuse" \in Events
        /\ inbox' = [inbox EXCEPT ![r] = SubSeq(@, n + 1, Len(@))]
        /\ alive' = [alive EXCEPT ![r] = there(n, refused) \ removed(n, refused)]
        /\ heard' = [k \in Key |-> IF k \in alive'[r] THEN heard[k] \o spoken(n, k) ELSE heard[k]]
        /\ presence' = [presence EXCEPT ![r] =
                          @ \o report(SetToSeq(removed(n, refused)), "removed")
                            \o report(adds(n, refused), "added")]
        /\ UNCHANGED <<edge, outbound, job, events, aside>>
  BY Zenon DEF RegionTakes
<1>2. PICK refused :
        /\ inbox' = [inbox EXCEPT ![r] = SubSeq(@, n + 1, Len(@))]
        /\ alive' = [alive EXCEPT ![r] = there(n, refused) \ removed(n, refused)]
        /\ heard' = [k \in Key |-> IF k \in alive'[r] THEN heard[k] \o spoken(n, k) ELSE heard[k]]
        /\ presence' = [presence EXCEPT ![r] =
                          @ \o report(SetToSeq(removed(n, refused)), "removed")
                            \o report(adds(n, refused), "added")]
        /\ UNCHANGED events
  BY Zenon, <1>1
<1>3. batch(n) \in Seq(MessageOf(S))
  <2>1. n \in Nat /\ n <= Len(inbox[r])
    OBVIOUS
  <2>2. QED
    BY <1>0, <2>1, SubSeqProperties
<1>4. /\ added(n, refused) \in Seq(MessageOf(S))
      /\ of(n, "despawn") \in Seq(MessageOf(S))
      /\ \A k : says(n, k) \in Seq(MessageOf(S))
  <2> HIDE DEF batch
  <2>1. QED
    BY <1>3, PickedType
<1> HIDE DEF batch, of, says, added
<1>5. keys(added(n, refused)) \subseteq S
  <2>1. \A i \in DOMAIN added(n, refused) : added(n, refused)[i] \in MessageOf(S)
    BY <1>4
  <2>2. QED
    BY <2>1 DEF ToSet, MessageOf
<1>6. there(n, refused) \in SUBSET S
  BY <1>0, <1>5
<1> HIDE DEF keys, there
<1>7. alive' \in [Region -> SUBSET S]
  BY <1>0, <1>2, <1>6
<1>8. SetToSeq(removed(n, refused)) \in Seq(S)
  <2>1. IsFiniteSet(Key)
    BY FS_Interval, EdgeServerAssumption DEF Key
  <2>2. removed(n, refused) \in SUBSET S
    BY <1>6
  <2>3. IsFiniteSet(removed(n, refused))
    BY <2>1, <2>2, FS_Subset
  <2>4. SetToSeq(removed(n, refused)) \in Seq(removed(n, refused))
    BY <2>3, SetToSeqType
  <2>5. QED
    BY <2>2, <2>4
<1>9. adds(n, refused) \in Seq(S)
  <2>1. /\ Len(added(n, refused)) \in Nat
        /\ DOMAIN added(n, refused) = 1 .. Len(added(n, refused))
        /\ \A i \in DOMAIN added(n, refused) : added(n, refused)[i] \in MessageOf(S)
    BY <1>4
  <2>2. \A i \in DOMAIN added(n, refused) : added(n, refused)[i].key \in S
    BY <2>1 DEF MessageOf
  <2>3. QED
    BY <2>1, <2>2
<1>10. ASSUME NEW ks \in Seq(S), NEW what \in {"removed", "added"}
      PROVE  report(ks, what) \in Seq(ReportOf(S, W))
  <2>1. Len(ks) \in Nat /\ DOMAIN ks = 1 .. Len(ks) /\ \A i \in DOMAIN ks : ks[i] \in S
    OBVIOUS
  <2>2. \A i \in DOMAIN ks : [what |-> what, key |-> ks[i], to |-> {}] \in ReportOf(S, W)
    BY <2>1 DEF ReportOf
  <2>3. QED
    BY <2>1, <2>2
<1> HIDE DEF report, adds, removed
<1>11. presence' \in [Region -> Seq(ReportOf(S, W))]
  <2>1. presence[r] \in Seq(ReportOf(S, W))
    BY <1>0
  <2>2. presence[r] \o report(SetToSeq(removed(n, refused)), "removed") \in Seq(ReportOf(S, W))
    BY <1>8, <1>10, <2>1
  <2>3. presence[r] \o report(SetToSeq(removed(n, refused)), "removed")
            \o report(adds(n, refused), "added") \in Seq(ReportOf(S, W))
    BY <1>9, <1>10, <2>2
  <2>4. QED
    BY <1>0, <1>2, <2>3
<1>12. \A k \in Key : spoken(n, k) \in Seq(0 .. MaxWords)
  <2> TAKE k \in Key
  <2>1. /\ Len(says(n, k)) \in Nat /\ DOMAIN says(n, k) = 1 .. Len(says(n, k))
        /\ \A i \in DOMAIN says(n, k) : says(n, k)[i] \in MessageOf(S)
    BY <1>4
  <2>2. \A i \in DOMAIN says(n, k) : says(n, k)[i].word \in 0 .. MaxWords
    BY <2>1 DEF MessageOf
  <2>3. QED
    BY <2>1, <2>2
<1> HIDE DEF spoken
<1>13. heard' \in [Key -> Seq(0 .. MaxWords)]
  <2>1. \A k \in Key : heard[k] \o spoken(n, k) \in Seq(0 .. MaxWords)
    BY <1>0, <1>12
  <2>2. \A k \in Key :
          (IF k \in alive'[r] THEN heard[k] \o spoken(n, k) ELSE heard[k]) \in Seq(0 .. MaxWords)
    BY <1>0, <2>1
  <2>3. QED
    BY <1>2, <2>2
<1>14. inbox' \in [Region -> Seq(MessageOf(S))]
  <2>1. n \in Nat /\ n + 1 \in 1 .. Len(inbox[r]) + 1 /\ Len(inbox[r]) \in Nat
    BY <1>0
  <2>2. SubSeq(inbox[r], n + 1, Len(inbox[r])) \in Seq(MessageOf(S))
    BY <1>0, <2>1, SubSeqProperties
  <2>3. QED
    BY <1>0, <1>2, <2>2
<1>15. QED
  BY <1>0, <1>2, <1>7, <1>11, <1>13, <1>14 DEF RegionsOf

LEMMA RegionsStep ==
    ASSUME TypeOK, JobsReady, Next,
           NEW S \in SUBSET Key, NEW W, {"added", "removed"} \subseteq W,
           "view" \in Events => {"view", "cleared"} \subseteq W,
           "cross" \in Events => "cross" \in W,
           RegionsOf(S, W), outbound \in Seq(MessageOf(S))
    PROVE  RegionsOf(S, W)'
<1>0. {"added", "removed"} \subseteq W
  OBVIOUS
<1>1. CASE UNCHANGED regions
  BY <1>0, <1>1 DEF RegionsOf, regions
<1>2. ASSUME NEW t \in Thread, Common(t) PROVE RegionsOf(S, W)'
  BY <1>1, <1>2 DEF Common, Ask, Release, ReleaseUnanswered, Forget, Unbind, ReleaseNext, CheckLeft,
     Disconnected, Begin, Denied, AskCopy, Link, Carry, Note, OnlyJob, OnlyHeld, OnlyClients,
     OnlyEnt, OnlyCarried, OnlyTransits, world
<1>3. ASSUME NEW r \in Region, NEW what, Reads(r, what) PROVE RegionsOf(S, W)'
  <2>1. presence[r] \in Seq(ReportOf(S, W)) /\ presence[r] # <<>>
    BY <1>3 DEF Reads, RegionsOf
  <2>2. Tail(presence[r]) \in Seq(ReportOf(S, W))
    BY <2>1
  <2>3. QED
    BY <1>3, <2>2 DEF Reads, RegionsOf
<1>4. CASE Reader
  <2>1. Reader => \/ UNCHANGED regions
                  \/ \E r \in Region : \E what : Reads(r, what)
    <3>1. ASSUME NEW r \in Region,
                 \/ AddedUnknown(r) \/ Added(r) \/ RemovedUnknown(r) \/ Removed(r)
                 \/ Boundary(r) \/ ViewCollision(r) \/ ViewCleared(r)
          PROVE  \E what : Reads(r, what)
      BY Zenon, <3>1 DEF AddedUnknown, Added, RemovedUnknown, Removed, Boundary, ViewCollision, ViewCleared
    <3>2. CASE Greet \/ CopyOrphaned \/ Remap \/ Panic \/ Landed \/ Rehandle \/ Resend \/ Stand
               \/ Arrive \/ Unlist \/ Notify \/ KeepShadow \/ AskShadow \/ ViewSeen \/ List
      BY <3>2 DEF Greet, CopyOrphaned, Remap, Panic, Landed, Rehandle, Resend, Stand, Arrive,
         Unlist, Notify, KeepShadow, AskShadow, ViewSeen, List, OnlyAsked,
         OnlyHeld, OnlyTransits, OnlyClients, OnlyEnt, OnlyJob, world
    <3>3. QED
      BY <3>1, <3>2 DEF Reader
  <2>2. QED
    BY <1>1, <1>3, <1>4, <2>1
<1>5. CASE Expire \/ Publisher
  <2>1. CASE Publish
    BY <1>0, <2>1, PublishRegions
  <2>2. CASE UNCHANGED regions
    BY <1>1, <2>2
  <2>3. Expire \/ Publisher => Publish \/ UNCHANGED regions
    BY DEF Expire, Publisher, LeaveBe, GiveUp, Uncarry, Unhold, Expired, OnlyJob, OnlyEnt,
           OnlyCarried, OnlyTransits, world
  <2>4. QED
    BY <1>5, <2>1, <2>2, <2>3
<1>6. CASE Game
  <2>1. UNCHANGED <<inbox, alive, presence, heard>> /\ events < MaxEvents /\ events' = events + 1
    BY <1>6 DEF Game, GameSpawn, GameDespawn
  <2>2. events' \in 0 .. MaxEvents
    BY <1>0, <2>1, EdgeServerAssumption DEF RegionsOf
  <2>3. QED
    BY <1>0, <2>1, <2>2 DEF RegionsOf
<1>7. CASE Worlds
  <2>1. ASSUME NEW r \in Region, NEW k \in Key,
               \/ SeeNothing(r, k) \/ RegionDespawns(r, k)
               \/ \E d \in Region : MeetBoundary(r, k, d)
               \/ \E to \in SUBSET Region : SeeBeyond(r, k, to)
        PROVE  RegionsOf(S, W)'
    <3>1. UNCHANGED alive => alive' \in [Region -> SUBSET S]
      BY DEF RegionsOf
    <3>2. ASSUME NEW what \in W, NEW to \in SUBSET Region, Happens(r, what, k, to),
                 alive' \in [Region -> SUBSET S]
          PROVE  RegionsOf(S, W)'
      BY <3>2, HappensRegions
    <3>3. CASE RegionDespawns(r, k)
      <4>1. Happens(r, "removed", k, {}) /\ alive' = [alive EXCEPT ![r] = @ \ {k}]
        BY <3>3 DEF RegionDespawns
      <4>2. alive' \in [Region -> SUBSET S]
        BY <4>1 DEF RegionsOf
      <4>3. {} \in SUBSET Region /\ "removed" \in W
        BY <1>0
      <4>4. QED
        BY <3>2, <4>1, <4>2, <4>3
    <3>4. ASSUME NEW d \in Region, MeetBoundary(r, k, d) PROVE RegionsOf(S, W)'
      <4>1. Happens(r, "cross", k, {d}) /\ {d} \in SUBSET Region /\ UNCHANGED alive
        BY <3>4 DEF MeetBoundary
      <4>2. "cross" \in W
        BY <3>4 DEF MeetBoundary
      <4>3. QED
        BY <3>1, <3>2, <4>1, <4>2
    <3>5. CASE SeeNothing(r, k) \/ \E to \in SUBSET Region : SeeBeyond(r, k, to)
      <4>1. {} \in SUBSET Region /\ "view" \in W /\ "cleared" \in W
        BY <3>5 DEF SeeNothing, SeeBeyond
      <4>2. QED
        BY <3>1, <3>2, <3>5, <4>1 DEF SeeNothing, SeeBeyond
    <3>6. QED
      BY <2>1, <3>3, <3>4, <3>5
  <2>2. QED
    BY <1>0, <1>7, <2>1, TakesRegions DEF Worlds
<1>8. ASSUME NEW c \in Client, Commanded(c) \/ Say(c) PROVE RegionsOf(S, W)'
  BY <1>1, <1>8 DEF Commanded, ClientLeave, ClientDespawn, ClientSay, ClientTeleport, ClientSpawn,
     Say, OnlyJob, OnlyClients, world
<1>9. QED
  BY <1>2, <1>4, <1>5, <1>6, <1>7, <1>8 DEF Next

-----------------------------------------------------------------------------
(* The teleports in flight, and what clients and game have seen and said.  *)
TransitsTyped ==
    transits \subseteq Key \X Key /\ carried \subseteq Key /\ minted \in 0 .. MaxKeys

LEMMA TransitsStep ==
    ASSUME IInv, Next
    PROVE  TransitsTyped'
<1>0. TypeOK /\ JobsReady /\ TransitsTyped
  BY DEF IInv, TypeOK, TransitsTyped
<1>1. UNCHANGED minted \/ Mint => minted' \in 0 .. MaxKeys
  BY <1>0, MintedIsNat DEF Mint
<1>2. CASE UNCHANGED <<transits, carried>> /\ (UNCHANGED minted \/ Mint)
  BY <1>0, <1>1, <1>2 DEF TransitsTyped
<1>3. ASSUME NEW t \in Thread, Common(t) PROVE TransitsTyped'
  <2>1. CASE Carry(t)
    <3>1. job[t].other \in Key
      BY <1>0, <2>1 DEF Carry, At, JobReady, JobsReady
    <3>2. QED
      BY <1>0, <2>1, <3>1 DEF Carry, OnlyCarried, TransitsTyped
  <2>2. CASE Note(t)
    <3>1. job[t].key \in Key /\ job[t].other \in Key
      BY <1>0, <2>2 DEF Note, At, JobReady, JobsReady
    <3>2. QED
      BY <1>0, <2>2, <3>1 DEF Note, OnlyTransits, TransitsTyped
  <2>3. CASE \/ Ask(t) \/ ReleaseUnanswered(t) \/ Release(t) \/ Forget(t) \/ Unbind(t)
             \/ ReleaseNext(t) \/ CheckLeft(t) \/ Disconnected(t) \/ Begin(t) \/ Denied(t)
             \/ (\E carry \in BOOLEAN : AskCopy(t, carry)) \/ Link(t)
    BY Zenon, <1>2, <2>3 DEF Ask, ReleaseUnanswered, Release, Forget, Unbind, ReleaseNext, CheckLeft,
       Disconnected, Begin, Denied, AskCopy, Link, Record, OnlyJob, OnlyHeld, OnlyClients, OnlyEnt,
       edge
  <2>4. QED
    BY <1>3, <2>1, <2>2, <2>3 DEF Common
<1>4. CASE Reader
  <2>1. \/ UNCHANGED <<transits, carried>> /\ (UNCHANGED minted \/ Mint)
        \/ transits' \subseteq transits /\ UNCHANGED <<carried, minted>>
        \/ carried' \subseteq carried /\ UNCHANGED <<transits, minted>>
    BY Zenon, <1>4 DEF Reader, AddedUnknown, Added, RemovedUnknown, Removed, Boundary, ViewCollision,
       ViewCleared, Greet, CopyOrphaned, Remap, Panic, Landed, Rehandle, Resend, Stand, Arrive,
       Unlist, Notify, KeepShadow, AskShadow, ViewSeen, List, Record, edge,
       OnlyHeld, OnlyTransits, OnlyClients, OnlyEnt, OnlyJob, OnlyAsked
  <2>2. QED
    BY <1>0, <1>1, <2>1 DEF TransitsTyped
<1>5. CASE Expire \/ Publisher \/ Game
  <2>1. \/ UNCHANGED <<transits, carried>> /\ (UNCHANGED minted \/ Mint)
        \/ transits' \subseteq transits /\ UNCHANGED <<carried, minted>>
        \/ carried' \subseteq carried /\ UNCHANGED <<transits, minted>>
    BY <1>5 DEF Expire, Publisher, Publish, LeaveBe, GiveUp, Uncarry, Unhold, Expired, Game,
       GameSpawn, GameDespawn, Record, edge, OnlyTransits, OnlyEnt, OnlyJob, OnlyCarried
  <2>2. QED
    BY <1>0, <1>1, <2>1 DEF TransitsTyped
<1>6. CASE Worlds
  BY <1>2, <1>6, WorldsFrame DEF edge
<1>7. ASSUME NEW c \in Client, Commanded(c) \/ Say(c) PROVE TransitsTyped'
  <2>1. UNCHANGED <<transits, carried>>
    BY <1>7 DEF Commanded, ClientLeave, ClientDespawn, ClientSay, ClientTeleport, ClientSpawn,
       Say, OnlyJob, OnlyClients, edge
  <2>2. QED
    BY <1>2, <1>7, <2>1, CommandMints
<1>8. QED
  BY <1>3, <1>4, <1>5, <1>6, <1>7 DEF Next

AsideTyped ==
    /\ words \in 0 .. MaxWords /\ kept \subseteq Word
    /\ panicked \in BOOLEAN /\ late \in BOOLEAN
    /\ shown \in [Name -> {"no", "asked", "spawned"}] /\ given \subseteq Name
    /\ said \in [Name -> 0 .. MaxWords] /\ ended \in [Client -> Nat]

LEMMA AsideStep ==
    ASSUME IInv, Next
    PROVE  AsideTyped'
<1>0. TypeOK /\ JobsReady /\ AsideTyped
  BY DEF IInv, TypeOK, AsideTyped
<1>1. CASE UNCHANGED aside
  BY <1>0, <1>1 DEF AsideTyped, aside, talk, calls
<1>2. \A c : Call(c) => late' \in BOOLEAN
  BY DEF Call
<1>3. ASSUME NEW t \in Thread, Common(t) PROVE AsideTyped'
  <2>1. CASE Disconnected(t)
    <3>1. UNCHANGED <<shown, given, said, words, kept, panicked>> /\ late' \in BOOLEAN
      BY <1>2, <2>1 DEF Disconnected, talk
    <3>2. ended' \in [Client -> Nat]
      <4> DEFINE c == job[t].client
      <4>1. ended' = [ended EXCEPT ![c] = ended[c] + 1] /\ ended \in [Client -> Nat]
        BY <1>0, <2>1 DEF Disconnected, AsideTyped
      <4> HIDE DEF c
      <4>2. c \in Client => ended[c] + 1 \in Nat
        BY <4>1
      <4>3. QED
        BY <4>1, <4>2
    <3>3. QED
      BY <1>0, <3>1, <3>2 DEF AsideTyped
  <2>2. CASE Denied(t) \/ \E carry \in BOOLEAN : AskCopy(t, carry)
    <3>1. UNCHANGED <<shown, given, said, words, kept, panicked, ended>> /\ late' \in BOOLEAN
      BY <1>2, <2>2 DEF Denied, AskCopy, talk
    <3>2. QED
      BY <1>0, <3>1 DEF AsideTyped
  <2>3. CASE \/ Ask(t) \/ ReleaseUnanswered(t) \/ Release(t) \/ Forget(t) \/ Unbind(t)
             \/ ReleaseNext(t) \/ CheckLeft(t) \/ Begin(t) \/ Link(t) \/ Carry(t) \/ Note(t)
    BY <1>1, <2>3 DEF Ask, ReleaseUnanswered, Release, Forget, Unbind, ReleaseNext, CheckLeft,
       Begin, Link, Carry, Note, OnlyJob, OnlyHeld, OnlyClients, OnlyEnt, OnlyCarried,
       OnlyTransits, world
  <2>4. QED
    BY <1>3, <2>1, <2>2, <2>3 DEF Common
<1>4. CASE Reader
  <2>1. ASSUME NEW c \in Client \cup {None}, NEW h \in Handle \cup {None},
               NEW what \in {"no", "asked", "spawned"}, Tell(c, h, what)
        PROVE  shown' \in [Name -> {"no", "asked", "spawned"}]
    BY <1>0, <2>1 DEF Tell, AsideTyped, Name
  <2>2. CASE Greet \/ Arrive \/ Notify
    <3>1. job["reader"] \in JobType
      BY <1>0, ThreadFacts DEF TypeOK
    <3>2. /\ job["reader"].client \in Client \cup {None}
          /\ job["reader"].handle \in Handle \cup {None}
      BY <3>1 DEF JobType
    <3>3. shown' \in [Name -> {"no", "asked", "spawned"}]
      BY <2>1, <2>2, <3>2 DEF Greet, Arrive, Notify
    <3>4. UNCHANGED <<given, said, words, kept, panicked, ended>>
      BY <2>2 DEF Greet, Arrive, Notify, talk
    <3>5. late' \in BOOLEAN
      BY <1>0, <1>2, <2>2 DEF Greet, Arrive, Notify, AsideTyped
    <3>6. QED
      BY <1>0, <3>3, <3>4, <3>5 DEF AsideTyped
  <2>3. CASE Panic
    <3>1. panicked' = TRUE /\ UNCHANGED <<shown, given, said, words, kept, ended, late>>
      BY <2>3 DEF Panic, talk, calls
    <3>2. QED
      BY <1>0, <3>1 DEF AsideTyped
  <2>4. Reader => Greet \/ Arrive \/ Notify \/ Panic \/ UNCHANGED aside
    BY Zenon DEF Reader, AddedUnknown, Added, RemovedUnknown, Removed, Boundary, ViewCollision,
       ViewCleared, CopyOrphaned, Remap, Landed, Rehandle, Resend, Stand,
       Unlist, KeepShadow, AskShadow, ViewSeen, List, world,
       OnlyHeld, OnlyTransits, OnlyClients, OnlyEnt, OnlyJob, OnlyAsked
  <2>5. QED
    BY <1>1, <1>4, <2>2, <2>3, <2>4
<1>5. CASE Expire \/ Publisher \/ Game
  BY <1>1, <1>5 DEF Expire, Publisher, Publish, LeaveBe, GiveUp, Uncarry, Unhold, Expired, Game,
     GameSpawn, GameDespawn, OnlyTransits, OnlyEnt, OnlyJob, OnlyCarried, world
<1>6. CASE Worlds
  BY <1>1, <1>6, WorldsFrame
<1>7. ASSUME NEW c \in Client, Commanded(c) PROVE AsideTyped'
  <2>1. ASSUME NEW h \in Handle, NEW r \in Region, ClientSpawn(c, h, r) PROVE AsideTyped'
    <3>1. <<c, h>> \in Name /\ 0 \in 0 .. MaxWords
      BY EdgeServerAssumption DEF Name
    <3>2. /\ shown' = [shown EXCEPT ![<<c, h>>] = "asked"]
          /\ given' = given \ {<<c, h>>}
          /\ said' = [said EXCEPT ![<<c, h>>] = 0]
          /\ UNCHANGED <<words, kept, panicked, ended, late>>
      BY <2>1 DEF ClientSpawn, calls
    <3>3. QED
      BY <1>0, <3>1, <3>2 DEF AsideTyped
  <2>2. ASSUME NEW h \in Handle, ClientDespawn(c, h) PROVE AsideTyped'
    <3>1. given' = given \cup {<<c, h>>} /\ <<c, h>> \in Name
          /\ UNCHANGED <<shown, said, words, kept, panicked, ended, late>>
      BY <2>2 DEF ClientDespawn, calls, talk, Name
    <3>2. QED
      BY <1>0, <3>1 DEF AsideTyped
  <2>3. ASSUME NEW h \in Handle, ClientSay(c, h) PROVE AsideTyped'
    <3>1. words' \in 0 .. MaxWords
      BY <1>0, <2>3, EdgeServerAssumption DEF ClientSay, AsideTyped
    <3>2. said' = [said EXCEPT ![<<c, h>>] = words'] /\ <<c, h>> \in Name
          /\ UNCHANGED <<shown, given, kept, panicked, ended, late>>
      BY <2>3 DEF ClientSay, calls, Name
    <3>3. QED
      BY <1>0, <3>1, <3>2 DEF AsideTyped
  <2>4. CASE ClientLeave(c) \/ \E h \in Handle, r \in Region : ClientTeleport(c, h, r)
    BY <1>1, <2>4 DEF ClientLeave, ClientTeleport, OnlyJob, OnlyClients, world
  <2>5. QED
    BY <1>7, <2>1, <2>2, <2>3, <2>4 DEF Commanded
<1>8. ASSUME NEW c \in Client, Say(c) PROVE AsideTyped'
  <2>1. job[c].word \in Word
    BY Zenon, <1>0, <1>8, ThreadFacts DEF Say, At, JobReady, JobsReady
  <2>2. kept' \subseteq Word /\ UNCHANGED <<panicked, shown, given, said, words, ended, late>>
    BY <1>0, <1>8, <2>1 DEF Say, AsideTyped, calls
  <2>3. QED
    BY <1>0, <2>2 DEF AsideTyped
<1>9. QED
  BY <1>3, <1>4, <1>5, <1>6, <1>7, <1>8 DEF Next

-----------------------------------------------------------------------------
(* The state is well formed, the threads have in hand what their next step *)
(* needs, and by_id agrees with by_key, to begin with and after any step.  *)
LEMMA JobsStep ==
    ASSUME IInv, Next
    PROVE  job' \in [Thread -> JobType] /\ JobsReady'
<1>1. TypeOK /\ JobsReady
  BY DEF IInv
<1>2. QED
  BY <1>1, CommonJobs, ReaderJobs, OtherJobs DEF Next

LEMMA InitIInv == Init => IInv
<1> SUFFICES ASSUME Init PROVE IInv
  OBVIOUS
<1>1. /\ MaxKeys \in Nat /\ MaxWords \in Nat /\ MaxEvents \in Nat
      /\ None \notin Key
  BY EdgeServerAssumption
<1>2. \A k \in Key : ~Held(k)
  BY DEF Init, Held
<1>3. clients \in [Client -> ClientType \cup {None}]
  BY DEF Init, ClientType
<1>4. <<>> \in Seq(MessageType) /\ <<>> \in Seq(ReportType) /\ <<>> \in Seq(0 .. MaxWords)
  OBVIOUS
<1>5. RegionsTyped
  BY <1>1, <1>4, KeysTyped DEF Init, RegionsTyped, RegionsOf
<1>6. TransitsTyped
  BY <1>1 DEF Init, TransitsTyped
<1>7. AsideTyped
  <2>1. 0 \in 0 .. MaxWords /\ 0 \in Nat
    BY <1>1
  <2>2. /\ said \in [Name -> 0 .. MaxWords] /\ ended \in [Client -> Nat]
        /\ shown \in [Name -> {"no", "asked", "spawned"}]
    BY <2>1 DEF Init
  <2>3. words = 0 /\ kept = {} /\ given = {} /\ panicked = FALSE /\ late = FALSE
    BY DEF Init
  <2>4. QED
    BY <2>1, <2>2, <2>3 DEF AsideTyped
<1>8. job \in [Thread -> JobType] /\ JobsReady
  BY IdleReady DEF Init, JobsReady
<1>9. ent \in [Key -> EntityType \cup {None}] /\ byId \subseteq Key /\ outbound \in Seq(MessageType)
  BY <1>4 DEF Init
<1>10. TypeOK
  BY <1>2, <1>3, <1>5, <1>6, <1>7, <1>8, <1>9, KeysTyped
  DEF TypeOK, RegionsTyped, RegionsOf, TransitsTyped, AsideTyped
<1>11. NoneReplacesItself /\ IndexAgrees
  BY <1>2 DEF NoneReplacesItself, IndexAgrees, Init
<1>12. QED
  BY <1>8, <1>10, <1>11 DEF IInv

LEMMA NextIInv == IInv /\ [Next]_vars => IInv'
<1> SUFFICES ASSUME IInv, [Next]_vars PROVE IInv'
  OBVIOUS
<1>1. CASE Next
  <2>1. job' \in [Thread -> JobType] /\ JobsReady'
    BY <1>1, JobsStep
  <2>2. RecordsInOrder'
    BY <1>1, RecordsStep
  <2>3. clients' \in [Client -> ClientType \cup {None}]
    BY <1>1, ClientsStep
  <2>4. outbound' \in Seq(MessageType)
    BY <1>1, OutboundStep
  <2>5. TransitsTyped' /\ AsideTyped'
    BY <1>1, TransitsStep, AsideStep
  <2>6. RegionsTyped'
    <3>1. TypeOK /\ JobsReady /\ RegionsOf(Key, Reports) /\ outbound \in Seq(MessageOf(Key))
      BY KeysTyped DEF IInv, TypeOK, RegionsTyped
    <3>2. "cross" \in Reports
      BY DEF Reports
    <3>3. QED
      BY <1>1, <3>1, <3>2, RegionsStep DEF RegionsTyped, Reports
  <2>7. TypeOK'
    BY <2>1, <2>2, <2>3, <2>4, <2>5, <2>6, KeysTyped
    DEF TypeOK, RecordsInOrder, RegionsTyped, RegionsOf, TransitsTyped, AsideTyped
  <2>8. QED
    BY <2>1, <2>2, <2>7 DEF IInv, RecordsInOrder
<1>2. CASE UNCHANGED vars
  BY <1>2 DEF IInv, TypeOK, JobsReady, NoneReplacesItself, IndexAgrees, Held, vars, edge, held,
     world, regions, aside, talk, calls
<1>3. QED
  BY <1>1, <1>2

THEOREM EdgeServerInvariant == Spec => []IInv
  BY InitIInv, NextIInv, PTL DEF Spec

(* Every entity, handle, client and message the edge server, its threads   *)
(* and the regions refer to is one there can be, and every key is one that *)
(* was minted, however its threads interleave and whatever regions and     *)
(* clients do (EntitiesState, Shared of net/edge/handle.rs).               *)
THEOREM EdgeServerTypeCorrect == Spec => []TypeOK
<1>1. IInv => TypeOK
  BY DEF IInv
<1>2. QED
  BY <1>1, EdgeServerInvariant, PTL

(* Entities::by_id leads to an entity exactly while its region has         *)
(* answered for it and by_key holds it: on_presence, forget, release and   *)
(* complete_teleport keep the two together whatever the others do between  *)
(* their steps.                                                            *)
THEOREM IndexAlwaysAgrees == Spec => []IndexAgrees
<1>1. IInv => IndexAgrees
  BY DEF IInv
<1>2. QED
  BY <1>1, EdgeServerInvariant, PTL

(* What a thread finds under one lock is a record, a client or a region    *)
(* there can be, and is found by id exactly if it is found by key and was  *)
(* answered for (EntitiesState, and Shared's rule of one lock at a time).  *)
THEOREM RecordsAlwaysAgree == Spec => []RecordsAgree
  BY EdgeServerTypeCorrect, IndexAlwaysAgrees, PTL DEF RecordsAgree

-----------------------------------------------------------------------------
(* The clients and the entities, while nothing moves: no teleport is asked *)
(* for and nothing crosses, and the game gives back what it was told of.   *)
StayPut ==
    /\ "teleport" \notin Commands /\ "cross" \notin Events
    /\ "release" \in Events => "hasty" \notin Commands

(* The steps of a teleport.                                                *)
Abroad == {"begin", "decide", "link", "carry", "note", "remap", "landed",
           "rehandle", "resend", "stand", "arrive", "expire", "uncarry", "unhold"}

(* What was minted and bound: the keys anything but its ask may refer to.  *)
Asked(t, k) == job[t].pc = "ask" /\ job[t].other = k
Known == {k \in Key : k < minted /\ \A t \in Thread : ~Asked(t, k)}

(* A job that is no part of a teleport, and refers to nothing else.        *)
JobHome(j, S) ==
    /\ j.pc \notin Abroad
    /\ j.next \notin {"link", "landed", "unhold"} /\ j.after # "landed"
    /\ j.due = {} /\ j.todo \subseteq S
    /\ \A x \in j.had : x[1] \in S
    /\ j.keep \subseteq S \cup (IF j.pc = "ask" THEN {j.other} ELSE {})
    /\ j.pc \in {"release", "forget", "unbind"} => j.victim \in S
    /\ j.pc = "view" \/ j.next = "view" => j.handle = None

JobsHome == \A t \in Thread : JobHome(job[t], Known)

RecordsHome ==
    /\ transits = {} /\ byId \subseteq Known
    /\ \A k \in Key : Held(k) => ent[k].replaces = None /\ ent[k].shadows \subseteq Known

MessagesHome ==
    /\ outbound \in Seq(MessageOf(Known))
    /\ RegionsOf(Known, Reports \ {"cross"})

(* Entity k is c's, under handle h, or was and its handle is to go yet.    *)
Owned(k, c, h) == Held(k) /\ ent[k].client = c /\ ent[k].handle = h
Unbinding(t, k, c, h) == job[t].pc = "unbind" /\ job[t].victim = k /\ job[t].of = <<c, h>>
Owed(k, c, h) == Owned(k, c, h) \/ \E t \in Thread : Unbinding(t, k, c, h)

(* What is asked for is held already, and by one thread: the stream of its *)
(* client, if it has a handle, which nothing else goes by meanwhile.       *)
AsksAlone ==
    \A t \in Thread : job[t].pc = "ask" =>
        /\ job[t].other < minted /\ Owned(job[t].other, job[t].client, job[t].handle)
        /\ \A u \in Thread : job[u].pc = "ask" /\ job[u].other = job[t].other => u = t
        /\ job[t].handle # None =>
            /\ t \in Client /\ job[t].client = t
            /\ clients[t] # None => clients[t].handles[job[t].handle] = None

UnbindsAlone ==
    \A t \in Thread : job[t].pc = "unbind" =>
        /\ ~Held(job[t].victim)
        /\ \A u \in Thread : job[u].pc = "unbind" /\ job[u].victim = job[t].victim => u = t

(* A client has what it is owed, and its handles lead there.               *)
Bound ==
    \A c \in Client : clients[c] # None =>
        /\ \A k \in Key :
            k \in clients[c].keys <=> k \in Known /\ \E h \in Handle \cup {None} : Owed(k, c, h)
        /\ \A h \in Handle, k \in Key :
            clients[c].handles[h] = k <=> k \in Known /\ Owed(k, c, h)

OwnersAgree == AsksAlone /\ UnbindsAlone /\ Bound

HomeInv == JobsHome /\ RecordsHome /\ MessagesHome /\ OwnersAgree

-----------------------------------------------------------------------------
(* Who owns what: a step leaves it be, or asks for an entity, or binds it  *)
(* to its client, or drops it, or unbinds it.                              *)
Free(j) == j.pc \notin {"ask", "unbind"}

OthersStay(t) == \A u \in Thread \ {t} : job'[u] = job[u]

OwnersStay ==
    \A k \in Key :
        /\ Held(k)' <=> Held(k)
        /\ Held(k) => ent'[k].client = ent[k].client /\ ent'[k].handle = ent[k].handle

(* A client may start to leave, or go.                                     *)
ClientsStay ==
    \A c \in Client : clients'[c] # None =>
        /\ clients[c] # None
        /\ clients'[c].keys = clients[c].keys /\ clients'[c].handles = clients[c].handles

Stays ==
    /\ \A t \in Thread : job'[t] = job[t] \/ (Free(job[t]) /\ Free(job'[t]))
    /\ OwnersStay /\ ClientsStay /\ UNCHANGED minted

Starts(t, k, c, h) ==
    /\ OthersStay(t) /\ Free(job[t])
    /\ job'[t].pc = "ask" /\ job'[t].other = k /\ job'[t].client = c /\ job'[t].handle = h
    /\ k = minted /\ k \in Key /\ minted' = k + 1
    /\ ent'[k] # None /\ ent'[k].client = c /\ ent'[k].handle = h
    /\ \A x \in Key \ {k} : ent'[x] = ent[x]
    /\ UNCHANGED clients
    /\ h # None => t \in Client /\ c = t /\ clients[t] # None /\ clients[t].handles[h] = None

Binds(t) == Ask(t) /\ OthersStay(t) /\ Free(job'[t])

Parts(t, k) ==
    /\ OthersStay(t) /\ Free(job[t])
    /\ k \in Known /\ Held(k)
    /\ job'[t].pc = "unbind" /\ job'[t].victim = k
    /\ job'[t].of = <<ent[k].client, ent[k].handle>>
    /\ ent' = [ent EXCEPT ![k] = None]
    /\ UNCHANGED <<clients, minted>>

Unbinds(t) == Unbind(t) /\ OthersStay(t) /\ Free(job'[t])

LEMMA StaysKeeps ==
    ASSUME IInv, OwnersAgree, Stays
    PROVE  Known' = Known /\ OwnersAgree'
<1>0. \A t \in Thread : job'[t].pc = "ask" \/ job[t].pc = "ask" => job'[t] = job[t]
  BY DEF Stays, Free
<1>1. \A t \in Thread : job'[t].pc = "unbind" \/ job[t].pc = "unbind" => job'[t] = job[t]
  BY DEF Stays, Free
<1>2. Known' = Known
  BY <1>0 DEF Stays, Known, Asked
<1>3. \A k \in Key : \A c, h : Owned(k, c, h)' <=> Owned(k, c, h)
  BY DEF Stays, OwnersStay, Owned
<1>4. \A k, c, h : (\E t \in Thread : Unbinding(t, k, c, h)') <=> \E t \in Thread : Unbinding(t, k, c, h)
  BY <1>1 DEF Unbinding
<1>5. \A k \in Key : \A c, h : Owed(k, c, h)' <=> Owed(k, c, h)
  BY <1>3, <1>4 DEF Owed
<1>6. \A t \in Thread : job[t].pc = "ask" => job[t].other \in Key
  BY DEF IInv, JobsReady, JobReady
<1>7. \A t \in Thread : job[t].pc = "unbind" => job[t].victim \in Key
  BY DEF IInv, JobsReady, JobReady
<1>8. AsksAlone'
  <2> SUFFICES ASSUME NEW t \in Thread, job'[t].pc = "ask"
               PROVE  /\ job'[t].other < minted' /\ Owned(job[t].other, job[t].client, job[t].handle)'
                      /\ \A u \in Thread : job'[u].pc = "ask" /\ job'[u].other = job'[t].other => u = t
                      /\ job'[t].handle # None =>
                          /\ t \in Client /\ job'[t].client = t
                          /\ clients'[t] # None => clients'[t].handles[job'[t].handle] = None
    BY DEF AsksAlone
  <2>1. job'[t] = job[t] /\ job[t].pc = "ask"
    BY <1>0
  <2>2. /\ job[t].other < minted /\ Owned(job[t].other, job[t].client, job[t].handle)
        /\ \A u \in Thread : job[u].pc = "ask" /\ job[u].other = job[t].other => u = t
        /\ job[t].handle # None =>
            /\ t \in Client /\ job[t].client = t
            /\ clients[t] # None => clients[t].handles[job[t].handle] = None
    BY <2>1 DEF AsksAlone, OwnersAgree
  <2>3. Owned(job[t].other, job[t].client, job[t].handle)'
    BY <1>3, <1>6, <2>1, <2>2
  <2>4. \A u \in Thread : job'[u].pc = "ask" /\ job'[u].other = job'[t].other => u = t
    BY <1>0, <2>1, <2>2
  <2>5. QED
    BY <2>1, <2>2, <2>3, <2>4 DEF Stays, ClientsStay
<1>9. UnbindsAlone'
  BY <1>1, <1>7 DEF Stays, OwnersStay, UnbindsAlone, OwnersAgree
<1>10. Bound'
  BY <1>2, <1>5 DEF Stays, ClientsStay, Bound, OwnersAgree
<1>11. QED
  BY <1>2, <1>8, <1>9, <1>10 DEF OwnersAgree

(* Of what a thread asks for and unbinds.                                  *)
LEMMA HandFacts ==
    ASSUME IInv, JobsHome, OwnersAgree, NEW t \in Thread
    PROVE  /\ job[t].pc = "ask" => job[t].other \in Key
           /\ job[t].pc = "unbind" => job[t].victim \in Known /\ job[t].victim \in Key
           /\ Known \subseteq Key /\ minted \in Nat
<1>1. JobReady(job[t], minted) /\ JobHome(job[t], Known)
  BY DEF IInv, JobsReady, JobsHome
<1>2. minted \in Nat
  BY MintedIsNat DEF IInv
<1>3. QED
  BY <1>1, <1>2 DEF JobReady, JobHome, Known

LEMMA StartsKeeps ==
    ASSUME IInv, JobsHome, OwnersAgree, NEW t \in Thread, NEW n, NEW c, NEW h, Starts(t, n, c, h)
    PROVE  Known' = Known /\ OwnersAgree'
<1>1. \A u \in Thread \ {t} : job'[u] = job[u]
  BY DEF Starts, OthersStay
<1>2. /\ job[t].pc # "ask" /\ job[t].pc # "unbind"
      /\ job'[t].pc = "ask" /\ job'[t].other = n /\ job'[t].client = c /\ job'[t].handle = h
  BY DEF Starts, Free
<1>3. minted = n /\ n \in Nat /\ minted' = n + 1 /\ n \in Key /\ Key \subseteq Nat
  BY HandFacts, NoneFacts DEF Starts
<1>4. Known' = Known
  <2>1. \A k \in Key : (\A u \in Thread : ~Asked(u, k)') <=>
                       k # n /\ \A u \in Thread : ~Asked(u, k)
    BY <1>1, <1>2 DEF Asked
  <2>2. \A k \in Key : k \in Known' <=> k \in Known
    BY <1>3, <2>1 DEF Known
  <2>3. QED
    BY <2>2 DEF Known
<1>5. n \notin Known /\ \A k \in Known : k \in Key /\ k # n
  BY <1>3 DEF Known
<1>6. \A k \in Key \ {n} : \A d, g : Owned(k, d, g)' <=> Owned(k, d, g)
  BY DEF Owned, Held, Starts
<1>7. \A k, d, g : (\E u \in Thread : Unbinding(u, k, d, g)') <=> \E u \in Thread : Unbinding(u, k, d, g)
  BY <1>1, <1>2 DEF Unbinding
<1>8. \A k \in Known : \A d, g : Owed(k, d, g)' <=> Owed(k, d, g)
  BY <1>5, <1>6, <1>7 DEF Owed
<1>9. AsksAlone'
  <2> SUFFICES ASSUME NEW u \in Thread, job'[u].pc = "ask"
               PROVE  /\ job'[u].other < minted' /\ Owned(job[u].other, job[u].client, job[u].handle)'
                      /\ \A v \in Thread : job'[v].pc = "ask" /\ job'[v].other = job'[u].other => v = u
                      /\ job'[u].handle # None =>
                          /\ u \in Client /\ job'[u].client = u
                          /\ clients'[u] # None => clients'[u].handles[job'[u].handle] = None
    BY DEF AsksAlone
  <2>1. \A v \in Thread \ {t} : job'[v].pc = "ask" => job'[v].other < n /\ job'[v].other \in Key
    BY <1>1, <1>3, HandFacts DEF OwnersAgree, AsksAlone
  <2>2. \A v \in Thread \ {t} : job'[v].pc = "ask" => job'[v].other # n
    <3>1. \A x \in Key : x < n => x # n
      BY <1>3
    <3>2. QED
      BY <2>1, <3>1
  <2>3. CASE u = t
    <3>1. \A v \in Thread : job'[v].pc = "ask" /\ job'[v].other = n => v = t
      BY <2>2
    <3>2. h # None =>
            /\ t \in Client /\ c = t
            /\ clients'[t] # None => clients'[t].handles[h] = None
      BY DEF Starts
    <3>3. n < minted' /\ ent'[n] # None /\ ent'[n].client = c /\ ent'[n].handle = h /\ n # None
      BY <1>3, NoneFacts DEF Starts
    <3>4. Owned(job[t].other, job[t].client, job[t].handle)'
      BY <1>2, <3>3 DEF Owned, Held
    <3>5. QED
      BY <1>2, <2>3, <3>1, <3>2, <3>3, <3>4
  <2>4. CASE u # t
    <3>1. job'[u] = job[u] /\ job[u].pc = "ask"
      BY <1>1, <2>4
    <3>2. /\ job[u].other < n /\ Owned(job[u].other, job[u].client, job[u].handle)
          /\ \A v \in Thread : job[v].pc = "ask" /\ job[v].other = job[u].other => v = u
          /\ job[u].handle # None =>
              /\ u \in Client /\ job[u].client = u
              /\ clients[u] # None => clients[u].handles[job[u].handle] = None
      BY <1>3, <3>1 DEF AsksAlone, OwnersAgree
    <3>3. job[u].other \in Key \ {n} /\ job[u].other < n + 1
      <4>1. job[u].other \in Key
        BY <3>1, HandFacts
      <4>2. \A x \in Key : x < n => x # n /\ x < n + 1
        BY <1>3
      <4>3. QED
        BY <3>2, <4>1, <4>2
    <3>4. Owned(job[u].other, job[u].client, job[u].handle)'
      BY <1>6, <3>1, <3>2, <3>3
    <3>5. \A v \in Thread : job'[v].pc = "ask" /\ job'[v].other = job'[u].other => v = u
      BY <1>1, <1>2, <2>2, <2>4, <3>1, <3>2
    <3>6. QED
      BY <1>3, <3>1, <3>2, <3>3, <3>4, <3>5 DEF Starts
  <2>5. QED
    BY <2>3, <2>4
<1>10. UnbindsAlone'
  <2> SUFFICES ASSUME NEW u \in Thread, job'[u].pc = "unbind"
               PROVE  /\ ~Held(job[u].victim)'
                      /\ \A v \in Thread : job'[v].pc = "unbind" /\ job'[v].victim = job'[u].victim => v = u
    BY DEF UnbindsAlone
  <2>1. u # t /\ job'[u] = job[u]
    BY <1>1, <1>2
  <2>2. job[u].victim \in Key \ {n}
    BY <1>5, <2>1, HandFacts
  <2>3. ~Held(job[u].victim)
    BY <2>1 DEF OwnersAgree, UnbindsAlone
  <2>4. QED
    BY <1>1, <1>2, <2>1, <2>2, <2>3 DEF OwnersAgree, UnbindsAlone, Held, Starts
<1>11. Bound'
  BY <1>4, <1>8 DEF Starts, Bound, OwnersAgree
<1>12. QED
  BY <1>4, <1>9, <1>10, <1>11 DEF OwnersAgree

LEMMA BindsKeeps ==
    ASSUME IInv, JobsHome, OwnersAgree, NEW t \in Thread, Binds(t)
    PROVE  Known' = Known \cup {job[t].other} /\ OwnersAgree'
<1> DEFINE k == job[t].other
           c == job[t].client
           h == job[t].handle
<1>1. \A u \in Thread \ {t} : job'[u] = job[u]
  BY DEF Binds, OthersStay
<1>2. job[t].pc = "ask" /\ job'[t].pc # "ask" /\ job'[t].pc # "unbind" /\ UNCHANGED <<ent, minted>>
  BY DEF Binds, Free, Ask, At, held
<1>3. /\ k \in Key /\ k < minted /\ Owned(k, c, h)
      /\ \A u \in Thread : job[u].pc = "ask" /\ job[u].other = k => u = t
      /\ h # None => t \in Client /\ c = t /\ (clients[t] # None => clients[t].handles[h] = None)
  BY <1>2, HandFacts DEF OwnersAgree, AsksAlone
<1>4. clients' = IF c = None \/ clients[c] = None THEN clients
                 ELSE [clients EXCEPT ![c].keys = @ \cup {k},
                                      ![c].handles = IF h = None THEN @ ELSE [@ EXCEPT ![h] = k]]
  BY DEF Binds, Ask
<1>5. c \in Client \cup {None} /\ h \in Handle \cup {None}
  BY DEF IInv, TypeOK, JobType
<1>6. k \notin Known /\ Known' = Known \cup {k}
  BY <1>1, <1>2, <1>3 DEF Known, Asked
<1> HIDE DEF k, c, h
<1>7. \A x, d, g : Owned(x, d, g)' <=> Owned(x, d, g)
  BY <1>2 DEF Owned, Held
<1>8. \A x, d, g : (\E u \in Thread : Unbinding(u, x, d, g)') <=> \E u \in Thread : Unbinding(u, x, d, g)
  BY <1>1, <1>2 DEF Unbinding
<1>9. \A x, d, g : Owed(x, d, g)' <=> Owed(x, d, g)
  BY <1>7, <1>8 DEF Owed
<1>10. \A d, g : Owed(k, d, g) <=> d = c /\ g = h
  BY <1>3, <1>6, HandFacts DEF Owed, Owned, Unbinding
<1>11. \A d \in Client : clients[d] # None => clients[d] \in ClientType
  BY DEF IInv, TypeOK
<1>12. \A d \in Client :
          /\ clients'[d] # None <=> clients[d] # None
          /\ clients[d] # None =>
              /\ clients'[d].keys = IF d = c THEN clients[d].keys \cup {k} ELSE clients[d].keys
              /\ \A g \in Handle : clients'[d].handles[g] =
                    IF d = c /\ g = h THEN k ELSE clients[d].handles[g]
  <2> TAKE d \in Client
  <2>1. CASE clients[d] = None \/ d # c
    BY <1>4, <1>5, <2>1 DEF IInv, TypeOK
  <2>2. CASE clients[d] # None /\ d = c
    <3> DEFINE e == [clients[c] EXCEPT !.keys = @ \cup {k},
                                       !.handles = IF h = None THEN @ ELSE [@ EXCEPT ![h] = k]]
    <3>1. clients'[c] = e
      BY <1>4, <2>2, NoneFacts DEF IInv, TypeOK, ClientType
    <3>2. /\ e.keys = clients[c].keys \cup {k}
          /\ \A g \in Handle : e.handles[g] = IF g = h THEN k ELSE clients[c].handles[g]
      BY <1>5, <1>11, <2>2, NoneFacts DEF ClientType
    <3>3. e \in ClientType
      BY <1>3, <1>5, <1>11, <2>2 DEF ClientType
    <3> HIDE DEF e
    <3>4. QED
      BY <2>2, <3>1, <3>2, <3>3, NoneFacts
  <2>3. QED
    BY <2>1, <2>2
<1>13. AsksAlone'
  <2> SUFFICES ASSUME NEW u \in Thread, job'[u].pc = "ask"
               PROVE  /\ job'[u].other < minted' /\ Owned(job[u].other, job[u].client, job[u].handle)'
                      /\ \A v \in Thread : job'[v].pc = "ask" /\ job'[v].other = job'[u].other => v = u
                      /\ job'[u].handle # None =>
                          /\ u \in Client /\ job'[u].client = u
                          /\ clients'[u] # None => clients'[u].handles[job'[u].handle] = None
    BY DEF AsksAlone
  <2>1. u # t /\ job'[u] = job[u]
    BY <1>1, <1>2
  <2>2. /\ job[u].other < minted /\ Owned(job[u].other, job[u].client, job[u].handle)
        /\ \A v \in Thread : job[v].pc = "ask" /\ job[v].other = job[u].other => v = u
        /\ job[u].handle # None =>
            /\ u \in Client /\ job[u].client = u
            /\ clients[u] # None => clients[u].handles[job[u].handle] = None
    BY <2>1 DEF AsksAlone, OwnersAgree
  <2>3. job[u].handle \in Handle \cup {None}
    BY DEF IInv, TypeOK, JobType
  <2>4. job[u].handle # None /\ clients'[u] # None => clients'[u].handles[job[u].handle] = None
    BY <1>3, <1>12, <2>1, <2>2, <2>3
  <2>5. Owned(job[u].other, job[u].client, job[u].handle)'
    BY <1>7, <2>1, <2>2
  <2>6. QED
    BY <1>1, <1>2, <2>1, <2>2, <2>4, <2>5
<1>14. UnbindsAlone'
  BY <1>1, <1>2 DEF OwnersAgree, UnbindsAlone, Held
<1>15. Bound'
  <2> SUFFICES ASSUME NEW d \in Client, clients'[d] # None
               PROVE  /\ \A x \in Key :
                          x \in clients'[d].keys <=>
                            x \in Known' /\ \E g \in Handle \cup {None} : Owed(x, d, g)'
                      /\ \A g \in Handle, x \in Key :
                          clients'[d].handles[g] = x <=> x \in Known' /\ Owed(x, d, g)'
    BY DEF Bound
  <2>1. /\ \A x \in Key :
            x \in clients[d].keys <=> x \in Known /\ \E g \in Handle \cup {None} : Owed(x, d, g)
        /\ \A g \in Handle, x \in Key :
            clients[d].handles[g] = x <=> x \in Known /\ Owed(x, d, g)
        /\ clients[d] # None
    BY <1>12 DEF Bound, OwnersAgree
  <2>2. \A x \in Key :
          x \in clients'[d].keys <=> x \in Known' /\ \E g \in Handle \cup {None} : Owed(x, d, g)
    <3> TAKE x \in Key
    <3>1. x \in clients[d].keys <=> x \in Known /\ \E g \in Handle \cup {None} : Owed(x, d, g)
      BY <2>1
    <3>2. x \in clients'[d].keys <=> x \in clients[d].keys \/ (d = c /\ x = k)
      <4>1. clients'[d].keys = IF d = c THEN clients[d].keys \cup {k} ELSE clients[d].keys
        BY <1>12, <2>1
      <4>2. CASE d = c
        BY <4>1, <4>2
      <4>3. CASE d # c
        BY <4>1, <4>3
      <4>4. QED
        BY <4>2, <4>3
    <3>3. x \in Known' <=> x \in Known \/ x = k
      BY <1>6
    <3>4. (\E g \in Handle \cup {None} : Owed(k, d, g)) <=> d = c
      BY <1>5, <1>10
    <3>5. QED
      BY <1>6, <3>1, <3>2, <3>3, <3>4
  <2>3. ASSUME NEW g \in Handle, NEW x \in Key
        PROVE  clients'[d].handles[g] = x <=> x \in Known' /\ Owed(x, d, g)
    <3>1. CASE d = c /\ g = h
      <4>1. clients[d].handles[g] = None /\ clients'[d].handles[g] = k
        BY <1>3, <1>12, <2>1, <3>1, NoneFacts
      <4>2. ~(x \in Known /\ Owed(x, d, g))
        BY <2>1, <4>1, NoneFacts
      <4>3. QED
        BY <1>6, <1>10, <3>1, <4>1, <4>2
    <3>2. CASE ~(d = c /\ g = h)
      <4>1. clients'[d].handles[g] = clients[d].handles[g]
        BY <1>12, <2>1, <3>2
      <4>2. clients[d].handles[g] = x <=> x \in Known /\ Owed(x, d, g)
        BY <2>1
      <4>3. x \in Known' /\ Owed(x, d, g) <=> x \in Known /\ Owed(x, d, g)
        BY <1>6, <1>10, <3>2
      <4>4. QED
        BY <4>1, <4>2, <4>3
    <3>3. QED
      BY <3>1, <3>2
  <2>4. QED
    BY <1>9, <2>2, <2>3
<1>16. QED
  BY <1>6, <1>13, <1>14, <1>15 DEF OwnersAgree, k

LEMMA PartsKeeps ==
    ASSUME IInv, JobsHome, OwnersAgree, NEW t \in Thread, NEW k, Parts(t, k)
    PROVE  Known' = Known /\ OwnersAgree'
<1> DEFINE c == ent[k].client
           h == ent[k].handle
<1>1. \A u \in Thread \ {t} : job'[u] = job[u]
  BY DEF Parts, OthersStay
<1>2. /\ job[t].pc # "ask" /\ job[t].pc # "unbind"
      /\ job'[t].pc = "unbind" /\ job'[t].victim = k /\ job'[t].of = <<c, h>>
      /\ UNCHANGED <<clients, minted>>
  BY DEF Parts, Free
<1>3. k \in Key /\ k \in Known /\ Held(k) /\ \A u \in Thread : ~Asked(u, k)
  BY DEF Parts, Known
<1>4. \A x \in Key : ent'[x] = IF x = k THEN None ELSE ent[x]
  BY DEF Parts, IInv, TypeOK
<1>5. Known' = Known
  <2>1. \A x \in Key : (\A u \in Thread : ~Asked(u, x)') <=> \A u \in Thread : ~Asked(u, x)
    BY <1>1, <1>2 DEF Asked
  <2>2. \A x \in Key : x \in Known' <=> x \in Known
    BY <1>2, <2>1 DEF Known
  <2>3. QED
    BY <2>2 DEF Known
<1>6. \A x \in Key : Held(x)' <=> Held(x) /\ x # k
  BY <1>4, NoneFacts DEF Held
<1>7. \A x \in Key \ {k} : \A d, g : Owned(x, d, g)' <=> Owned(x, d, g)
  BY <1>4 DEF Owned, Held
<1>8. \A d, g : Owned(k, d, g) <=> d = c /\ g = h
  BY <1>3 DEF Owned
<1>9. \A u \in Thread : job[u].pc = "unbind" => job[u].victim # k
  BY <1>3 DEF OwnersAgree, UnbindsAlone
<1> HIDE DEF c, h
<1>10. \A x \in Key \ {k} : \A d, g : Owed(x, d, g)' <=> Owed(x, d, g)
  <2>1. \A x \in Key \ {k} : \A d, g :
           (\E u \in Thread : Unbinding(u, x, d, g)') <=> \E u \in Thread : Unbinding(u, x, d, g)
    BY <1>1, <1>2 DEF Unbinding
  <2>2. QED
    BY <1>7, <2>1 DEF Owed
<1>11. \A d, g : Owed(k, d, g)' <=> Owed(k, d, g)
  <2> TAKE d, g
  <2>1. Owed(k, d, g) <=> d = c /\ g = h
    BY <1>8, <1>9 DEF Owed, Unbinding
  <2>2. ~Owned(k, d, g)'
    BY <1>3, <1>6 DEF Owned
  <2>3. (\E u \in Thread : Unbinding(u, k, d, g)') <=> d = c /\ g = h
    <3>1. Unbinding(t, k, d, g)' <=> d = c /\ g = h
      BY <1>2 DEF Unbinding
    <3>2. \A u \in Thread \ {t} : ~Unbinding(u, k, d, g)'
      BY <1>1, <1>9 DEF Unbinding
    <3>3. QED
      BY <3>1, <3>2
  <2>4. QED
    BY <2>1, <2>2, <2>3 DEF Owed
<1>12. AsksAlone'
  <2> SUFFICES ASSUME NEW u \in Thread, job'[u].pc = "ask"
               PROVE  /\ job'[u].other < minted' /\ Owned(job[u].other, job[u].client, job[u].handle)'
                      /\ \A v \in Thread : job'[v].pc = "ask" /\ job'[v].other = job'[u].other => v = u
                      /\ job'[u].handle # None =>
                          /\ u \in Client /\ job'[u].client = u
                          /\ clients'[u] # None => clients'[u].handles[job'[u].handle] = None
    BY DEF AsksAlone
  <2>1. u # t /\ job'[u] = job[u] /\ job[u].pc = "ask"
    BY <1>1, <1>2
  <2>2. /\ job[u].other < minted /\ Owned(job[u].other, job[u].client, job[u].handle)
        /\ \A v \in Thread : job[v].pc = "ask" /\ job[v].other = job[u].other => v = u
        /\ job[u].handle # None =>
            /\ u \in Client /\ job[u].client = u
            /\ clients[u] # None => clients[u].handles[job[u].handle] = None
    BY <2>1 DEF AsksAlone, OwnersAgree
  <2>3. job[u].other \in Key \ {k}
    BY <1>3, <2>1, HandFacts DEF Asked
  <2>4. Owned(job[u].other, job[u].client, job[u].handle)'
    BY <1>7, <2>1, <2>2, <2>3
  <2>5. QED
    BY <1>1, <1>2, <2>1, <2>2, <2>4
<1>13. UnbindsAlone'
  <2> SUFFICES ASSUME NEW u \in Thread, job'[u].pc = "unbind"
               PROVE  /\ ~Held(job[u].victim)'
                      /\ \A v \in Thread : job'[v].pc = "unbind" /\ job'[v].victim = job'[u].victim => v = u
    BY DEF UnbindsAlone
  <2>1. CASE u = t
    <3>1. \A v \in Thread : job'[v].pc = "unbind" /\ job'[v].victim = k => v = t
      BY <1>1, <1>9
    <3>2. ~Held(job[t].victim)'
      BY <1>2, <1>3, <1>4 DEF Held
    <3>3. QED
      BY <1>2, <2>1, <3>1, <3>2
  <2>2. CASE u # t
    <3>1. job'[u] = job[u] /\ job[u].pc = "unbind" /\ job[u].victim \in Key /\ job[u].victim # k
      BY <1>1, <1>9, <2>2, HandFacts
    <3>2. ~Held(job[u].victim)
      BY <3>1 DEF OwnersAgree, UnbindsAlone
    <3>3. ~Held(job[u].victim)'
      BY <1>4, <3>1, <3>2 DEF Held
    <3>4. QED
      BY <1>1, <1>2, <3>1, <3>3 DEF OwnersAgree, UnbindsAlone
  <2>3. QED
    BY <2>1, <2>2
<1>14. Bound'
  <2>1. \A x \in Key : \A d, g : Owed(x, d, g)' <=> Owed(x, d, g)
    BY <1>10, <1>11
  <2>2. QED
    BY <1>2, <1>5, <2>1 DEF OwnersAgree, Bound
<1>15. QED
  BY <1>5, <1>12, <1>13, <1>14 DEF OwnersAgree

LEMMA UnbindsKeeps ==
    ASSUME IInv, JobsHome, OwnersAgree, NEW t \in Thread, Unbinds(t)
    PROVE  Known' = Known /\ OwnersAgree'
<1>0. PICK k, c, h : k = job[t].victim /\ c = job[t].of[1] /\ h = job[t].of[2]
  OBVIOUS
<1>1. \A u \in Thread \ {t} : job'[u] = job[u]
  BY DEF Unbinds, OthersStay
<1>2. /\ job[t].pc = "unbind" /\ job'[t].pc # "ask" /\ job'[t].pc # "unbind"
      /\ UNCHANGED <<ent, minted>>
  BY DEF Unbinds, Unbind, Free, At, OnlyClients, held
<1>3. k \in Key /\ k \in Known /\ ~Held(k)
      /\ \A u \in Thread : job[u].pc = "unbind" /\ job[u].victim = k => u = t
  BY <1>0, <1>2, HandFacts DEF OwnersAgree, UnbindsAlone
<1>4. clients' = Unbound(c, k, h)
  BY <1>0 DEF Unbinds, Unbind
<1>5. c \in Client \cup {None} /\ h \in Handle \cup {None} /\ job[t].of = <<c, h>>
  <2>1. job[t].of \in (Client \cup {None}) \X (Handle \cup {None})
    BY DEF IInv, TypeOK, JobType
  <2>2. QED
    BY <1>0, <2>1
<1>6. \A d, g : Unbinding(t, k, d, g) <=> d = c /\ g = h
  BY <1>0, <1>2, <1>5 DEF Unbinding
<1>7. Known' = Known
  <2>1. \A x \in Key : (\A u \in Thread : ~Asked(u, x)') <=> \A u \in Thread : ~Asked(u, x)
    BY <1>1, <1>2 DEF Asked
  <2>2. \A x \in Key : x \in Known' <=> x \in Known
    BY <1>2, <2>1 DEF Known
  <2>3. QED
    BY <2>2 DEF Known
<1>8. \A x, d, g : Owned(x, d, g)' <=> Owned(x, d, g)
  BY <1>2 DEF Owned, Held
<1>9. \A d, g : Owed(k, d, g) <=> d = c /\ g = h
  <2>1. \A d, g : \A u \in Thread : Unbinding(u, k, d, g) => u = t
    BY <1>3 DEF Unbinding
  <2>2. QED
    BY <1>3, <1>6, <2>1 DEF Owed, Owned
<1>10. \A d, g : ~Owed(k, d, g)'
  <2>1. \A d, g : \A u \in Thread : ~Unbinding(u, k, d, g)'
    BY <1>1, <1>2, <1>3 DEF Unbinding
  <2>2. \A d, g : ~Owned(k, d, g)'
    BY <1>3, <1>8 DEF Owned
  <2>3. QED
    BY <2>1, <2>2 DEF Owed
<1>11. \A x \in Key \ {k} : \A d, g : Owed(x, d, g)' <=> Owed(x, d, g)
  <2>1. \A x \in Key \ {k} : \A d, g :
           (\E u \in Thread : Unbinding(u, x, d, g)') <=> \E u \in Thread : Unbinding(u, x, d, g)
    BY <1>0, <1>1, <1>2 DEF Unbinding
  <2>2. QED
    BY <1>8, <2>1 DEF Owed
<1>12. \A d \in Client : clients[d] # None => clients[d] \in ClientType
  BY DEF IInv, TypeOK
<1>13. \A d \in Client :
          /\ clients'[d] # None <=> clients[d] # None
          /\ clients[d] # None =>
              /\ clients'[d].keys = IF d = c THEN clients[d].keys \ {k} ELSE clients[d].keys
              /\ \A g \in Handle : clients'[d].handles[g] =
                    IF d = c /\ g = h THEN None ELSE clients[d].handles[g]
  <2> TAKE d \in Client
  <2>1. CASE clients[d] = None \/ d # c
    BY <1>4, <1>5, <2>1 DEF IInv, TypeOK, Unbound
  <2>2. CASE clients[d] # None /\ d = c
    <3> DEFINE e == [clients[c] EXCEPT !.keys = @ \ {k},
                                       !.handles = IF h = None THEN @ ELSE [@ EXCEPT ![h] = None]]
    <3>1. clients'[c] = e
      BY <1>4, <2>2, NoneFacts DEF IInv, TypeOK, ClientType, Unbound
    <3>2. /\ e.keys = clients[c].keys \ {k}
          /\ \A g \in Handle : e.handles[g] = IF g = h THEN None ELSE clients[c].handles[g]
      BY <1>5, <1>12, <2>2, NoneFacts DEF ClientType
    <3>3. e \in ClientType
      BY <1>5, <1>12, <2>2 DEF ClientType
    <3> HIDE DEF e
    <3>4. QED
      BY <2>2, <3>1, <3>2, <3>3, NoneFacts
  <2>3. QED
    BY <2>1, <2>2
<1>14. AsksAlone'
  <2> SUFFICES ASSUME NEW u \in Thread, job'[u].pc = "ask"
               PROVE  /\ job'[u].other < minted' /\ Owned(job[u].other, job[u].client, job[u].handle)'
                      /\ \A v \in Thread : job'[v].pc = "ask" /\ job'[v].other = job'[u].other => v = u
                      /\ job'[u].handle # None =>
                          /\ u \in Client /\ job'[u].client = u
                          /\ clients'[u] # None => clients'[u].handles[job'[u].handle] = None
    BY DEF AsksAlone
  <2>1. u # t /\ job'[u] = job[u] /\ job[u].pc = "ask"
    BY <1>1, <1>2
  <2>2. /\ job[u].other < minted /\ Owned(job[u].other, job[u].client, job[u].handle)
        /\ \A v \in Thread : job[v].pc = "ask" /\ job[v].other = job[u].other => v = u
        /\ job[u].handle # None =>
            /\ u \in Client /\ job[u].client = u
            /\ clients[u] # None => clients[u].handles[job[u].handle] = None
    BY <2>1 DEF AsksAlone, OwnersAgree
  <2>3. job[u].handle \in Handle \cup {None}
    BY DEF IInv, TypeOK, JobType
  <2>4. job[u].handle # None /\ clients'[u] # None => clients'[u].handles[job[u].handle] = None
    BY <1>13, <2>2, <2>3
  <2>5. Owned(job[u].other, job[u].client, job[u].handle)'
    BY <1>8, <2>1, <2>2
  <2>6. QED
    BY <1>1, <1>2, <2>1, <2>2, <2>4, <2>5
<1>15. UnbindsAlone'
  BY <1>1, <1>2 DEF OwnersAgree, UnbindsAlone, Held
<1>16. Bound'
  <2> SUFFICES ASSUME NEW d \in Client, clients'[d] # None
               PROVE  /\ \A x \in Key :
                          x \in clients'[d].keys <=>
                            x \in Known' /\ \E g \in Handle \cup {None} : Owed(x, d, g)'
                      /\ \A g \in Handle, x \in Key :
                          clients'[d].handles[g] = x <=> x \in Known' /\ Owed(x, d, g)'
    BY DEF Bound
  <2>1. /\ \A x \in Key :
            x \in clients[d].keys <=> x \in Known /\ \E g \in Handle \cup {None} : Owed(x, d, g)
        /\ \A g \in Handle, x \in Key :
            clients[d].handles[g] = x <=> x \in Known /\ Owed(x, d, g)
        /\ clients[d] # None
    BY <1>13 DEF Bound, OwnersAgree
  <2>2. ASSUME NEW x \in Key
        PROVE  x \in clients'[d].keys <=> x \in Known /\ \E g \in Handle \cup {None} : Owed(x, d, g)'
    <3>1. x \in clients[d].keys <=> x \in Known /\ \E g \in Handle \cup {None} : Owed(x, d, g)
      BY <2>1
    <3>2. clients'[d].keys = IF d = c THEN clients[d].keys \ {k} ELSE clients[d].keys
      BY <1>13, <2>1
    <3>3. CASE x # k
      <4>1. x \in clients'[d].keys <=> x \in clients[d].keys
        BY <3>2, <3>3
      <4>2. \A g : Owed(x, d, g)' <=> Owed(x, d, g)
        BY <1>11, <3>3
      <4>3. QED
        BY <3>1, <4>1, <4>2
    <3>4. CASE x = k
      <4>1. x \notin clients'[d].keys
        BY <1>9, <3>1, <3>2, <3>4
      <4>2. QED
        BY <1>10, <3>4, <4>1
    <3>5. QED
      BY <3>3, <3>4
  <2>3. ASSUME NEW g \in Handle, NEW x \in Key
        PROVE  clients'[d].handles[g] = x <=> x \in Known /\ Owed(x, d, g)'
    <3>1. clients[d].handles[g] = x <=> x \in Known /\ Owed(x, d, g)
      BY <2>1
    <3>2. clients'[d].handles[g] = IF d = c /\ g = h THEN None ELSE clients[d].handles[g]
      BY <1>13, <2>1
    <3>3. CASE x # k
      <4>1. Owed(x, d, g)' <=> Owed(x, d, g)
        BY <1>11, <3>3
      <4>2. CASE d = c /\ g = h
        <5>1. clients[d].handles[g] = k
          BY <1>3, <1>9, <2>1, <4>2
        <5>2. QED
          BY <3>1, <3>2, <3>3, <4>1, <4>2, <5>1, NoneFacts
      <4>3. CASE ~(d = c /\ g = h)
        BY <3>1, <3>2, <4>1, <4>3
      <4>4. QED
        BY <4>2, <4>3
    <3>4. CASE x = k
      <4>1. clients'[d].handles[g] # k
        BY <1>3, <1>9, <3>1, <3>2, <3>4, NoneFacts
      <4>2. QED
        BY <1>10, <3>4, <4>1
    <3>5. QED
      BY <3>3, <3>4
  <2>4. QED
    BY <1>7, <2>2, <2>3
<1>17. QED
  BY <1>7, <1>14, <1>15, <1>16 DEF OwnersAgree

(* The rest of a step: no more is referred to than S.                      *)
RecordsFine(S) ==
    /\ transits' = {} /\ byId' \subseteq S
    /\ \A k \in Key : ent'[k] = ent[k] \/ ent'[k] = None
                        \/ (ent'[k].replaces = None /\ ent'[k].shadows \subseteq S)

Fine(S) ==
    /\ \A t \in Thread : job'[t] = job[t] \/ JobHome(job'[t], S)
    /\ RecordsFine(S)
    /\ outbound' \in Seq(MessageOf(S))

HomeStep ==
    \/ Fine(Known) /\ \/ Stays
                      \/ \E t \in Thread : \/ \E k, c, h : Starts(t, k, c, h)
                                           \/ \E k : Parts(t, k)
                                           \/ Unbinds(t)
    \/ \E t \in Thread : Binds(t) /\ Fine(Known \cup {job[t].other})

LEMMA MoreMessages ==
    ASSUME NEW S, NEW T, S \subseteq T, NEW W
    PROVE  /\ \A s : s \in Seq(MessageOf(S)) => s \in Seq(MessageOf(T))
           /\ \A s : s \in Seq(ReportOf(S, W)) => s \in Seq(ReportOf(T, W))
<1>1. MessageOf(S) \subseteq MessageOf(T) /\ ReportOf(S, W) \subseteq ReportOf(T, W)
  BY DEF MessageOf, ReportOf
<1>2. QED
  BY <1>1

LEMMA MoreHome ==
    ASSUME NEW S, NEW T, S \subseteq T, NEW j, JobHome(j, S)
    PROVE  JobHome(j, T)
  BY DEF JobHome

LEMMA HomeKept ==
    ASSUME StayPut, IInv, HomeInv, Next, HomeStep
    PROVE  HomeInv'
<1>1. JobsHome /\ RecordsHome /\ MessagesHome /\ OwnersAgree
  BY DEF HomeInv
<1>2. PICK S : S = Known
  OBVIOUS
<1>3. PICK T : /\ Known' = T /\ S \subseteq T /\ OwnersAgree' /\ Fine(T)
  <2>1. CASE Fine(Known) /\ \/ Stays
                            \/ \E t \in Thread : \/ \E k, c, h : Starts(t, k, c, h)
                                                 \/ \E k : Parts(t, k)
                                                 \/ Unbinds(t)
    BY <1>1, <1>2, <2>1, StaysKeeps, StartsKeeps, PartsKeeps, UnbindsKeeps
  <2>2. ASSUME NEW t \in Thread, Binds(t), Fine(Known \cup {job[t].other})
        PROVE  \E T : /\ Known' = T /\ S \subseteq T /\ OwnersAgree' /\ Fine(T)
    BY <1>1, <1>2, <2>2, BindsKeeps
  <2>3. QED
    BY <2>1, <2>2 DEF HomeStep
<1>4. JobsHome'
  <2>1. \A t \in Thread : JobHome(job'[t], T)
    BY <1>1, <1>2, <1>3, MoreHome DEF Fine, JobsHome
  <2>2. QED
    BY <1>3, <2>1 DEF JobsHome
<1>5. RecordsHome'
  <2> SUFFICES ASSUME NEW k \in Key, Held(k)'
               PROVE  ent'[k].replaces = None /\ ent'[k].shadows \subseteq T
    BY <1>3 DEF RecordsHome, Fine, RecordsFine
  <2>1. ent'[k] # None
    BY DEF Held
  <2>2. CASE ent'[k] = ent[k]
    <3>1. Held(k)
      BY <2>1, <2>2, NoneFacts DEF Held
    <3>2. QED
      BY <1>1, <1>2, <1>3, <2>2, <3>1 DEF RecordsHome
  <2>3. QED
    BY <1>3, <2>1, <2>2 DEF Fine, RecordsFine
<1>6. MessagesHome'
  <2> DEFINE W == Reports \ {"cross"}
  <2>1. TypeOK /\ JobsReady /\ S \in SUBSET Key /\ "cross" \notin Events
    BY <1>2 DEF IInv, Known, StayPut
  <2>2. RegionsOf(S, W) /\ outbound \in Seq(MessageOf(S))
    BY <1>1, <1>2 DEF MessagesHome
  <2>3. RegionsOf(S, W)'
    <3>1. {"added", "removed"} \subseteq W /\ {"view", "cleared"} \subseteq W
      BY DEF Reports
    <3>2. QED
      BY <2>1, <2>2, <3>1, RegionsStep
  <2>4. RegionsOf(T, W)'
    <3> HIDE DEF W
    <3>1. /\ \A s : s \in Seq(MessageOf(S)) => s \in Seq(MessageOf(T))
          /\ \A s : s \in Seq(ReportOf(S, W)) => s \in Seq(ReportOf(T, W))
      BY <1>3, MoreMessages
    <3>2. inbox' \in [Region -> Seq(MessageOf(T))] /\ presence' \in [Region -> Seq(ReportOf(T, W))]
          /\ alive' \in [Region -> SUBSET T]
      BY <1>3, <2>3, <3>1 DEF RegionsOf
    <3>3. QED
      BY <2>3, <3>2 DEF RegionsOf
  <2>5. outbound' \in Seq(MessageOf(T))
    BY <1>3 DEF Fine
  <2>6. QED
    BY <1>3, <2>4, <2>5 DEF MessagesHome, RegionsOf
<1>7. QED
  BY <1>3, <1>4, <1>5, <1>6 DEF HomeInv

-----------------------------------------------------------------------------
LEMMA IdleHome == \A S : JobHome(Idle, S) /\ Free(Idle)
  BY DEF Idle, JobHome, Abroad, Free

(* Everything a step of thread t can rely on.                              *)
LEMMA AtHome ==
    ASSUME IInv, HomeInv, NEW t \in Thread
    PROVE  /\ job[t] \in JobType /\ JobReady(job[t], minted) /\ JobHome(job[t], Known)
           /\ job \in [Thread -> JobType]
  BY DEF IInv, TypeOK, JobsReady, HomeInv, JobsHome

LEMMA Rested ==
    ASSUME IInv, NEW t \in Thread, Rest(t)
    PROVE  /\ OthersStay(t) /\ Free(job'[t]) /\ \A S : JobHome(job'[t], S)
<1>1. job'[t] = Idle /\ OthersStay(t)
  BY DEF IInv, TypeOK, Rest, OthersStay
<1>2. QED
  BY <1>1, IdleHome

LEMMA WentOn ==
    ASSUME IInv, NEW t \in Thread, NEW S, NEW T, S \subseteq T,
           JobHome(job[t], S), job[t].pc = "ask" => job[t].other \in T,
           NEW p \in {job[t].next, job[t].after}, GoOn(t, p)
    PROVE  OthersStay(t) /\ Free(job'[t]) /\ JobHome(job'[t], T)
<1> DEFINE j == job[t]
<1>1. CASE p = "rest"
  BY <1>1, Rested DEF GoOn
<1>2. CASE p # "rest"
  <2>1. job' = [job EXCEPT ![t] = With(j, [pc |-> p])]
    BY <1>2 DEF GoOn, Then
  <2>2. j \in JobType
    BY DEF IInv, TypeOK
  <2>3. p \in {"todo", "unlist", "view", "finish", "notify", "list"} /\ (p = "view" => j.next = "view")
    BY <1>2, <2>2 DEF JobHome, JobType, Returns, Afters
  <2> DEFINE w == With(j, [pc |-> p])
  <2>4. /\ w.pc = p /\ w.next = j.next /\ w.after = j.after /\ w.due = j.due /\ w.todo = j.todo
        /\ w.had = j.had /\ w.keep = j.keep /\ w.handle = j.handle
    BY <2>2 DEF With, JobType
  <2> HIDE DEF w
  <2>5. JobHome(w, T)
    BY <2>3, <2>4 DEF JobHome, Abroad
  <2>6. Free(w)
    BY <2>3, <2>4 DEF Free
  <2>7. job'[t] = w /\ OthersStay(t)
    BY <2>1 DEF w, OthersStay, IInv, TypeOK
  <2>8. QED
    BY <2>5, <2>6, <2>7
<1>3. QED
  BY <1>1, <1>2

LEMMA Turned ==
    ASSUME IInv, NEW t \in Thread, NEW new, Then(t, new)
    PROVE  job'[t] = With(job[t], new) /\ OthersStay(t)
  BY DEF IInv, TypeOK, Then, OthersStay

(* A step of a thread that asks for nothing and binds nothing.             *)
LEMMA StaysFine ==
    ASSUME IInv, HomeInv, NEW t \in Thread, NEW S,
           OthersStay(t), Free(job[t]), Free(job'[t]), JobHome(job'[t], S),
           OwnersStay, ClientsStay, UNCHANGED minted
    PROVE  Stays /\ \A u \in Thread : job'[u] = job[u] \/ JobHome(job'[u], S)
  BY DEF Stays, OthersStay

(* The records as they were.                                               *)
LEMMA SameHeld ==
    ASSUME IInv, HomeInv, UNCHANGED <<ent, byId>>, transits' = transits
    PROVE  OwnersStay /\ \A S : Known \subseteq S => RecordsFine(S)
  BY DEF OwnersStay, Held, RecordsFine, HomeInv, RecordsHome

LEMMA SameOutbound ==
    ASSUME HomeInv, UNCHANGED outbound
    PROVE  \A S : Known \subseteq S => outbound' \in Seq(MessageOf(S))
  BY MoreMessages DEF HomeInv, MessagesHome

LEMMA SentHome ==
    ASSUME HomeInv, NEW S, Known \subseteq S, NEW ms \in Seq(MessageOf(S)), Send(ms)
    PROVE  outbound' \in Seq(MessageOf(S))
<1>1. outbound \in Seq(MessageOf(S))
  BY MoreMessages DEF HomeInv, MessagesHome
<1>2. QED
  BY <1>1 DEF Send

LEMMA MessagesOf ==
    ASSUME NEW S, NEW k \in S, NEW r \in Region
    PROVE  /\ <<Spawning(r, k)>> \in Seq(MessageOf(S))
           /\ <<Despawning(r, k)>> \in Seq(MessageOf(S))
           /\ \A w \in Word : <<Saying(r, k, w)>> \in Seq(MessageOf(S))
<1>1. MaxWords \in Nat
  BY EdgeServerAssumption
<1>2. QED
  BY <1>1 DEF Spawning, Despawning, Saying, MessageOf, Word

LEMMA AskHome ==
    ASSUME IInv, HomeInv, NEW t \in Thread, Ask(t)
    PROVE  HomeStep
<1> DEFINE j == job[t]
           S == Known \cup {j.other}
<1>1. j \in JobType /\ JobHome(j, Known) /\ j.pc = "ask" /\ j.dest \in Region /\ j.other \in Key
  BY Zenon, AtHome DEF Ask, At, JobReady
<1>2. OthersStay(t) /\ Free(job'[t]) /\ JobHome(job'[t], S)
  BY <1>1, WentOn DEF Ask, Return
<1>3. UNCHANGED <<ent, byId>> /\ transits' = transits
  BY DEF Ask, held
<1>4. RecordsFine(S)
  BY <1>3, SameHeld
<1>5. outbound' \in Seq(MessageOf(S))
  <2>1. <<Spawning(j.dest, j.other)>> \in Seq(MessageOf(S))
    BY <1>1, MessagesOf
  <2>2. Send(<<Spawning(j.dest, j.other)>>)
    BY Zenon DEF Ask
  <2>3. QED
    BY <2>1, <2>2, SentHome
<1>6. Fine(S)
  BY <1>2, <1>4, <1>5 DEF Fine, OthersStay
<1>7. QED
  BY <1>2, <1>6 DEF HomeStep, Binds

LEMMA UnbindHome ==
    ASSUME IInv, HomeInv, NEW t \in Thread, Unbind(t)
    PROVE  HomeStep
<1> DEFINE j == job[t]
<1>1. j \in JobType /\ JobHome(j, Known) /\ j.pc = "unbind"
  BY AtHome DEF Unbind, At
<1>2. OthersStay(t) /\ Free(job'[t]) /\ JobHome(job'[t], Known)
  BY <1>1, WentOn DEF Unbind, Return
<1>3. UNCHANGED <<ent, byId>> /\ transits' = transits /\ UNCHANGED outbound
  BY DEF Unbind, OnlyClients, held
<1>4. Fine(Known)
  BY <1>2, <1>3, SameHeld, SameOutbound DEF Fine, OthersStay
<1>5. QED
  BY <1>2, <1>4 DEF HomeStep, Unbinds

LEMMA ReleaseHome ==
    ASSUME IInv, HomeInv, NEW t \in Thread, Release(t)
    PROVE  HomeStep
<1> DEFINE j == job[t]
           k == j.victim
<1>1. /\ j \in JobType /\ JobHome(j, Known) /\ j.pc = "release"
      /\ k \in Known /\ k \in Key
  BY AtHome DEF Release, At, JobHome, Known
<1>2. OthersStay(t) /\ Free(job'[t]) /\ JobHome(job'[t], Known)
  BY <1>1, WentOn DEF Release, Return
<1>3. byId' = byId /\ transits' = transits /\ clients' = clients /\ minted' = minted
  BY DEF Release
<1>4. ClientsStay
  BY <1>3 DEF ClientsStay
<1>5. OwnersStay /\ RecordsFine(Known) /\ outbound' \in Seq(MessageOf(Known))
  <2>1. CASE ~Held(k)
    BY <1>3, <2>1, SameHeld, SameOutbound DEF Release
  <2>2. CASE Held(k)
    <3> DEFINE e == [ent[k] EXCEPT !.doomed = TRUE]
    <3>1. ent' = [ent EXCEPT ![k] = e] /\ Send(<<Despawning(ent[k].region, k)>>)
      BY <2>2 DEF Release, Doom
    <3>2. ent[k] \in EntityType /\ ent \in [Key -> EntityType \cup {None}]
      BY <1>1, <2>2 DEF IInv, TypeOK, Held
    <3>3. /\ e.client = ent[k].client /\ e.handle = ent[k].handle
          /\ e.replaces = ent[k].replaces /\ e.shadows = ent[k].shadows /\ e \in EntityType
          /\ ent[k].region \in Region
      BY <3>2 DEF EntityType
    <3> HIDE DEF e, k
    <3>4. \A x \in Key : ent'[x] = IF x = k THEN e ELSE ent[x]
      BY <3>1, <3>2
    <3>5. OwnersStay
      BY <2>2, <3>3, <3>4, NoneFacts DEF OwnersStay, Held
    <3>6. RecordsFine(Known)
      BY <1>3, <2>2, <3>3, <3>4 DEF RecordsFine, HomeInv, RecordsHome
    <3>7. outbound' \in Seq(MessageOf(Known))
      BY <1>1, <3>1, <3>3, MessagesOf, SentHome
    <3>8. QED
      BY <3>5, <3>6, <3>7
  <2>3. QED
    BY <2>1, <2>2
<1>6. Free(j)
  BY <1>1 DEF Free
<1>7. Fine(Known) /\ Stays
  BY <1>2, <1>3, <1>4, <1>5, <1>6, StaysFine DEF Fine
<1>8. QED
  BY <1>7 DEF HomeStep

LEMMA ForgetHome ==
    ASSUME IInv, HomeInv, NEW t \in Thread, Forget(t)
    PROVE  HomeStep
<1>0. PICK k : k = job[t].victim
  OBVIOUS
<1> DEFINE j == job[t]
<1>1. /\ j \in JobType /\ JobHome(j, Known) /\ j.pc = "forget"
      /\ k \in Known /\ k \in Key
  BY <1>0, AtHome DEF Forget, At, JobHome, Known
<1>2. transits' = transits /\ clients' = clients /\ minted' = minted /\ outbound' = outbound
      /\ ent' = [ent EXCEPT ![k] = None] /\ byId' \subseteq byId
  BY <1>0 DEF Forget, OnlyHeld, Drop
<1>3. RecordsFine(Known)
  <2>1. \A x \in Key : ent'[x] = ent[x] \/ ent'[x] = None
    BY <1>2 DEF IInv, TypeOK
  <2>2. QED
    BY <1>2, <2>1 DEF RecordsFine, HomeInv, RecordsHome
<1>4. CASE ~Held(k)
  <2>1. OthersStay(t) /\ Free(job'[t]) /\ JobHome(job'[t], Known)
    BY <1>0, <1>1, <1>4, WentOn DEF Forget, Return
  <2>2. OwnersStay /\ ClientsStay
    BY <1>2, <1>4 DEF OwnersStay, ClientsStay, Held, IInv, TypeOK
  <2>3. Free(j)
    BY <1>1 DEF Free
  <2>4. Fine(Known) /\ Stays
    BY <1>2, <1>3, <2>1, <2>2, <2>3, StaysFine, SameOutbound DEF Fine
  <2>5. QED
    BY <2>4 DEF HomeStep
<1>5. CASE Held(k)
  <2> DEFINE of == <<ent[k].client, ent[k].handle>>
             new == [pc |-> "unbind", of |-> of]
             w == With(j, new)
  <2>1. job'[t] = w /\ OthersStay(t)
    BY <1>0, <1>5, Turned DEF Forget
  <2> HIDE DEF of
  <2>2. /\ w.pc = "unbind" /\ w.victim = j.victim /\ w.of = of
        /\ w.next = j.next /\ w.after = j.after /\ w.due = j.due /\ w.todo = j.todo
        /\ w.had = j.had /\ w.keep = j.keep /\ w.handle = j.handle
    BY <1>1 DEF With, JobType
  <2> HIDE DEF w
  <2>3. JobHome(w, Known)
    BY <1>1, <2>2 DEF JobHome, Abroad
  <2>4. Fine(Known)
    BY <1>2, <1>3, <2>1, <2>3, SameOutbound DEF Fine, OthersStay
  <2>5. Parts(t, k)
    BY <1>0, <1>1, <1>2, <1>5, <2>1, <2>2 DEF Parts, Free, of
  <2>6. QED
    BY <2>4, <2>5 DEF HomeStep
<1>6. QED
  BY <1>4, <1>5

(* A step that leaves records and messages be.                             *)
LEMMA QuietHome ==
    ASSUME IInv, HomeInv, NEW t \in Thread,
           OthersStay(t), Free(job[t]), Free(job'[t]), JobHome(job'[t], Known),
           UNCHANGED <<ent, byId, minted, outbound>>, transits' = transits, ClientsStay
    PROVE  HomeStep
<1>1. OwnersStay /\ RecordsFine(Known) /\ outbound' \in Seq(MessageOf(Known))
  BY SameHeld, SameOutbound
<1>2. Fine(Known) /\ Stays
  BY <1>1, StaysFine DEF Fine
<1>3. QED
  BY <1>2 DEF HomeStep

LEMMA EdgeStays == UNCHANGED edge =>
    UNCHANGED <<ent, byId, minted>> /\ transits' = transits /\ ClientsStay
  BY DEF edge, held, ClientsStay

LEMMA CommonHome ==
    ASSUME IInv, HomeInv, NEW t \in Thread, Common(t)
    PROVE  HomeStep
<1> DEFINE j == job[t]
<1>1. j \in JobType /\ JobHome(j, Known) /\ JobReady(j, minted)
  BY AtHome
<1>2. ASSUME OnlyJob, OthersStay(t), Free(j), Free(job'[t]), JobHome(job'[t], Known)
      PROVE  HomeStep
  <2>1. UNCHANGED <<ent, byId, minted, outbound>> /\ transits' = transits /\ ClientsStay
    BY <1>2, EdgeStays DEF OnlyJob
  <2>2. QED
    BY <1>2, <2>1, QuietHome
<1>3. CASE ReleaseUnanswered(t)
  <2> DEFINE w == With(j, [pc |-> "forget"])
  <2>1. job'[t] = w /\ OthersStay(t) /\ j.pc = "release" /\ OnlyJob
    BY <1>3, Turned DEF ReleaseUnanswered, At
  <2>2. /\ w.pc = "forget" /\ w.victim = j.victim
        /\ w.next = j.next /\ w.after = j.after /\ w.due = j.due /\ w.todo = j.todo
        /\ w.had = j.had /\ w.keep = j.keep /\ w.handle = j.handle
    BY <1>1 DEF With, JobType
  <2> HIDE DEF w
  <2>3. JobHome(w, Known) /\ Free(w) /\ Free(j)
    BY <1>1, <2>1, <2>2 DEF JobHome, Abroad, Free
  <2>4. QED
    BY <1>2, <2>1, <2>3
<1>4. CASE ReleaseNext(t)
  <2>1. j.pc = "todo" /\ OnlyJob /\ Free(j)
    BY <1>4 DEF ReleaseNext, At, Free
  <2>2. CASE GoOn(t, j.after)
    BY <1>1, <1>2, <2>1, <2>2, WentOn
  <2>3. ASSUME NEW k \in j.todo,
               Then(t, [pc |-> "release", victim |-> k, todo |-> j.todo \ {k}, next |-> "todo"])
        PROVE  HomeStep
    <3> DEFINE new == [pc |-> "release", victim |-> k, todo |-> j.todo \ {k}, next |-> "todo"]
               w == With(j, new)
    <3>1. job'[t] = w /\ OthersStay(t)
      BY <2>3, Turned
    <3>2. /\ w.pc = "release" /\ w.victim = k
          /\ w.next = "todo" /\ w.after = j.after /\ w.due = j.due /\ w.todo = j.todo \ {k}
          /\ w.had = j.had /\ w.keep = j.keep /\ w.handle = j.handle
      BY <1>1 DEF With, JobType
    <3> HIDE DEF w
    <3>3. JobHome(w, Known) /\ Free(w)
      BY <1>1, <2>1, <3>2 DEF JobHome, Abroad, Free
    <3>4. QED
      BY <1>2, <2>1, <3>1, <3>3
  <2>4. QED
    BY <1>4, <2>2, <2>3 DEF ReleaseNext
<1>5. CASE CheckLeft(t)
  <2>1. j.pc = "finish" /\ OnlyJob /\ Free(j)
    BY <1>5 DEF CheckLeft, At, Free
  <2>2. CASE Rest(t)
    BY <1>2, <2>1, <2>2, Rested
  <2>3. CASE Then(t, [pc |-> "fire"])
    <3> DEFINE w == With(j, [pc |-> "fire"])
    <3>1. job'[t] = w /\ OthersStay(t)
      BY <2>3, Turned
    <3>2. /\ w.pc = "fire"
          /\ w.next = j.next /\ w.after = j.after /\ w.due = j.due /\ w.todo = j.todo
          /\ w.had = j.had /\ w.keep = j.keep /\ w.handle = j.handle
      BY <1>1 DEF With, JobType
    <3> HIDE DEF w
    <3>3. JobHome(w, Known) /\ Free(w)
      BY <1>1, <2>1, <3>2 DEF JobHome, Abroad, Free
    <3>4. QED
      BY <1>2, <2>1, <3>1, <3>3
  <2>4. QED
    BY <1>5, <2>2, <2>3 DEF CheckLeft
<1>6. CASE Disconnected(t)
  <2>1. Free(j) /\ OthersStay(t) /\ Free(job'[t]) /\ JobHome(job'[t], Known)
    BY <1>6, Rested DEF Disconnected, At, Free
  <2>2. UNCHANGED <<ent, byId, minted, outbound>> /\ transits' = transits
    BY <1>6 DEF Disconnected, held
  <2>3. ClientsStay
    BY <1>6 DEF Disconnected, ClientsStay, IInv, TypeOK
  <2>4. QED
    BY <2>1, <2>2, <2>3, QuietHome
<1>7. CASE \/ Begin(t) \/ Denied(t) \/ (\E carry \in BOOLEAN : AskCopy(t, carry))
           \/ Link(t) \/ Carry(t) \/ Note(t)
  <2>1. j.pc \in Abroad
    BY <1>7 DEF Begin, Denied, AskCopy, Link, Carry, Note, At, Abroad
  <2>2. QED
    BY <1>1, <2>1 DEF JobHome
<1>8. QED
  BY <1>3, <1>4, <1>5, <1>6, <1>7, AskHome, UnbindHome, ReleaseHome, ForgetHome DEF Common

-----------------------------------------------------------------------------
(* A report that is read is of an entity that was bound, and no crossing.  *)
LEMMA ReadHome ==
    ASSUME IInv, HomeInv, NEW r \in Region, NEW what, Reads(r, what)
    PROVE  /\ presence[r][1].key \in Known /\ presence[r][1].key \in Key
           /\ presence[r][1].to \subseteq Region /\ what # "cross"
           /\ job["reader"] = Idle /\ Free(Idle)
<1>1. presence[r] \in Seq(ReportOf(Known, Reports \ {"cross"})) /\ presence[r] # <<>>
  BY DEF HomeInv, MessagesHome, RegionsOf, Reads
<1>2. presence[r][1] \in ReportOf(Known, Reports \ {"cross"})
  BY <1>1
<1>3. QED
  BY <1>2, ReportRead, IdleHome DEF ReportOf, Reads, IInv, Known

LEMMA RemovedHome ==
    ASSUME IInv, HomeInv, NEW r \in Region, Removed(r)
    PROVE  HomeStep
<1>0. PICK k : k = presence[r][1].key
  OBVIOUS
<1> DEFINE j == job["reader"]
           of == <<ent[k].client, ent[k].handle>>
           next == IF ent[k].shadowOf = None THEN "todo" ELSE "unlist"
           new == [pc |-> "unbind", victim |-> k, of |-> of,
                   client |-> ent[k].client, handle |-> ent[k].handle,
                   other |-> ent[k].shadowOf, todo |-> ent[k].shadows,
                   next |-> next, after |-> "notify"]
           w == With(j, new)
<1>1. k \in Known /\ k \in Key /\ j = Idle /\ Free(j) /\ "reader" \in Thread /\ Held(k)
  <2>1. k \in byId
    BY Zenon, <1>0 DEF Removed
  <2>2. QED
    BY Zenon, <1>0, <2>1, ReadHome, ThreadFacts DEF Removed, IInv, IndexAgrees
<1>2. transits' = transits /\ clients' = clients /\ minted' = minted /\ outbound' = outbound
      /\ ent' = [ent EXCEPT ![k] = None] /\ byId' \subseteq byId
  BY <1>0 DEF Removed, Drop
<1>3. RecordsFine(Known)
  <2>1. \A x \in Key : ent'[x] = ent[x] \/ ent'[x] = None
    BY <1>2 DEF IInv, TypeOK
  <2>2. QED
    BY <1>2, <2>1 DEF RecordsFine, HomeInv, RecordsHome
<1>4. job'["reader"] = w /\ OthersStay("reader")
  <2>1. Then("reader", new)
    BY <1>0 DEF Removed
  <2>2. QED
    BY <1>1, <2>1, Turned
<1>5. ent[k].shadows \subseteq Known
  BY <1>1 DEF HomeInv, RecordsHome
<1> HIDE DEF of, next
<1>6. /\ w.pc = "unbind" /\ w.victim = k /\ w.of = of
      /\ w.next = next /\ w.after = "notify" /\ w.due = {} /\ w.todo = ent[k].shadows
      /\ w.had = {} /\ w.keep = {}
  BY <1>1 DEF With, Idle
<1>7. next \in {"todo", "unlist"}
  BY DEF next
<1> HIDE DEF w
<1>8. JobHome(w, Known)
  BY <1>1, <1>5, <1>6, <1>7 DEF JobHome, Abroad
<1>9. Fine(Known)
  BY <1>2, <1>3, <1>4, <1>8, SameOutbound DEF Fine, OthersStay
<1>10. Parts("reader", k)
  BY <1>1, <1>2, <1>4, <1>6 DEF Parts, of
<1>11. QED
  BY <1>1, <1>9, <1>10 DEF HomeStep

(* A record is changed, not whose it is.                                   *)
LEMMA EditedHome ==
    ASSUME IInv, HomeInv, NEW k \in Key, Held(k), NEW e \in EntityType,
           ent' = [ent EXCEPT ![k] = e],
           e.client = ent[k].client, e.handle = ent[k].handle,
           e.replaces = None, e.shadows \subseteq Known,
           byId' \subseteq Known, transits' = transits
    PROVE  OwnersStay /\ RecordsFine(Known)
<1>1. \A x \in Key : ent'[x] = IF x = k THEN e ELSE ent[x]
  BY DEF IInv, TypeOK
<1>2. OwnersStay
  BY <1>1, NoneFacts DEF OwnersStay, Held
<1>3. RecordsFine(Known)
  BY <1>1 DEF RecordsFine, HomeInv, RecordsHome
<1>4. QED
  BY <1>2, <1>3

LEMMA HeldHome ==
    ASSUME IInv, HomeInv, NEW k \in Key, Held(k)
    PROVE  /\ ent[k] \in EntityType
           /\ ent[k].replaces = None /\ ent[k].shadows \subseteq Known
           /\ byId \subseteq Known /\ transits = {}
  BY DEF IInv, TypeOK, Held, HomeInv, RecordsHome

LEMMA ReaderQuietHome ==
    ASSUME IInv, HomeInv, Free(job["reader"]),
           OthersStay("reader"), Free(job'["reader"]), JobHome(job'["reader"], Known),
           OwnersStay, RecordsFine(Known), UNCHANGED <<clients, minted, outbound>>
    PROVE  HomeStep
<1>1. ClientsStay
  BY DEF ClientsStay
<1>2. Fine(Known) /\ Stays
  BY <1>1, ThreadFacts, StaysFine, SameOutbound DEF Fine
<1>3. QED
  BY <1>2 DEF HomeStep

LEMMA AddedUnknownHome ==
    ASSUME IInv, HomeInv, NEW r \in Region, AddedUnknown(r)
    PROVE  HomeStep
<1> DEFINE k == presence[r][1].key
<1>1. k \in Known
  BY ReadHome DEF AddedUnknown
<1>2. Send(<<Despawning(r, k)>>) /\ UNCHANGED <<edge, job>>
  BY DEF AddedUnknown
<1>3. outbound' \in Seq(MessageOf(Known))
  BY <1>1, <1>2, MessagesOf, SentHome
<1>4. OwnersStay /\ RecordsFine(Known) /\ ClientsStay /\ UNCHANGED minted
  BY <1>2, EdgeStays, SameHeld
<1>5. Fine(Known) /\ Stays
  BY <1>2, <1>3, <1>4 DEF Fine, Stays
<1>6. QED
  BY <1>5 DEF HomeStep

LEMMA AddedHome ==
    ASSUME IInv, HomeInv, NEW r \in Region, Added(r)
    PROVE  HomeStep
<1> DEFINE j == job["reader"]
           k == presence[r][1].key
           e == [ent[k] EXCEPT !.id = TRUE, !.replaces = None]
           o == ent[k].replaces
           sh == ent[k].shadowOf # None
           new == [pc |-> IF o = None THEN "greet" ELSE "remap",
                   key |-> k, other |-> o, client |-> ent[k].client,
                   handle |-> ent[k].handle, dest |-> r, shadow |-> sh]
           w == With(j, new)
<1>1. k \in Known /\ k \in Key /\ j = Idle /\ Free(j) /\ "reader" \in Thread /\ Held(k)
  BY ReadHome, ThreadFacts DEF Added
<1>2. /\ ent[k] \in EntityType /\ o = None /\ ent[k].shadows \subseteq Known
      /\ byId \subseteq Known
  BY Zenon, <1>1, HeldHome
<1>3. /\ ent' = [ent EXCEPT ![k] = e] /\ byId' = byId \cup {k} /\ transits' = transits
      /\ UNCHANGED <<clients, minted, outbound>>
  BY DEF Added
<1>4. job'["reader"] = w /\ OthersStay("reader")
  <2>1. Then("reader", new)
    BY Zenon DEF Added
  <2>2. QED
    BY <1>1, <2>1, Turned
<1>5. /\ w.pc = "greet" /\ w.next = "rest" /\ w.after = "rest" /\ w.due = {} /\ w.todo = {}
      /\ w.had = {} /\ w.keep = {}
  BY <1>1, <1>2 DEF With, Idle
<1> HIDE DEF w, k
<1>6. JobHome(w, Known) /\ Free(w)
  BY <1>5 DEF JobHome, Abroad, Free
<1>7. /\ e \in EntityType /\ e.client = ent[k].client /\ e.handle = ent[k].handle
      /\ e.replaces = None /\ e.shadows = ent[k].shadows
  BY <1>2 DEF EntityType
<1> HIDE DEF e
<1>8. OwnersStay /\ RecordsFine(Known)
  BY <1>1, <1>2, <1>3, <1>7, EditedHome
<1>9. QED
  BY <1>1, <1>3, <1>4, <1>6, <1>8, ReaderQuietHome

LEMMA ViewCollisionHome ==
    ASSUME IInv, HomeInv, NEW r \in Region, ViewCollision(r)
    PROVE  HomeStep
<1> DEFINE j == job["reader"]
           k == presence[r][1].key
           reach == presence[r][1].to
           had == {<<s, ent[s].region>> : s \in {x \in ent[k].shadows : Held(x)}}
           c == ent[k].client
           new == [pc |-> "view", key |-> k, client |-> c, reach |-> reach, had |-> had]
           w == With(j, new)
<1>1. k \in Known /\ k \in Key /\ j = Idle /\ Free(j) /\ "reader" \in Thread
  BY ReadHome, ThreadFacts DEF ViewCollision
<1>2. UNCHANGED edge /\ outbound' = outbound
  BY DEF ViewCollision
<1>3. /\ OwnersStay /\ RecordsFine(Known) /\ ClientsStay
      /\ UNCHANGED <<clients, minted, outbound>>
  BY <1>2, EdgeStays, SameHeld DEF edge
<1>4. CASE UNCHANGED job
  <2>1. Fine(Known) /\ Stays
    BY <1>3, <1>4, SameOutbound DEF Fine, Stays
  <2>2. QED
    BY <2>1 DEF HomeStep
<1>5. CASE k \in byId /\ Then("reader", new)
  <2>1. job'["reader"] = w /\ OthersStay("reader")
    BY <1>1, <1>5, Turned
  <2>2. Held(k)
    BY <1>5 DEF IInv, IndexAgrees
  <2>3. \A x \in had : x[1] \in Known
    BY <1>1, <2>2, HeldHome
  <2> HIDE DEF had, reach, c
  <2>4. /\ w.pc = "view" /\ w.next = "rest" /\ w.after = "rest" /\ w.due = {} /\ w.todo = {}
        /\ w.had = had /\ w.keep = {} /\ w.handle = None
    BY <1>1 DEF With, Idle
  <2> HIDE DEF w
  <2>5. JobHome(w, Known) /\ Free(w)
    BY <2>3, <2>4 DEF JobHome, Abroad, Free
  <2>6. QED
    BY <1>1, <1>3, <2>1, <2>5, ReaderQuietHome
<1>6. QED
  BY <1>4, <1>5 DEF ViewCollision

LEMMA ViewClearedHome ==
    ASSUME IInv, HomeInv, NEW r \in Region, ViewCleared(r)
    PROVE  HomeStep
<1> DEFINE j == job["reader"]
           k == presence[r][1].key
           todo == ent[k].shadows
           new == [pc |-> "todo", todo |-> todo]
           w == With(j, new)
           e == [ent[k] EXCEPT !.shadows = {}]
<1>1. k \in Known /\ k \in Key /\ j = Idle /\ Free(j) /\ "reader" \in Thread
  BY ReadHome, ThreadFacts DEF ViewCleared
<1>2. UNCHANGED <<byId, clients, minted, outbound>> /\ transits' = transits
  BY DEF ViewCleared
<1>3. CASE UNCHANGED <<ent, job>>
  <2>1. OwnersStay /\ RecordsFine(Known) /\ ClientsStay
    BY <1>2, <1>3, SameHeld DEF ClientsStay
  <2>2. Fine(Known) /\ Stays
    BY <1>2, <1>3, <2>1, SameOutbound DEF Fine, Stays
  <2>3. QED
    BY <2>2 DEF HomeStep
<1>4. CASE k \in byId /\ ent' = [ent EXCEPT ![k] = e] /\ Then("reader", new)
  <2>1. job'["reader"] = w /\ OthersStay("reader")
    BY <1>1, <1>4, Turned
  <2>2. Held(k)
    BY <1>4 DEF IInv, IndexAgrees
  <2>3. /\ ent[k] \in EntityType /\ ent[k].replaces = None /\ todo \subseteq Known
        /\ byId \subseteq Known
    BY <1>1, <2>2, HeldHome
  <2> HIDE DEF todo, k
  <2>4. /\ w.pc = "todo" /\ w.next = "rest" /\ w.after = "rest" /\ w.due = {} /\ w.todo = todo
        /\ w.had = {} /\ w.keep = {} /\ w.handle = None
    BY <1>1 DEF With, Idle
  <2> HIDE DEF w
  <2>5. JobHome(w, Known) /\ Free(w)
    BY <2>3, <2>4 DEF JobHome, Abroad, Free
  <2>6. /\ e \in EntityType /\ e.client = ent[k].client /\ e.handle = ent[k].handle
        /\ e.replaces = None /\ e.shadows = {}
    BY <2>3 DEF EntityType
  <2> HIDE DEF e
  <2>7. OwnersStay /\ RecordsFine(Known)
    BY <1>1, <1>2, <1>4, <2>2, <2>3, <2>6, EditedHome
  <2>8. QED
    BY <1>1, <1>2, <2>1, <2>5, <2>7, ReaderQuietHome
<1>5. QED
  BY <1>3, <1>4 DEF ViewCleared

(* A step that asks for an entity, all it keeps being what was bound.      *)
LEMMA StartedHome ==
    ASSUME IInv, HomeInv, NEW t \in Thread, NEW c \in Client \cup {None},
           NEW h \in Handle \cup {None}, NEW r \in Region, NEW owner \in Key \cup {None},
           Record(c, h, r, owner), OthersStay(t), Free(job[t]),
           job'[t].pc = "ask", job'[t].other = minted,
           job'[t].client = c, job'[t].handle = h, JobHome(job'[t], Known),
           UNCHANGED <<byId, clients, outbound>>, transits' = transits,
           h # None => t \in Client /\ c = t /\ clients[t] # None /\ clients[t].handles[h] = None
    PROVE  HomeStep
<1>1. PICK n : n = minted
  OBVIOUS
<1> DEFINE e == [client |-> c, handle |-> h, region |-> r, id |-> FALSE,
                 doomed |-> FALSE, replaces |-> None, shadows |-> {},
                 shadowOf |-> owner, standing |-> 0, to |-> None, held |-> <<>>]
<1>2. /\ n \in Key /\ minted' = n + 1
      /\ ent' = [ent EXCEPT ![n] = e]
  BY <1>1, MintedIsNat DEF Record, Mint, IInv, Key
<1>3. e.client = c /\ e.handle = h /\ e.replaces = None /\ e.shadows = {}
  OBVIOUS
<1>4. \A x \in Key : ent'[x] = IF x = n THEN e ELSE ent[x]
  BY <1>2 DEF IInv, TypeOK
<1>5. e # None
  <2>1. <<>> \in Seq(Word) /\ 0 \in 0 .. MaxWords
    BY EdgeServerAssumption
  <2>2. e \in EntityType
    BY <2>1 DEF EntityType
  <2>3. QED
    BY <2>2, NoneFacts
<1> HIDE DEF e
<1>6. RecordsFine(Known)
  BY <1>3, <1>4 DEF RecordsFine, HomeInv, RecordsHome
<1>7. Fine(Known)
  BY <1>6, SameOutbound DEF Fine, OthersStay
<1>8. Starts(t, n, c, h)
  BY <1>1, <1>2, <1>3, <1>4, <1>5 DEF Starts
<1>9. QED
  BY <1>7, <1>8 DEF HomeStep

(* The reader, past the report it read.                                    *)
LEMMA GreetHome ==
    ASSUME IInv, HomeInv, Greet \/ Notify
    PROVE  HomeStep
<1> DEFINE j == job["reader"]
           w == With(j, [pc |-> "finish"])
<1>1. j \in JobType /\ JobHome(j, Known) /\ "reader" \in Thread /\ j.pc \in {"greet", "notify"}
  BY AtHome, ThreadFacts DEF Greet, Notify, At
<1>2. UNCHANGED edge /\ UNCHANGED outbound
  BY DEF Greet, Notify
<1>3. UNCHANGED <<ent, byId, minted>> /\ transits' = transits /\ ClientsStay
  BY <1>2, EdgeStays
<1>4. CASE Rest("reader")
  BY <1>1, <1>2, <1>3, <1>4, Rested, QuietHome DEF Free
<1>5. CASE Then("reader", [pc |-> "finish"])
  <2>1. job'["reader"] = w /\ OthersStay("reader")
    BY <1>1, <1>5, Turned
  <2>2. /\ w.pc = "finish"
        /\ w.next = j.next /\ w.after = j.after /\ w.due = j.due /\ w.todo = j.todo
        /\ w.had = j.had /\ w.keep = j.keep /\ w.handle = j.handle
    BY <1>1 DEF With, JobType
  <2> HIDE DEF w
  <2>3. JobHome(w, Known) /\ Free(w) /\ Free(j)
    BY <1>1, <2>2 DEF JobHome, Abroad, Free
  <2>4. QED
    BY <1>1, <1>2, <1>3, <2>1, <2>3, QuietHome
<1>6. QED
  BY <1>4, <1>5 DEF Greet, Notify

LEMMA UnlistHome ==
    ASSUME IInv, HomeInv, Unlist
    PROVE  HomeStep
<1>0. PICK k : k = job["reader"].other
  OBVIOUS
<1> DEFINE j == job["reader"]
           e == [ent[k] EXCEPT !.shadows = @ \ {j.victim}]
<1>1. j \in JobType /\ "reader" \in Thread /\ Free(j)
  BY AtHome, ThreadFacts DEF Unlist, At, Free
<1>2. UNCHANGED <<byId, clients, minted, outbound>> /\ transits' = transits
      /\ ent' = (IF Held(k) THEN [ent EXCEPT ![k] = e] ELSE ent) /\ Rest("reader")
  BY <1>0 DEF Unlist, OnlyEnt, Unlisted
<1>3. OthersStay("reader") /\ Free(job'["reader"]) /\ JobHome(job'["reader"], Known)
  BY <1>1, <1>2, Rested
<1>4. OwnersStay /\ RecordsFine(Known)
  <2>1. CASE ~Held(k)
    BY <1>2, <2>1, SameHeld
  <2>2. CASE Held(k)
    <3>1. k \in Key
      BY <1>0, <1>1, <2>2, NoneFacts DEF JobType, Held
    <3>2. /\ ent[k] \in EntityType /\ ent[k].replaces = None /\ ent[k].shadows \subseteq Known
          /\ byId \subseteq Known
      BY <2>2, <3>1, HeldHome
    <3>3. /\ e \in EntityType /\ e.client = ent[k].client /\ e.handle = ent[k].handle
          /\ e.replaces = None /\ e.shadows \subseteq Known
      BY <3>2 DEF EntityType
    <3> HIDE DEF e
    <3>4. QED
      BY <1>2, <2>2, <3>1, <3>2, <3>3, EditedHome
  <2>3. QED
    BY <2>1, <2>2
<1>5. QED
  BY <1>1, <1>2, <1>3, <1>4, ReaderQuietHome

LEMMA ListHome ==
    ASSUME IInv, HomeInv, List
    PROVE  HomeStep
<1>0. PICK k : k = job["reader"].key
  OBVIOUS
<1> DEFINE j == job["reader"]
           e == [ent[k] EXCEPT !.shadows = j.keep]
<1>1. j \in JobType /\ "reader" \in Thread /\ Free(j) /\ j.keep \subseteq Known
  BY AtHome, ThreadFacts DEF List, At, Free, JobHome
<1>2. UNCHANGED <<byId, clients, minted, outbound>> /\ transits' = transits
      /\ ent' = (IF Held(k) THEN [ent EXCEPT ![k] = e] ELSE ent) /\ Rest("reader")
  BY <1>0 DEF List, OnlyEnt
<1>3. OthersStay("reader") /\ Free(job'["reader"]) /\ JobHome(job'["reader"], Known)
  BY <1>1, <1>2, Rested
<1>4. OwnersStay /\ RecordsFine(Known)
  <2>1. CASE ~Held(k)
    BY <1>2, <2>1, SameHeld
  <2>2. CASE Held(k)
    <3>1. k \in Key
      BY <1>0, <1>1, <2>2, NoneFacts DEF JobType, Held
    <3>2. /\ ent[k] \in EntityType /\ ent[k].replaces = None
          /\ byId \subseteq Known /\ j.keep \subseteq Key
      BY <1>1, <2>2, <3>1, HeldHome DEF JobType
    <3>3. /\ e \in EntityType /\ e.client = ent[k].client /\ e.handle = ent[k].handle
          /\ e.replaces = None /\ e.shadows \subseteq Known
      BY <1>1, <3>2 DEF EntityType
    <3> HIDE DEF e
    <3>4. QED
      BY <1>2, <2>2, <3>1, <3>2, <3>3, EditedHome
  <2>3. QED
    BY <2>1, <2>2
<1>5. QED
  BY <1>1, <1>2, <1>3, <1>4, ReaderQuietHome

LEMMA KeepShadowHome ==
    ASSUME IInv, HomeInv, KeepShadow \/ ViewSeen
    PROVE  HomeStep
<1> DEFINE j == job["reader"]
<1>1. /\ j \in JobType /\ JobHome(j, Known) /\ "reader" \in Thread /\ j.pc = "view" /\ Free(j)
      /\ j.keep \subseteq Known /\ \A x \in j.had : x[1] \in Known
  BY AtHome, ThreadFacts DEF KeepShadow, ViewSeen, At, Free, JobHome
<1>2. UNCHANGED <<ent, byId, minted, outbound>> /\ transits' = transits /\ ClientsStay
  BY EdgeStays DEF KeepShadow, ViewSeen, OnlyJob
<1>3. SUFFICES OthersStay("reader") /\ Free(job'["reader"]) /\ JobHome(job'["reader"], Known)
  BY <1>1, <1>2, QuietHome
<1>4. ASSUME KeepShadow
      PROVE  OthersStay("reader") /\ Free(job'["reader"]) /\ JobHome(job'["reader"], Known)
  <2>1. PICK x \in j.had :
          Then("reader", [reach |-> j.reach \ {x[2]}, keep |-> j.keep \cup {x[1]}])
    BY <1>4 DEF KeepShadow
  <2> DEFINE new == [reach |-> j.reach \ {x[2]}, keep |-> j.keep \cup {x[1]}]
             w == With(j, new)
  <2>2. job'["reader"] = w /\ OthersStay("reader")
    BY <1>1, <2>1, Turned
  <2>3. /\ w.pc = "view" /\ w.keep = j.keep \cup {x[1]}
        /\ w.next = j.next /\ w.after = j.after /\ w.due = j.due /\ w.todo = j.todo
        /\ w.had = j.had /\ w.handle = j.handle
    BY <1>1 DEF With, JobType
  <2> HIDE DEF w
  <2>4. JobHome(w, Known) /\ Free(w)
    BY <1>1, <2>3 DEF JobHome, Abroad, Free
  <2>5. QED
    BY <2>2, <2>4
<1>5. ASSUME ViewSeen
      PROVE  OthersStay("reader") /\ Free(job'["reader"]) /\ JobHome(job'["reader"], Known)
  <2> DEFINE todo == {x[1] : x \in j.had} \ j.keep
             new == [pc |-> "todo", todo |-> todo, after |-> "list"]
             w == With(j, new)
  <2>1. Then("reader", new)
    BY <1>5 DEF ViewSeen
  <2>2. job'["reader"] = w /\ OthersStay("reader")
    BY <1>1, <2>1, Turned
  <2>3. todo \subseteq Known
    BY <1>1
  <2> HIDE DEF todo
  <2>4. /\ w.pc = "todo" /\ w.todo = todo /\ w.after = "list"
        /\ w.next = j.next /\ w.due = j.due /\ w.keep = j.keep
        /\ w.had = j.had /\ w.handle = j.handle
    BY <1>1 DEF With, JobType
  <2> HIDE DEF w
  <2>5. JobHome(w, Known) /\ Free(w)
    BY <1>1, <2>3, <2>4 DEF JobHome, Abroad, Free
  <2>6. QED
    BY <2>2, <2>5
<1>6. QED
  BY <1>4, <1>5

LEMMA AskShadowHome ==
    ASSUME IInv, HomeInv, AskShadow
    PROVE  HomeStep
<1> DEFINE j == job["reader"]
<1>0. PICK n, c, owner : n = minted /\ c = j.client /\ owner = j.key
  OBVIOUS
<1>1. /\ j \in JobType /\ JobHome(j, Known) /\ "reader" \in Thread /\ j.pc = "view" /\ Free(j)
      /\ j.keep \subseteq Known /\ j.handle = None /\ j.reach \subseteq Region
      /\ c \in Client \cup {None} /\ owner \in Key \cup {None}
  BY <1>0, AtHome, ThreadFacts DEF AskShadow, At, Free, JobHome, JobType
<1>2. PICK d \in j.reach :
        /\ Record(c, None, d, owner)
        /\ Then("reader", [pc |-> "ask", other |-> n, dest |-> d,
                           reach |-> j.reach \ {d}, keep |-> j.keep \cup {n},
                           next |-> "view"])
  BY <1>0 DEF AskShadow
<1> DEFINE new == [pc |-> "ask", other |-> n, dest |-> d,
                   reach |-> j.reach \ {d}, keep |-> j.keep \cup {n}, next |-> "view"]
           w == With(j, new)
<1>3. job'["reader"] = w /\ OthersStay("reader")
  BY <1>1, <1>2, Turned
<1>4. UNCHANGED <<byId, clients, outbound>> /\ transits' = transits
  BY DEF AskShadow, OnlyAsked
<1>5. /\ w.pc = "ask" /\ w.other = n /\ w.client = c /\ w.handle = None
      /\ w.keep = j.keep \cup {n} /\ w.next = "view"
      /\ w.after = j.after /\ w.due = j.due /\ w.todo = j.todo /\ w.had = j.had
  BY <1>0, <1>1 DEF With, JobType
<1> HIDE DEF w
<1>6. JobHome(w, Known)
  BY <1>1, <1>5 DEF JobHome, Abroad
<1>7. QED
  BY <1>0, <1>1, <1>2, <1>3, <1>4, <1>5, <1>6, StartedHome

LEMMA ReaderHome ==
    ASSUME StayPut, IInv, HomeInv, Reader
    PROVE  HomeStep
<1>1. ASSUME NEW r \in Region, RemovedUnknown(r) PROVE HomeStep
  <2>1. UNCHANGED <<edge, outbound, job>>
    BY <1>1 DEF RemovedUnknown
  <2>2. OwnersStay /\ RecordsFine(Known) /\ ClientsStay /\ UNCHANGED minted
        /\ outbound' \in Seq(MessageOf(Known))
    BY <2>1, EdgeStays, SameHeld, SameOutbound
  <2>3. Fine(Known) /\ Stays
    BY <2>1, <2>2 DEF Fine, Stays
  <2>4. QED
    BY <2>3 DEF HomeStep
<1>2. ASSUME NEW r \in Region, Boundary(r) PROVE HomeStep
  BY <1>2, ReadHome DEF Boundary
<1>3. CASE CopyOrphaned \/ Remap \/ Panic \/ Landed \/ Rehandle \/ Resend \/ Stand \/ Arrive
  <2>1. job["reader"].pc \in Abroad
    BY <1>3 DEF CopyOrphaned, Remap, Panic, Landed, Rehandle, Resend, Stand, Arrive, At, Abroad
  <2>2. QED
    BY <2>1, AtHome, ThreadFacts DEF JobHome
<1>4. QED
  BY <1>1, <1>2, <1>3, AddedUnknownHome, AddedHome, RemovedHome, ViewCollisionHome, ViewClearedHome,
     GreetHome, UnlistHome, ListHome, KeepShadowHome, AskShadowHome DEF Reader

-----------------------------------------------------------------------------
LEMMA PublisherHome ==
    ASSUME IInv, HomeInv, Publisher \/ Expire
    PROVE  HomeStep
<1> DEFINE j == job["publisher"]
<1>1. JobHome(j, Known) /\ "publisher" \in Thread /\ transits = {}
  BY AtHome, ThreadFacts DEF HomeInv, RecordsHome
<1>2. CASE Publish
  <2>1. UNCHANGED <<edge, job>> /\ outbound' = <<>>
    BY <1>2 DEF Publish
  <2>2. OwnersStay /\ RecordsFine(Known) /\ ClientsStay /\ UNCHANGED minted
    BY <2>1, EdgeStays, SameHeld
  <2>3. Fine(Known) /\ Stays
    BY <2>1, <2>2 DEF Fine, Stays
  <2>4. QED
    BY <2>3 DEF HomeStep
<1>3. CASE Expire
  BY <1>1, <1>3 DEF Expire
<1>4. CASE \/ \E x \in j.due : LeaveBe(x) \/ GiveUp(x)
           \/ Uncarry \/ Unhold \/ Expired
  <2>1. j.pc \in Abroad
    BY <1>4 DEF LeaveBe, GiveUp, Uncarry, Unhold, Expired, At, Abroad
  <2>2. QED
    BY <1>1, <2>1 DEF JobHome
<1>5. QED
  BY <1>2, <1>3, <1>4 DEF Publisher

LEMMA GameHome ==
    ASSUME StayPut, IInv, HomeInv, Game
    PROVE  HomeStep
<1> DEFINE j == job["game"]
<1>0. PICK n : n = minted
  OBVIOUS
<1>1. j \in JobType /\ JobHome(j, Known) /\ JobReady(j, minted) /\ "game" \in Thread
  BY AtHome, ThreadFacts
<1>2. ASSUME NEW c \in Client, NEW r \in Region, GameSpawn(c, r)
      PROVE  HomeStep
  <2> DEFINE new == [pc |-> "ask", other |-> n, client |-> c, dest |-> r]
             w == With(j, new)
  <2>1. j = Idle /\ Free(j)
    BY <1>1, <1>2, IdleHome DEF GameSpawn, At, JobReady
  <2>2. Then("game", new) /\ Record(c, None, r, None)
        /\ UNCHANGED <<byId, clients, outbound>> /\ transits' = transits
    BY <1>0, <1>2 DEF GameSpawn
  <2>3. job'["game"] = w /\ OthersStay("game")
    BY <1>1, <2>2, Turned
  <2>4. /\ w.pc = "ask" /\ w.other = n /\ w.client = c /\ w.handle = None
        /\ w.keep = {} /\ w.next = "rest"
        /\ w.after = "rest" /\ w.due = {} /\ w.todo = {} /\ w.had = {}
    BY <2>1 DEF With, Idle
  <2> HIDE DEF w
  <2>5. JobHome(w, Known)
    BY <2>4 DEF JobHome, Abroad
  <2>6. c \in Client \cup {None} /\ None \in Handle \cup {None} /\ None \in Key \cup {None}
    OBVIOUS
  <2>7. QED
    BY <1>0, <1>1, <2>1, <2>2, <2>3, <2>4, <2>5, <2>6, StartedHome
<1>3. ASSUME NEW k \in Key, GameDespawn(k)
      PROVE  HomeStep
  <2> DEFINE new == [pc |-> "release", victim |-> k]
             w == With(j, new)
  <2>1. j = Idle /\ Free(j)
    BY <1>1, <1>3, IdleHome DEF GameDespawn, At, JobReady
  <2>2. k \in Known
    BY <1>3 DEF GameDespawn, StayPut, IInv, IndexAgrees, HomeInv, RecordsHome
  <2>3. Then("game", new) /\ UNCHANGED edge /\ UNCHANGED outbound
    BY <1>3 DEF GameDespawn
  <2>4. job'["game"] = w /\ OthersStay("game")
    BY <1>1, <2>3, Turned
  <2>5. /\ w.pc = "release" /\ w.victim = k
        /\ w.keep = {} /\ w.next = "rest"
        /\ w.after = "rest" /\ w.due = {} /\ w.todo = {} /\ w.had = {}
    BY <2>1 DEF With, Idle
  <2> HIDE DEF w
  <2>6. JobHome(w, Known) /\ Free(w)
    BY <2>2, <2>5 DEF JobHome, Abroad, Free
  <2>7. UNCHANGED <<ent, byId, minted>> /\ transits' = transits /\ ClientsStay
    BY <2>3, EdgeStays
  <2>8. QED
    BY <1>1, <2>1, <2>3, <2>4, <2>6, <2>7, QuietHome
<1>4. QED
  BY <1>2, <1>3 DEF Game

LEMMA WorldsHome ==
    ASSUME IInv, HomeInv, Worlds
    PROVE  HomeStep
<1>1. UNCHANGED <<edge, outbound, job>>
  BY WorldsFrame
<1>2. OwnersStay /\ RecordsFine(Known) /\ ClientsStay /\ UNCHANGED minted
      /\ outbound' \in Seq(MessageOf(Known))
  BY <1>1, EdgeStays, SameHeld, SameOutbound
<1>3. Fine(Known) /\ Stays
  BY <1>1, <1>2 DEF Fine, Stays
<1>4. QED
  BY <1>3 DEF HomeStep

-----------------------------------------------------------------------------
(* A client that is connected: all it refers to was bound.                 *)
LEMMA ConnectedHome ==
    ASSUME IInv, HomeInv, NEW c \in Client, Connected(c)
    PROVE  /\ job[c] = Idle /\ Free(Idle) /\ c \in Thread
           /\ clients[c] # None /\ clients[c] \in ClientType
           /\ clients[c].keys \subseteq Known
           /\ \A h \in Handle : clients[c].handles[h] # None =>
                clients[c].handles[h] \in Known /\ clients[c].handles[h] \in Key
<1>1. job[c] = Idle /\ Free(Idle) /\ c \in Thread
  BY AtHome, ThreadFacts, IdleHome DEF Connected, At, JobReady
<1>2. clients[c] # None /\ clients[c] \in ClientType
  BY DEF Connected, IInv, TypeOK
<1>3. clients[c].keys \subseteq Key /\ \A h \in Handle : clients[c].handles[h] \in Key \cup {None}
  BY <1>2 DEF ClientType
<1>4. Bound
  BY DEF HomeInv, OwnersAgree
<1>5. clients[c].keys \subseteq Known
  BY <1>2, <1>3, <1>4 DEF Bound
<1>6. ASSUME NEW h \in Handle, clients[c].handles[h] # None
      PROVE  clients[c].handles[h] \in Known /\ clients[c].handles[h] \in Key
  <2>1. PICK k \in Key : clients[c].handles[h] = k
    BY <1>3, <1>6
  <2>2. k \in Known
    BY <1>2, <1>4, <2>1 DEF Bound
  <2>3. QED
    BY <2>1, <2>2
<1>7. QED
  BY <1>1, <1>2, <1>5, <1>6

LEMMA CommandedHome ==
    ASSUME StayPut, IInv, HomeInv, NEW c \in Client, Commanded(c)
    PROVE  HomeStep
<1> DEFINE j == job[c]
<1>0. PICK n : n = minted
  OBVIOUS
<1>1. ASSUME NEW h \in Handle, NEW r \in Region, ClientSpawn(c, h, r)
      PROVE  HomeStep
  <2> DEFINE new == [pc |-> "ask", other |-> n, client |-> c, handle |-> h, dest |-> r]
             w == With(j, new)
  <2>1. j = Idle /\ Free(j) /\ c \in Thread /\ clients[c] # None /\ clients[c].handles[h] = None
    BY <1>1, ConnectedHome DEF ClientSpawn
  <2>2. Then(c, new) /\ Record(c, h, r, None)
        /\ UNCHANGED <<byId, clients, outbound>> /\ transits' = transits
    BY <1>0, <1>1 DEF ClientSpawn
  <2>3. job'[c] = w /\ OthersStay(c)
    BY <2>1, <2>2, Turned
  <2>4. /\ w.pc = "ask" /\ w.other = n /\ w.client = c /\ w.handle = h
        /\ w.keep = {} /\ w.next = "rest"
        /\ w.after = "rest" /\ w.due = {} /\ w.todo = {} /\ w.had = {}
    BY <2>1 DEF With, Idle
  <2> HIDE DEF w
  <2>5. JobHome(w, Known)
    BY <2>4 DEF JobHome, Abroad
  <2>6. c \in Client \cup {None} /\ h \in Handle \cup {None} /\ None \in Key \cup {None}
    OBVIOUS
  <2>7. QED
    BY <1>0, <2>1, <2>2, <2>3, <2>4, <2>5, <2>6, StartedHome
<1>2. ASSUME NEW h \in Handle, ClientDespawn(c, h)
      PROVE  HomeStep
  <2>0. PICK k : k = clients[c].handles[h]
    OBVIOUS
  <2> DEFINE new == [pc |-> "release", victim |-> k]
             w == With(j, new)
  <2>1. j = Idle /\ Free(j) /\ c \in Thread /\ k \in Known
    BY <1>2, <2>0, ConnectedHome DEF ClientDespawn
  <2>2. Then(c, new) /\ UNCHANGED edge /\ UNCHANGED outbound
    BY <1>2, <2>0 DEF ClientDespawn
  <2>3. job'[c] = w /\ OthersStay(c)
    BY <2>1, <2>2, Turned
  <2>4. /\ w.pc = "release" /\ w.victim = k
        /\ w.keep = {} /\ w.next = "rest"
        /\ w.after = "rest" /\ w.due = {} /\ w.todo = {} /\ w.had = {}
    BY <2>1 DEF With, Idle
  <2> HIDE DEF w
  <2>5. JobHome(w, Known) /\ Free(w)
    BY <2>1, <2>4 DEF JobHome, Abroad, Free
  <2>6. UNCHANGED <<ent, byId, minted>> /\ transits' = transits /\ ClientsStay
    BY <2>2, EdgeStays
  <2>7. QED
    BY <2>1, <2>2, <2>3, <2>5, <2>6, QuietHome
<1>3. ASSUME NEW h \in Handle, ClientSay(c, h)
      PROVE  HomeStep
  <2>0. PICK k, x : k = clients[c].handles[h] /\ x = words'
    OBVIOUS
  <2> DEFINE new == [pc |-> "say", key |-> k, word |-> x]
             w == With(j, new)
  <2>1. j = Idle /\ Free(j) /\ c \in Thread
    BY <1>3, ConnectedHome DEF ClientSay
  <2>2. Then(c, new) /\ UNCHANGED edge /\ UNCHANGED outbound
    BY <1>3, <2>0 DEF ClientSay
  <2>3. job'[c] = w /\ OthersStay(c)
    BY <2>1, <2>2, Turned
  <2>4. /\ w.pc = "say" /\ w.keep = {} /\ w.next = "rest"
        /\ w.after = "rest" /\ w.due = {} /\ w.todo = {} /\ w.had = {}
    BY <2>1 DEF With, Idle
  <2> HIDE DEF w
  <2>5. JobHome(w, Known) /\ Free(w)
    BY <2>4 DEF JobHome, Abroad, Free
  <2>6. UNCHANGED <<ent, byId, minted>> /\ transits' = transits /\ ClientsStay
    BY <2>2, EdgeStays
  <2>7. QED
    BY <2>1, <2>2, <2>3, <2>5, <2>6, QuietHome
<1>4. ASSUME NEW h \in Handle, NEW r \in Region, ClientTeleport(c, h, r)
      PROVE  HomeStep
  BY <1>4 DEF ClientTeleport, StayPut
<1>5. ASSUME ClientLeave(c)
      PROVE  HomeStep
  <2>0. PICK S : S = clients[c].keys
    OBVIOUS
  <2> DEFINE new == [pc |-> "todo", client |-> c, todo |-> S, after |-> "finish"]
             w == With(j, new)
             e == [clients[c] EXCEPT !.leaving = TRUE]
  <2>1. /\ j = Idle /\ Free(j) /\ c \in Thread /\ S \subseteq Known
        /\ clients[c] # None /\ clients[c] \in ClientType
    BY <1>5, <2>0, ConnectedHome DEF ClientLeave
  <2>2. Then(c, new) /\ UNCHANGED <<ent, byId, minted, outbound>> /\ transits' = transits
        /\ clients' = [clients EXCEPT ![c] = e]
    BY <1>5, <2>0 DEF ClientLeave, OnlyClients, held
  <2>3. job'[c] = w /\ OthersStay(c)
    BY <2>1, <2>2, Turned
  <2>4. /\ w.pc = "todo" /\ w.keep = {} /\ w.next = "rest" /\ w.todo = S
        /\ w.after = "finish" /\ w.due = {} /\ w.had = {}
    BY <2>1 DEF With, Idle
  <2> HIDE DEF w
  <2>5. JobHome(w, Known) /\ Free(w)
    BY <2>1, <2>4 DEF JobHome, Abroad, Free
  <2>6. e.keys = clients[c].keys /\ e.handles = clients[c].handles
    BY <2>1 DEF ClientType
  <2> HIDE DEF e
  <2>7. \A d \in Client : clients'[d] = IF d = c THEN e ELSE clients[d]
    BY <2>2 DEF IInv, TypeOK
  <2>8. ClientsStay
    BY <2>1, <2>6, <2>7 DEF ClientsStay
  <2>9. QED
    BY <2>1, <2>2, <2>3, <2>5, <2>8, QuietHome
<1>6. QED
  BY <1>1, <1>2, <1>3, <1>4, <1>5 DEF Commanded

LEMMA SayHome ==
    ASSUME IInv, HomeInv, NEW c \in Client, Say(c)
    PROVE  HomeStep
<1>0. PICK k, w : k = job[c].key /\ w = job[c].word
  OBVIOUS
<1>1. /\ job[c] \in JobType /\ JobReady(job[c], minted) /\ c \in Thread /\ job[c].pc = "say"
      /\ Free(job[c]) /\ w \in Word /\ k \in Key \cup {None}
  BY <1>0, AtHome, ThreadFacts DEF Say, At, JobReady, JobType, Free
<1>2. OthersStay(c) /\ Free(job'[c]) /\ JobHome(job'[c], Known)
  BY <1>1, Rested DEF Say
<1>3. UNCHANGED <<byId, clients, minted>> /\ transits' = transits /\ ClientsStay
  BY DEF Say, ClientsStay
<1>4. SUFFICES OwnersStay /\ RecordsFine(Known) /\ outbound' \in Seq(MessageOf(Known))
  <2>1. Fine(Known) /\ Stays
    BY <1>1, <1>2, <1>3, <1>4, StaysFine DEF Fine
  <2>2. QED
    BY <2>1 DEF HomeStep
<1>5. CASE ~Held(k)
  BY <1>0, <1>3, <1>5, SameHeld, SameOutbound DEF Say
<1>6. CASE Held(k)
  <2>1. /\ k \in Key /\ ent[k] \in EntityType /\ ent[k].replaces = None
        /\ ent[k].shadows \subseteq Known /\ byId \subseteq Known /\ MaxWords \in Nat
        /\ ent[k].region \in Region
    BY <1>1, <1>6, HeldHome, EdgeServerAssumption DEF Held, EntityType
  <2>2. ASSUME NEW e \in EntityType, ent' = [ent EXCEPT ![k] = e], e.client = ent[k].client,
               e.handle = ent[k].handle, e.replaces = ent[k].replaces, e.shadows = ent[k].shadows
        PROVE  OwnersStay /\ RecordsFine(Known)
    BY <1>3, <1>6, <2>1, <2>2, EditedHome
  <2>3. CASE ent[k].to # None
    <3> DEFINE e == [ent[k] EXCEPT !.held = Append(@, w)]
    <3>1. ent' = [ent EXCEPT ![k] = e] /\ UNCHANGED outbound
      BY <1>0, <1>6, <2>3 DEF Say
    <3>2. /\ e \in EntityType /\ e.client = ent[k].client /\ e.handle = ent[k].handle
          /\ e.replaces = ent[k].replaces /\ e.shadows = ent[k].shadows
      <4>1. Append(ent[k].held, w) \in Seq(Word)
        BY <1>1, <2>1 DEF EntityType
      <4>2. QED
        BY <2>1, <4>1 DEF EntityType
    <3> HIDE DEF e
    <3>3. QED
      BY <2>2, <3>1, <3>2, SameOutbound
  <2>4. CASE ent[k].to = None
    <3> DEFINE e == [ent[k] EXCEPT !.standing = w]
    <3>1. /\ ent' = [ent EXCEPT ![k] = e]
          /\ IF ent[k].id THEN Send(<<Saying(ent[k].region, k, w)>>) ELSE UNCHANGED outbound
      BY <1>0, <1>6, <2>4 DEF Say
    <3>2. /\ e \in EntityType /\ e.client = ent[k].client /\ e.handle = ent[k].handle
          /\ e.replaces = ent[k].replaces /\ e.shadows = ent[k].shadows
      <4>1. w \in 0 .. MaxWords
        BY <1>1, <2>1 DEF Word
      <4>2. QED
        BY <2>1, <4>1 DEF EntityType
    <3> HIDE DEF e
    <3>3. outbound' \in Seq(MessageOf(Known))
      <4>1. CASE ent[k].id
        <5>1. k \in Known
          BY <1>6, <2>1, <4>1 DEF IInv, IndexAgrees
        <5>2. QED
          BY <1>1, <2>1, <3>1, <4>1, <5>1, MessagesOf, SentHome
      <4>2. QED
        BY <3>1, <4>1, SameOutbound
    <3>4. QED
      BY <2>2, <3>1, <3>2, <3>3
  <2>5. QED
    BY <2>3, <2>4
<1>7. QED
  BY <1>5, <1>6

LEMMA NextHome ==
    ASSUME StayPut, IInv, HomeInv, [Next]_vars
    PROVE  HomeInv'
<1>1. CASE Next
  <2>1. HomeStep
    BY <1>1, CommonHome, ReaderHome, PublisherHome, GameHome, WorldsHome, CommandedHome, SayHome
    DEF Next
  <2>2. QED
    BY <1>1, <2>1, HomeKept
<1>2. CASE UNCHANGED vars
  <2>1. UNCHANGED <<ent, byId, clients, minted, transits, outbound, inbox, job, alive, presence,
                   heard, events>>
    BY <1>2 DEF vars, edge, held, world, regions
  <2>2. Known' = Known /\ OwnersAgree'
    <3>1. Stays
      BY <2>1 DEF Stays, OwnersStay, ClientsStay, Held
    <3>2. QED
      BY <3>1, StaysKeeps DEF HomeInv
  <2>3. JobsHome'
    BY <2>1, <2>2 DEF HomeInv, JobsHome
  <2>4. RecordsHome'
    BY <2>1, <2>2 DEF HomeInv, RecordsHome, Held
  <2>5. MessagesHome'
    BY <2>1, <2>2 DEF HomeInv, MessagesHome, RegionsOf
  <2>6. QED
    BY <2>2, <2>3, <2>4, <2>5 DEF HomeInv
<1>3. QED
  BY <1>1, <1>2

LEMMA InitHome == Init => HomeInv
<1> SUFFICES ASSUME Init PROVE HomeInv
  OBVIOUS
<1>1. \A t \in Thread : job[t] = Idle /\ job[t].pc = "idle"
  BY DEF Init, Idle
<1>2. \A k \in Key : ~Held(k)
  BY DEF Init, Held
<1>3. Known = {}
  <2>1. minted = 0 /\ \A k \in Key : k \in Nat
    BY NoneFacts DEF Init
  <2>2. \A k \in Key : ~(k < minted)
    BY <2>1
  <2>3. QED
    BY <2>2 DEF Known
<1>4. JobsHome
  BY <1>1, IdleHome DEF JobsHome
<1>5. RecordsHome
  BY <1>2 DEF RecordsHome, Init
<1>6. MessagesHome
  <2>1. /\ outbound = <<>> /\ inbox = [r \in Region |-> <<>>]
        /\ presence = [r \in Region |-> <<>>] /\ alive = [r \in Region |-> {}]
    BY DEF Init
  <2>2. \A S : <<>> \in Seq(S)
    OBVIOUS
  <2>3. QED
    BY <2>1, <2>2, InitIInv DEF MessagesHome, RegionsOf, IInv, TypeOK
<1>7. AsksAlone /\ UnbindsAlone
  BY <1>1 DEF AsksAlone, UnbindsAlone
<1>8. Bound
  <2>1. \A c \in Client : clients[c].keys = {} /\ \A h \in Handle : clients[c].handles[h] = None
    BY DEF Init
  <2>2. QED
    BY <1>3, <2>1, NoneFacts DEF Bound
<1>9. QED
  BY <1>4, <1>5, <1>6, <1>7, <1>8 DEF HomeInv, OwnersAgree

LEMMA HomeAgrees == IInv /\ HomeInv => ClientsAgree /\ HandlesHeld
<1> SUFFICES ASSUME IInv, HomeInv PROVE ClientsAgree /\ HandlesHeld
  OBVIOUS
<1>1. Bound
  BY DEF HomeInv, OwnersAgree
<1>2. \A c \in Client : clients[c] # None =>
        \A h \in Handle : clients[c].handles[h] \in Key \cup {None}
  BY DEF IInv, TypeOK, ClientType
<1>3. HandlesHeld
  BY <1>1, <1>2 DEF HandlesHeld, Bound
<1>4. ASSUME Quiet, NEW c \in Client, clients[c] # None
      PROVE  /\ clients[c].keys = {k \in Key : Held(k) /\ ent[k].client = c}
             /\ \A h \in Handle : clients[c].handles[h] \in
                 {k \in Key : Held(k) /\ ent[k].client = c /\ ent[k].handle = h} \cup {None}
  <2>1. \A t \in Thread : job[t].pc = "idle"
    BY <1>4 DEF Quiet, At
  <2>2. Known = {k \in Key : k < minted}
    BY <2>1 DEF Known, Asked
  <2>3. \A k, h : Owed(k, c, h) <=> Owned(k, c, h)
    BY <2>1 DEF Owed, Unbinding
  <2>4. \A k \in Key : Held(k) => k \in Known /\ ent[k].handle \in Handle \cup {None}
    BY <2>2 DEF IInv, TypeOK, Held, EntityType
  <2>5. \A k \in Key : k \in clients[c].keys <=> Held(k) /\ ent[k].client = c
    BY <1>1, <1>4, <2>3, <2>4 DEF Bound, Owned
  <2>6. clients[c].keys \subseteq Key
    BY <1>4 DEF IInv, TypeOK, ClientType
  <2>7. \A h \in Handle : clients[c].handles[h] \in
            {k \in Key : Held(k) /\ ent[k].client = c /\ ent[k].handle = h} \cup {None}
    BY <1>1, <1>2, <1>4, <2>3 DEF Bound, Owned
  <2>8. QED
    BY <2>5, <2>6, <2>7
<1>5. QED
  BY <1>3, <1>4 DEF ClientsAgree

(* Client::keys and Client::handles, kept under a lock of their own, agree *)
(* with Entities once nothing is under way: every ask is bound before the  *)
(* region can answer it, every record that goes is unbound by the thread   *)
(* that dropped it, and a handle is not asked for again before its client  *)
(* is free of it (ask_for, bind, release, forget, on_presence, sweep), for *)
(* any number of clients and regions, whatever comes late and however      *)
(* hasty the clients are, while entities stay in their regions.            *)
THEOREM ClientsAlwaysAgree == StayPut => (Spec => []ClientsAgree)
<1> SUFFICES ASSUME StayPut PROVE Spec => []ClientsAgree
  OBVIOUS
<1>1. Init => HomeInv
  BY InitHome
<1>2. IInv /\ HomeInv /\ [Next]_vars => HomeInv'
  BY NextHome
<1>3. IInv /\ HomeInv => ClientsAgree
  BY HomeAgrees
<1>4. QED
  BY <1>1, <1>2, <1>3, EdgeServerInvariant, PTL DEF Spec

(* "the handle index named an entity this client does not hold" (ask_for,  *)
(* forget): while entities stay in their regions it never does, in the     *)
(* middle of any step either.                                              *)
THEOREM HandlesAlwaysHeld == StayPut => (Spec => []HandlesHeld)
<1> SUFFICES ASSUME StayPut PROVE Spec => []HandlesHeld
  OBVIOUS
<1>1. Init => HomeInv
  BY InitHome
<1>2. IInv /\ HomeInv /\ [Next]_vars => HomeInv'
  BY NextHome
<1>3. IInv /\ HomeInv => HandlesHeld
  BY HomeAgrees
<1>4. QED
  BY <1>1, <1>2, <1>3, EdgeServerInvariant, PTL DEF Spec
=============================================================================
