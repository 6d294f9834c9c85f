--------------------------- MODULE SessionProofs ---------------------------
(***************************************************************************)
(* Proofs about Session, for any number of goroutines and services.        *)
(*                                                                         *)
(* The invariant says of each goroutine what the stages that are left for  *)
(* it rely upon: who holds the mutex and what has to happen before it is   *)
(* released, that the location is looked up before it is read, and that    *)
(* the context is checked before anything else.                            *)
(*                                                                         *)
(* That the best service is selected needs what the loops of OfType and    *)
(* SelectBest compute for every list: they are recursive functions, and    *)
(* induction on the length is made with the set of lengths for which the   *)
(* result is right (Induction).                                            *)
(***************************************************************************)
EXTENDS Session, SequenceTheorems, WellFoundedInduction, TLAPS

Stage == {"context", "backends", "location", "read", "request", "run", "lock", "unlock",
          "try", "locate"}

\* The values of the variables
Types ==
  /\ mu \in Callers \cup {None}
  /\ location \in BOOLEAN
  /\ method \in [Callers -> Methods]
  /\ todo \in [Callers -> Seq(Stage)]
  /\ done \in [Callers -> BOOLEAN]
  /\ result \in [Callers -> {"none", "running", "ok", "error"}]
  /\ doomed \in [Callers -> BOOLEAN]
  /\ attempted \in [Callers -> BOOLEAN]

\* Services are tried and the location is looked up at once; whatever is done
\* under a lock that the method itself takes is one request
Shape(s) ==
  /\ \A j \in 1..Len(s) : s[j] \in {"try", "locate"} => j = 1
  /\ \A j \in 1..Len(s) :
       s[j] = "lock" => Len(s) = j + 2 /\ s[j + 1] = "request" /\ s[j + 2] = "unlock"

\* The location is looked up before it is read
LooksUpFirst(s) ==
  \A j \in 1..Len(s) :
    s[j] = "read" => \E i \in 1..Len(s) : i < j /\ s[i] \in {"location", "locate"}

\* The goroutine is in a part of a method that holds the mutex
Holds(c) == \/ At(c, "try") \/ At(c, "locate")
            \/ todo[c] = <<"request", "unlock">>
            \/ todo[c] = <<"unlock">>

MethodInv(c) ==
  /\ Shape(todo[c])
  /\ location \/ LooksUpFirst(todo[c])
  /\ todo[c] # << >> => result[c] = "running"
  /\ At(c, "try") => mu = c /\ selected = None
  /\ At(c, "locate") => mu = c
  /\ mu = c => Holds(c) /\ result[c] = "running"
  /\ result[c] = "none" => ~attempted[c]
  /\ doomed[c] => /\ done[c] /\ ~attempted[c]
                  /\ todo[c] = << >> \/ At(c, "context")

CloseInv ==
  /\ closing # None => life = "closing"
  /\ closed # {} => life = "closed"
  /\ life = "closed" => resources = {}

IInv == Types /\ (\A c \in Callers : MethodInv(c)) /\ CloseInv

-----------------------------------------------------------------------------
(* The stages of a method.                                                 *)

\* The stages that are left when the first is over.
LEMMA Popped ==
  ASSUME NEW s \in Seq(Stage), s # << >>
  PROVE  /\ Tail(s) \in Seq(Stage)
         /\ Len(s) \in Nat /\ Len(s) >= 1
         /\ Len(Tail(s)) = Len(s) - 1
         /\ \A i \in 1..Len(s) - 1 : Tail(s)[i] = s[i + 1]
         /\ Head(s) = s[1]
  BY HeadTailProperties

\* A stage takes the place of the first one.
LEMMA Replaced ==
  ASSUME NEW s \in Seq(Stage), s # << >>, NEW x \in Stage
  PROVE  /\ <<x>> \o Tail(s) \in Seq(Stage)
         /\ Len(<<x>> \o Tail(s)) = Len(s)
         /\ (<<x>> \o Tail(s))[1] = x
         /\ \A i \in 2..Len(s) : (<<x>> \o Tail(s))[i] = s[i]
         /\ <<x>> \o Tail(s) # << >> /\ Head(<<x>> \o Tail(s)) = x
<1> DEFINE r == <<x>> \o Tail(s)
<1>1. /\ Tail(s) \in Seq(Stage) /\ Len(s) \in Nat /\ Len(s) >= 1
      /\ Len(Tail(s)) = Len(s) - 1 /\ \A i \in 1..Len(s) - 1 : Tail(s)[i] = s[i + 1]
  BY Popped
<1>2. <<x>> \in Seq(Stage) /\ Len(<<x>>) = 1 /\ <<x>>[1] = x
  OBVIOUS
<1>3. /\ r \in Seq(Stage) /\ Len(r) = 1 + Len(Tail(s))
      /\ \A i \in 1..Len(r) : r[i] = IF i <= 1 THEN <<x>>[i] ELSE Tail(s)[i - 1]
  BY <1>1, <1>2, ConcatProperties
<1> HIDE DEF r
<1>4. /\ Len(r) = Len(s) /\ r[1] = x /\ \A i \in 2..Len(s) : r[i] = s[i]
  BY <1>1, <1>2, <1>3
<1>5. r # << >> /\ Head(r) = x
  BY <1>1, <1>3, <1>4, HeadTailProperties
<1>6. QED
  BY <1>3, <1>4, <1>5 DEF r

LEMMA ShapePopped ==
  ASSUME NEW s \in Seq(Stage), s # << >>, Shape(s)
  PROVE  Shape(Tail(s))
  BY Popped DEF Shape

LEMMA ShapeReplaced ==
  ASSUME NEW s \in Seq(Stage), s # << >>, Shape(s), NEW x \in {"try", "locate"}
  PROVE  Shape(<<x>> \o Tail(s))
<1>0. x \in Stage
  BY DEF Stage
<1>1. PICK r : r = <<x>> \o Tail(s)
  OBVIOUS
<1>2. r \in Seq(Stage) /\ Len(r) = Len(s) /\ r[1] = x /\ \A i \in 2..Len(s) : r[i] = s[i]
  BY <1>0, <1>1, Replaced
<1>3. Len(s) \in Nat /\ Len(s) >= 1
  BY Popped
<1>4. \A j \in 1..Len(r) : r[j] \in {"try", "locate"} => j = 1
  BY <1>2, <1>3 DEF Shape
<1>5. ASSUME NEW j \in 1..Len(r), r[j] = "lock"
      PROVE  Len(r) = j + 2 /\ r[j + 1] = "request" /\ r[j + 2] = "unlock"
  <2>1. j \in 2..Len(s) /\ s[j] = "lock"
    BY <1>2, <1>3, <1>5
  <2>2. Len(s) = j + 2 /\ s[j + 1] = "request" /\ s[j + 2] = "unlock"
    BY <1>3, <2>1 DEF Shape
  <2>3. QED
    BY <1>2, <1>3, <2>1, <2>2
<1>6. QED
  BY <1>1, <1>4, <1>5 DEF Shape

\* The location is still looked up first when the first stage was another one.
LEMMA LooksUpPopped ==
  ASSUME NEW s \in Seq(Stage), s # << >>, LooksUpFirst(s), Head(s) \notin {"location", "locate"}
  PROVE  LooksUpFirst(Tail(s))
<1>1. /\ Tail(s) \in Seq(Stage) /\ Len(s) \in Nat /\ Len(s) >= 1
      /\ Len(Tail(s)) = Len(s) - 1 /\ \A i \in 1..Len(s) - 1 : Tail(s)[i] = s[i + 1]
      /\ s[1] \notin {"location", "locate"}
  BY Popped
<1>2. ASSUME NEW j \in 1..Len(Tail(s)), Tail(s)[j] = "read"
      PROVE  \E i \in 1..Len(Tail(s)) : i < j /\ Tail(s)[i] \in {"location", "locate"}
  <2>1. j + 1 \in 1..Len(s) /\ s[j + 1] = "read"
    BY <1>1, <1>2
  <2>2. PICK i \in 1..Len(s) : i < j + 1 /\ s[i] \in {"location", "locate"}
    BY <2>1 DEF LooksUpFirst
  <2>3. i # 1
    BY <1>1, <2>2
  <2>4. i - 1 \in 1..Len(Tail(s)) /\ i - 1 < j /\ Tail(s)[i - 1] = s[i]
    BY <1>1, <2>2, <2>3
  <2>5. QED
    BY <2>2, <2>4
<1>3. QED
  BY <1>2 DEF LooksUpFirst

LEMMA LooksUpReplaced ==
  ASSUME NEW s \in Seq(Stage), s # << >>, LooksUpFirst(s), NEW x \in {"try", "locate"},
         x = "try" => Head(s) = "backends"
  PROVE  LooksUpFirst(<<x>> \o Tail(s))
<1>0. x \in Stage
  BY DEF Stage
<1>1. PICK r : r = <<x>> \o Tail(s)
  OBVIOUS
<1>2. r \in Seq(Stage) /\ Len(r) = Len(s) /\ r[1] = x /\ \A i \in 2..Len(s) : r[i] = s[i]
  BY <1>0, <1>1, Replaced
<1>3. s[1] = Head(s) /\ Len(s) \in Nat
  BY Popped
<1>4. ASSUME NEW j \in 1..Len(r), r[j] = "read"
      PROVE  \E i \in 1..Len(r) : i < j /\ r[i] \in {"location", "locate"}
  <2>1. j # 1 /\ s[j] = "read"
    BY <1>1, <1>2, <1>3, <1>4
  <2>2. PICK i \in 1..Len(s) : i < j /\ s[i] \in {"location", "locate"}
    BY <1>2, <1>4, <2>1 DEF LooksUpFirst
  <2>3. CASE i = 1
    BY <1>1, <1>2, <1>3, <1>4, <2>2, <2>3
  <2>4. CASE i # 1
    BY <1>1, <1>2, <1>3, <2>2, <2>4
  <2>5. QED
    BY <2>3, <2>4
<1>5. QED
  BY <1>1, <1>2, <1>4 DEF LooksUpFirst

\* Two parts of a method, one after the other.
LEMMA Joined ==
  ASSUME NEW a \in Seq(Stage), NEW b \in Seq(Stage), NEW t \in Seq(Stage),
         Len(t) = Len(a) + Len(b), \A i \in 1..Len(a) : t[i] = a[i],
         \A i \in 1..Len(b) : t[Len(a) + i] = b[i]
  PROVE  a \o b = t
<1>1. /\ a \o b \in Seq(Stage) /\ Len(a \o b) = Len(a) + Len(b)
      /\ \A i \in 1..Len(a) + Len(b) : (a \o b)[i] = IF i <= Len(a) THEN a[i] ELSE b[i - Len(a)]
  BY ConcatProperties
<1>2. ASSUME NEW i \in 1..Len(a) + Len(b)
      PROVE  (a \o b)[i] = t[i]
  <2>1. Len(a) \in Nat /\ Len(b) \in Nat
    OBVIOUS
  <2>2. CASE i <= Len(a)
    BY <1>1, <2>1, <2>2
  <2>3. CASE i > Len(a)
    <3>1. i - Len(a) \in 1..Len(b) /\ Len(a) + (i - Len(a)) = i
      BY <2>1, <2>3
    <3>2. t[i] = b[i - Len(a)]
      BY <3>1
    <3>3. QED
      BY <1>1, <2>1, <2>3, <3>2
  <2>4. QED
    BY <2>1, <2>2, <2>3
<1>3. QED
  BY <1>1, <1>2, SeqEqual

\* Every method checks the context first, looks the location up before it reads
\* it, and has one request under the lock that it takes, if any.
LEMMA StagesShape ==
  ASSUME NEW m \in Methods
  PROVE  /\ Stages(m) \in Seq(Stage) /\ Stages(m) # << >> /\ Head(Stages(m)) = "context"
         /\ Shape(Stages(m)) /\ LooksUpFirst(Stages(m))
<1>0. newProbeServicesClient = <<"context", "backends", "context", "location">>
  <2> DEFINE a == <<"context", "backends">>
             b == <<"context", "location">>
             t == <<"context", "backends", "context", "location">>
  <2>1. a \in Seq(Stage) /\ b \in Seq(Stage) /\ t \in Seq(Stage)
    BY DEF Stage
  <2>2. a \o b = t
    <3>1. Len(t) = Len(a) + Len(b)
      OBVIOUS
    <3>2. \A i \in 1..Len(a) : t[i] = a[i]
      OBVIOUS
    <3>3. \A i \in 1..Len(b) : t[Len(a) + i] = b[i]
      OBVIOUS
    <3> HIDE DEF a, b, t
    <3>4. QED
      BY <2>1, <3>1, <3>2, <3>3, Joined
  <2>3. QED
    BY <2>2 DEF newProbeServicesClient, MaybeLookupLocation
<1>1. CASE m = "CheckIn"
  <2> DEFINE a == <<"context", "location">>
             b == <<"context", "backends", "context", "location">>
             c == <<"read", "request">>
             t1 == <<"context", "location", "context", "backends", "context", "location">>
             t2 == <<"context", "location", "context", "backends", "context", "location", "read", "request">>
  <2>1. a \in Seq(Stage) /\ b \in Seq(Stage) /\ c \in Seq(Stage)
    BY DEF Stage
  <2>2. t1 \in Seq(Stage)
    BY DEF Stage
  <2>3. a \o b = t1
    <3>1. Len(t1) = Len(a) + Len(b)
      OBVIOUS
    <3>2. \A i \in 1..Len(a) : t1[i] = a[i]
      OBVIOUS
    <3>3. \A i \in 1..Len(b) : t1[Len(a) + i] = b[i]
      OBVIOUS
    <3> HIDE DEF a, b, t1
    <3>4. QED
      BY <2>1, <2>2, <3>1, <3>2, <3>3, Joined
  <2>4. t2 \in Seq(Stage)
    BY DEF Stage
  <2>5. t1 \o c = t2
    <3>1. Len(t2) = Len(t1) + Len(c)
      OBVIOUS
    <3>2. \A i \in 1..Len(t1) : t2[i] = t1[i]
      OBVIOUS
    <3>3. \A i \in 1..Len(c) : t2[Len(t1) + i] = c[i]
      OBVIOUS
    <3> HIDE DEF t1, c, t2
    <3>4. QED
      BY <2>1, <2>2, <2>4, <3>1, <3>2, <3>3, Joined
  <2>6. Stages(m) = t2
    BY <1>0, <1>1, <2>3, <2>5 DEF Stages, CheckIn, MaybeLookupLocation
  <2>7. t2 # << >> /\ Head(t2) = "context" /\ Shape(t2) /\ LooksUpFirst(t2)
    BY DEF Shape, LooksUpFirst
  <2>8. QED
    BY <2>4, <2>6, <2>7
<1>2. CASE m = "FetchTorTargets"
  <2> DEFINE a == <<"context", "backends", "context", "location">>
             b == <<"request">>
             t1 == <<"context", "backends", "context", "location", "request">>
  <2>1. a \in Seq(Stage) /\ b \in Seq(Stage)
    BY DEF Stage
  <2>2. t1 \in Seq(Stage)
    BY DEF Stage
  <2>3. a \o b = t1
    <3>1. Len(t1) = Len(a) + Len(b)
      OBVIOUS
    <3>2. \A i \in 1..Len(a) : t1[i] = a[i]
      OBVIOUS
    <3>3. \A i \in 1..Len(b) : t1[Len(a) + i] = b[i]
      OBVIOUS
    <3> HIDE DEF a, b, t1
    <3>4. QED
      BY <2>1, <2>2, <3>1, <3>2, <3>3, Joined
  <2>4. Stages(m) = t1
    BY <1>0, <1>2, <2>3 DEF Stages, FetchTorTargets, MaybeLookupLocation
  <2>5. t1 # << >> /\ Head(t1) = "context" /\ Shape(t1) /\ LooksUpFirst(t1)
    BY DEF Shape, LooksUpFirst
  <2>6. QED
    BY <2>2, <2>4, <2>5
<1>3. CASE m = "FetchOpenVPNConfig"
  <2> DEFINE a == <<"context", "backends", "context", "location">>
             b == <<"request">>
             c == <<"context", "location">>
             d == <<"lock", "request", "unlock">>
             t1 == <<"context", "backends", "context", "location", "request">>
             t2 == <<"context", "backends", "context", "location", "request", "context", "location">>
             t3 == <<"context", "backends", "context", "location", "request", "context", "location", "lock", "request", "unlock">>
  <2>1. a \in Seq(Stage) /\ b \in Seq(Stage) /\ c \in Seq(Stage) /\ d \in Seq(Stage)
    BY DEF Stage
  <2>2. t1 \in Seq(Stage)
    BY DEF Stage
  <2>3. a \o b = t1
    <3>1. Len(t1) = Len(a) + Len(b)
      OBVIOUS
    <3>2. \A i \in 1..Len(a) : t1[i] = a[i]
      OBVIOUS
    <3>3. \A i \in 1..Len(b) : t1[Len(a) + i] = b[i]
      OBVIOUS
    <3> HIDE DEF a, b, t1
    <3>4. QED
      BY <2>1, <2>2, <3>1, <3>2, <3>3, Joined
  <2>4. t2 \in Seq(Stage)
    BY DEF Stage
  <2>5. t1 \o c = t2
    <3>1. Len(t2) = Len(t1) + Len(c)
      OBVIOUS
    <3>2. \A i \in 1..Len(t1) : t2[i] = t1[i]
      OBVIOUS
    <3>3. \A i \in 1..Len(c) : t2[Len(t1) + i] = c[i]
      OBVIOUS
    <3> HIDE DEF t1, c, t2
    <3>4. QED
      BY <2>1, <2>2, <2>4, <3>1, <3>2, <3>3, Joined
  <2>6. t3 \in Seq(Stage)
    BY DEF Stage
  <2>7. t2 \o d = t3
    <3>1. Len(t3) = Len(t2) + Len(d)
      OBVIOUS
    <3>2. \A i \in 1..Len(t2) : t3[i] = t2[i]
      OBVIOUS
    <3>3. \A i \in 1..Len(d) : t3[Len(t2) + i] = d[i]
      OBVIOUS
    <3> HIDE DEF t2, d, t3
    <3>4. QED
      BY <2>1, <2>4, <2>6, <3>1, <3>2, <3>3, Joined
  <2>8. Stages(m) = t3
    BY <1>0, <1>3, <2>3, <2>5, <2>7 DEF Stages, FetchOpenVPNConfig, MaybeLookupLocation
  <2>9. t3 # << >> /\ Head(t3) = "context" /\ Shape(t3) /\ LooksUpFirst(t3)
    BY DEF Shape, LooksUpFirst
  <2>10. QED
    BY <2>6, <2>8, <2>9
<1>4. CASE m = "MeasureWithContext"
  <2> DEFINE a == <<"context", "location">>
             b == <<"read", "run", "read">>
             t1 == <<"context", "location", "read", "run", "read">>
  <2>1. a \in Seq(Stage) /\ b \in Seq(Stage)
    BY DEF Stage
  <2>2. t1 \in Seq(Stage)
    BY DEF Stage
  <2>3. a \o b = t1
    <3>1. Len(t1) = Len(a) + Len(b)
      OBVIOUS
    <3>2. \A i \in 1..Len(a) : t1[i] = a[i]
      OBVIOUS
    <3>3. \A i \in 1..Len(b) : t1[Len(a) + i] = b[i]
      OBVIOUS
    <3> HIDE DEF a, b, t1
    <3>4. QED
      BY <2>1, <2>2, <3>1, <3>2, <3>3, Joined
  <2>4. Stages(m) = t1
    BY <1>0, <1>4, <2>3 DEF Stages, MeasureWithContext, MaybeLookupLocation
  <2>5. t1 # << >> /\ Head(t1) = "context" /\ Shape(t1) /\ LooksUpFirst(t1)
    BY DEF Shape, LooksUpFirst
  <2>6. QED
    BY <2>2, <2>4, <2>5
<1>5. QED
  BY <1>1, <1>2, <1>3, <1>4 DEF Methods

-----------------------------------------------------------------------------
(* The steps.                                                              *)

\* What one goroutine does to the mutex, the location and the services does not
\* disturb the others.
LEMMA OthersStay ==
  ASSUME Types, NEW c \in Callers, NEW d \in Callers, d # c, MethodInv(d),
         todo'[d] = todo[d], result'[d] = result[d], done'[d] = done[d], doomed'[d] = doomed[d],
         attempted'[d] = attempted[d], location => location',
         mu' = mu \/ (mu = None /\ mu' = c) \/ (mu = c /\ mu' = None),
         selected' = selected \/ mu = c
  PROVE  MethodInv(d)'
<1>1. None # d
  BY SessionAssumption
<1>2. \A x : At(d, x)' = At(d, x)
  BY DEF At
<1>3. Holds(d)' = Holds(d)
  BY <1>2 DEF Holds
<1>4. Shape(todo[d])' /\ (location' \/ LooksUpFirst(todo[d])')
  BY DEF MethodInv, Shape, LooksUpFirst
<1>5. /\ At(d, "try")' => mu' = d /\ selected' = None
      /\ At(d, "locate")' => mu' = d
      /\ mu' = d => mu = d
  BY <1>1, <1>2 DEF MethodInv
<1>6. Shape(todo'[d]) /\ (location' \/ LooksUpFirst(todo'[d]))
  BY <1>4 DEF Shape, LooksUpFirst
<1>7. QED
  BY <1>2, <1>3, <1>5, <1>6 DEF MethodInv

\* A stage of a method ends the method, gives way to the next stage, or becomes
\* the one in which something is looked up.
LEMMA StageEnds ==
  ASSUME Types, NEW c \in Callers, MethodInv(c), todo[c] # << >>, todo'[c] \in Seq(Stage),
         doomed'[c] = doomed[c], done'[c] = done[c], doomed[c] => attempted'[c] = attempted[c],
         location => location',
         \/ todo'[c] = << >> /\ result'[c] = "error" /\ mu' # c
         \/ /\ todo'[c] = Tail(todo[c]) /\ result'[c] = result[c] /\ ~ doomed[c]
            /\ Head(todo[c]) \in {"location", "locate"} => location'
            /\ mu' = c => todo'[c] \in {<<"request", "unlock">>, <<"unlock">>}
         \/ \E x \in {"try", "locate"} :
              /\ todo'[c] = <<x>> \o Tail(todo[c]) /\ result'[c] = result[c] /\ ~ doomed[c]
              /\ x = "try" => Head(todo[c]) = "backends" /\ selected' = None
              /\ mu' = c
  PROVE  MethodInv(c)'
<1>1. /\ todo[c] \in Seq(Stage) /\ Shape(todo[c]) /\ result[c] = "running"
      /\ location \/ LooksUpFirst(todo[c])
  BY DEF Types, MethodInv
<1>2. CASE todo'[c] = << >> /\ result'[c] = "error" /\ mu' # c
  <2>1. Len(todo'[c]) = 0 /\ \A x : ~ At(c, x)'
    BY <1>2 DEF At
  <2>2. Shape(todo'[c]) /\ LooksUpFirst(todo'[c])
    BY <2>1 DEF Shape, LooksUpFirst
  <2>3. QED
    BY <1>2, <2>1, <2>2 DEF MethodInv
<1>3. CASE /\ todo'[c] = Tail(todo[c]) /\ result'[c] = result[c] /\ ~ doomed[c]
           /\ Head(todo[c]) \in {"location", "locate"} => location'
           /\ mu' = c => todo'[c] \in {<<"request", "unlock">>, <<"unlock">>}
  <2>1. Shape(todo'[c]) /\ (location' \/ LooksUpFirst(todo'[c]))
    BY <1>1, <1>3, ShapePopped, LooksUpPopped
  <2>2. ~ At(c, "try")' /\ ~ At(c, "locate")'
    <3>1. ASSUME todo'[c] # << >>
          PROVE  Head(todo'[c]) \notin {"try", "locate"}
      <4>1. /\ Len(todo[c]) \in Nat /\ Len(todo'[c]) = Len(todo[c]) - 1
            /\ \A i \in 1..Len(todo[c]) - 1 : todo'[c][i] = todo[c][i + 1]
        BY <1>1, <1>3, Popped
      <4>2. Len(todo'[c]) >= 1 /\ Head(todo'[c]) = todo'[c][1]
        BY <3>1, Popped
      <4>3. Head(todo'[c]) = todo[c][2] /\ 2 \in 1..Len(todo[c])
        BY <4>1, <4>2
      <4>4. QED
        BY <1>1, <4>3 DEF Shape
    <3>2. QED
      BY <3>1 DEF At
  <2>3. mu' = c => Holds(c)'
    BY <1>3 DEF Holds
  <2>4. QED
    BY <1>1, <1>3, <2>1, <2>2, <2>3 DEF MethodInv
<1>4. ASSUME NEW x \in {"try", "locate"},
             todo'[c] = <<x>> \o Tail(todo[c]), result'[c] = result[c], ~ doomed[c],
             x = "try" => Head(todo[c]) = "backends" /\ selected' = None,
             mu' = c
      PROVE  MethodInv(c)'
  <2>1. Shape(todo'[c]) /\ (location' \/ LooksUpFirst(todo'[c]))
    BY <1>1, <1>4, ShapeReplaced, LooksUpReplaced
  <2>2. todo'[c] # << >> /\ Head(todo'[c]) = x
    <3>1. x \in Stage
      BY DEF Stage
    <3>2. QED
      BY <1>1, <1>4, <3>1, Replaced
  <2>3. Holds(c)' /\ (At(c, "try")' => x = "try")
    BY <2>2 DEF Holds, At
  <2>4. QED
    BY <1>1, <1>4, <2>1, <2>3 DEF MethodInv
<1>5. QED
  BY <1>2, <1>3, <1>4

\* A goroutine that is at a stage knows who holds the mutex.
LEMMA AtStage ==
  ASSUME Types, NEW c \in Callers, MethodInv(c), NEW x, At(c, x)
  PROVE  /\ todo[c] \in Seq(Stage) /\ todo[c] # << >> /\ Head(todo[c]) = x
         /\ result[c] = "running"
         /\ x # "context" => ~ doomed[c]
         /\ mu = c => x \in {"try", "locate", "request", "unlock"}
         /\ mu = c /\ x = "request" => Tail(todo[c]) = <<"unlock">>
<1>1. todo[c] \in Seq(Stage) /\ todo[c] # << >> /\ Head(todo[c]) = x /\ result[c] = "running"
  BY DEF Types, MethodInv, At
<1>2. x # "context" => ~ doomed[c]
  BY <1>1 DEF MethodInv, At
<1>3. /\ Head(<<"request", "unlock">>) = "request" /\ Head(<<"unlock">>) = "unlock"
      /\ Tail(<<"request", "unlock">>) = <<"unlock">>
  OBVIOUS
<1>4. mu = c => Holds(c)
  BY DEF MethodInv
<1>5. QED
  BY <1>1, <1>2, <1>3, <1>4 DEF Holds, At

\* A goroutine goes on to its next stage, or fails.
LEMMA Moving ==
  ASSUME Types, NEW c \in Callers, todo[c] # << >>
  PROVE  /\ Advance(c) => /\ todo' \in [Callers -> Seq(Stage)] /\ result' = result
                          /\ todo'[c] = Tail(todo[c])
                          /\ \A d \in Callers : d # c => todo'[d] = todo[d]
         /\ Fail(c) => /\ todo' \in [Callers -> Seq(Stage)]
                       /\ result' \in [Callers -> {"none", "running", "ok", "error"}]
                       /\ todo'[c] = << >> /\ result'[c] = "error"
                       /\ \A d \in Callers : d # c => todo'[d] = todo[d] /\ result'[d] = result[d]
         /\ \A x \in {"try", "locate"} : todo' = [todo EXCEPT ![c] = <<x>> \o Tail(@)] =>
              /\ todo' \in [Callers -> Seq(Stage)] /\ todo'[c] = <<x>> \o Tail(todo[c])
              /\ \A d \in Callers : d # c => todo'[d] = todo[d]
<1>1. todo \in [Callers -> Seq(Stage)] /\ todo[c] \in Seq(Stage)
      /\ result \in [Callers -> {"none", "running", "ok", "error"}]
  BY DEF Types
<1>2. Tail(todo[c]) \in Seq(Stage)
  BY <1>1, Popped
<1>3. << >> \in Seq(Stage)
  OBVIOUS
<1>4. \A x \in {"try", "locate"} : <<x>> \o Tail(todo[c]) \in Seq(Stage)
  <2>1. "try" \in Stage /\ "locate" \in Stage
    BY DEF Stage
  <2>2. QED
    BY <1>1, <2>1, Replaced
<1>5. Advance(c) => /\ todo' \in [Callers -> Seq(Stage)] /\ result' = result
                    /\ todo'[c] = Tail(todo[c])
                    /\ \A d \in Callers : d # c => todo'[d] = todo[d]
  BY <1>1, <1>2 DEF Advance
<1>6. Fail(c) => /\ todo' \in [Callers -> Seq(Stage)]
                 /\ result' \in [Callers -> {"none", "running", "ok", "error"}]
                 /\ todo'[c] = << >> /\ result'[c] = "error"
                 /\ \A d \in Callers : d # c => todo'[d] = todo[d] /\ result'[d] = result[d]
  BY <1>1, <1>3 DEF Fail
<1>7. ASSUME NEW x \in {"try", "locate"}, todo' = [todo EXCEPT ![c] = <<x>> \o Tail(@)]
      PROVE  /\ todo' \in [Callers -> Seq(Stage)] /\ todo'[c] = <<x>> \o Tail(todo[c])
             /\ \A d \in Callers : d # c => todo'[d] = todo[d]
  <2>1. PICK r \in Seq(Stage) : r = <<x>> \o Tail(todo[c])
    BY <1>4
  <2>2. todo' = [todo EXCEPT ![c] = r]
    BY <1>7, <2>1
  <2>3. QED
    BY <1>1, <2>1, <2>2
<1>8. QED
  BY <1>5, <1>6, <1>7

\* A goroutine tries to use the network.
LEMMA Attempting ==
  ASSUME Types, NEW c \in Callers, Attempt(c)
  PROVE  /\ attempted' \in [Callers -> BOOLEAN]
         /\ \A d \in Callers : d # c => attempted'[d] = attempted[d]
  BY DEF Types, Attempt

\* The stages of the methods, whoever is at which.
LEMMA StepNext ==
  ASSUME IInv, NEW c \in Callers, Step(c)
  PROVE  IInv'
<1>1. Types /\ MethodInv(c) /\ CloseInv /\ None # c /\ \A d \in Callers : MethodInv(d)
  BY SessionAssumption DEF IInv
<1>2. /\ mu \in Callers \cup {None} /\ location \in BOOLEAN
      /\ attempted \in [Callers -> BOOLEAN]
      /\ result \in [Callers -> {"none", "running", "ok", "error"}]
  BY <1>1 DEF Types
<1>3. UNCHANGED <<resources, life, closing, closed, method, done, doomed>>
  BY DEF Step, Return, CheckContext, Read, Request, Run, Lock, Unlock, BackendsKnown,
     LookupBackends, Try, SelectBackend, LocationKnown, LookupLocation, Locate, lifecycle, history
<1>4. CloseInv'
  BY <1>1, <1>3 DEF CloseInv
<1> DEFINE
      Ends == /\ todo' \in [Callers -> Seq(Stage)]
              /\ result' \in [Callers -> {"none", "running", "ok", "error"}]
              /\ \A d \in Callers : d # c => todo'[d] = todo[d] /\ result'[d] = result[d]
              /\ \/ todo'[c] = << >> /\ result'[c] = "error" /\ mu' # c
                 \/ /\ todo'[c] = Tail(todo[c]) /\ result'[c] = result[c] /\ ~ doomed[c]
                    /\ Head(todo[c]) \in {"location", "locate"} => location'
                    /\ mu' = c => todo'[c] \in {<<"request", "unlock">>, <<"unlock">>}
                 \/ \E x \in {"try", "locate"} :
                      /\ todo'[c] = <<x>> \o Tail(todo[c]) /\ result'[c] = result[c] /\ ~ doomed[c]
                      /\ x = "try" => Head(todo[c]) = "backends" /\ selected' = None
                      /\ mu' = c
      Attempts == /\ attempted' \in [Callers -> BOOLEAN]
                  /\ \A d \in Callers : d # c => attempted'[d] = attempted[d]
                  /\ doomed[c] => attempted'[c] = attempted[c]
      Locks == mu' = mu \/ (mu = None /\ mu' = c) \/ (mu = c /\ mu' = None)
<1>5. ASSUME todo[c] # << >>, Ends, Attempts, Locks,
             location' \in BOOLEAN, location => location', selected' = selected \/ mu = c
      PROVE  IInv'
  <2>1. Types'
    BY <1>1, <1>2, <1>3, <1>5 DEF Types
  <2>2. MethodInv(c)'
    BY <1>1, <1>3, <1>5, StageEnds
  <2>3. \A d \in Callers : d # c => MethodInv(d)'
    BY <1>1, <1>3, <1>5, OthersStay
  <2>4. QED
    BY <1>4, <2>1, <2>2, <2>3 DEF IInv
<1>6. attempted' = attempted => Attempts
  BY <1>2
<1>7. Unlocked(c) # c /\ (mu' = Unlocked(c) => Locks)
  BY <1>1 DEF Unlocked
<1>8. ASSUME NEW x, At(c, x), x # "context", Attempt(c)
      PROVE  Attempts
  BY <1>1, <1>8, AtStage, Attempting
<1>9. CASE Return(c)
  <2>1. /\ todo[c] = << >> /\ result' = [result EXCEPT ![c] = "ok"]
        /\ UNCHANGED <<mu, selected, location, todo, attempted>>
    BY <1>9 DEF Return, lookups, history
  <2>2. Types'
    BY <1>1, <1>2, <1>3, <2>1 DEF Types
  <2>3. mu # c
    <3>1. \A x : ~ At(c, x)
      BY <2>1 DEF At
    <3>2. ~ Holds(c)
      BY <2>1, <3>1 DEF Holds
    <3>3. QED
      BY <1>1, <3>2 DEF MethodInv
  <2>4. MethodInv(c)'
    <3>1. result'[c] = "ok" /\ (\A x : ~ At(c, x)') /\ todo'[c] = << >>
      BY <1>2, <2>1 DEF At
    <3>2. Shape(todo'[c]) /\ LooksUpFirst(todo'[c])
      BY <3>1 DEF Shape, LooksUpFirst
    <3>3. doomed'[c] => done'[c] /\ ~ attempted'[c]
      BY <1>1, <1>3, <2>1 DEF MethodInv
    <3>4. QED
      BY <2>1, <2>3, <3>1, <3>2, <3>3 DEF MethodInv
  <2>5. \A d \in Callers : d # c => MethodInv(d)'
    BY <1>1, <1>2, <1>3, <2>1, OthersStay
  <2>6. QED
    BY <1>4, <2>2, <2>4, <2>5 DEF IInv
<1>10. CASE CheckContext(c)
  <2>1. At(c, "context") /\ UNCHANGED <<mu, selected, location, attempted>>
    BY <1>10 DEF CheckContext, lookups, history
  <2>2. todo[c] # << >> /\ mu # c /\ Head(todo[c]) = "context"
    BY <1>1, <2>1, AtStage
  <2>3. CASE Fail(c)
    BY <1>1, <1>2, <1>5, <1>6, <2>1, <2>2, <2>3, Moving
  <2>4. CASE Advance(c) /\ ~ done[c]
    <3>1. ~ doomed[c]
      BY <1>1, <2>4 DEF MethodInv
    <3>2. QED
      BY <1>1, <1>2, <1>5, <1>6, <2>1, <2>2, <2>4, <3>1, Moving
  <2>5. QED
    BY <1>10, <2>3, <2>4 DEF CheckContext
<1>11. ASSUME NEW x \in {"read", "backends", "location"}, At(c, x), mu = None, Advance(c),
              UNCHANGED <<mu, selected, location, attempted>>, x = "location" => location
       PROVE  IInv'
  <2>1. todo[c] # << >> /\ ~ doomed[c] /\ Head(todo[c]) = x
    BY <1>1, <1>11, AtStage
  <2>2. QED
    BY <1>1, <1>2, <1>5, <1>6, <1>11, <2>1, Moving
<1>12. CASE Read(c) \/ BackendsKnown(c) \/ LocationKnown(c)
  BY <1>11, <1>12 DEF Read, BackendsKnown, LocationKnown, lookups, history
<1>13. CASE Request(c)
  <2>1. At(c, "request") /\ Attempt(c) /\ UNCHANGED <<selected, location>>
    BY <1>13 DEF Request, lookups
  <2>2. /\ todo[c] # << >> /\ ~ doomed[c] /\ Head(todo[c]) = "request"
        /\ mu = c => Tail(todo[c]) = <<"unlock">>
    BY <1>1, <2>1, AtStage
  <2>3. CASE Advance(c) /\ mu' = mu
    BY <1>1, <1>2, <1>5, <1>8, <2>1, <2>2, <2>3, Moving
  <2>4. CASE Fail(c) /\ mu' = Unlocked(c)
    BY <1>1, <1>2, <1>5, <1>7, <1>8, <2>1, <2>2, <2>4, Moving
  <2>5. QED
    BY <1>13, <2>3, <2>4 DEF Request
<1>14. CASE Run(c)
  <2>1. At(c, "run") /\ Attempt(c) /\ UNCHANGED <<mu, selected, location>>
    BY <1>14 DEF Run, lookups
  <2>2. todo[c] # << >> /\ ~ doomed[c] /\ Head(todo[c]) = "run" /\ mu # c
    BY <1>1, <2>1, AtStage
  <2>3. CASE Advance(c)
    BY <1>1, <1>2, <1>5, <1>8, <2>1, <2>2, <2>3, Moving
  <2>4. CASE Fail(c)
    BY <1>1, <1>2, <1>5, <1>8, <2>1, <2>2, <2>4, Moving
  <2>5. QED
    BY <1>14, <2>3, <2>4 DEF Run
<1>15. CASE Lock(c)
  <2>1. /\ At(c, "lock") /\ mu = None /\ mu' = c /\ Advance(c)
        /\ UNCHANGED <<selected, location, attempted>>
    BY <1>15 DEF Lock, lookups, history
  <2>2. /\ todo[c] \in Seq(Stage) /\ todo[c] # << >> /\ ~ doomed[c] /\ Head(todo[c]) = "lock"
        /\ Shape(todo[c])
    BY <1>1, <2>1, AtStage DEF MethodInv
  <2>3. Tail(todo[c]) = <<"request", "unlock">>
    <3>1. /\ Tail(todo[c]) \in Seq(Stage) /\ Len(todo[c]) >= 1 /\ Len(todo[c]) \in Nat
          /\ Len(Tail(todo[c])) = Len(todo[c]) - 1 /\ todo[c][1] = "lock"
          /\ \A i \in 1..Len(todo[c]) - 1 : Tail(todo[c])[i] = todo[c][i + 1]
      BY <2>2, Popped
    <3>2. Len(todo[c]) = 3 /\ todo[c][2] = "request" /\ todo[c][3] = "unlock"
      <4>1. 1 \in 1..Len(todo[c])
        BY <3>1
      <4>2. Len(todo[c]) = 1 + 2 /\ todo[c][1 + 1] = "request" /\ todo[c][1 + 2] = "unlock"
        BY <2>2, <3>1, <4>1, Zenon DEF Shape
      <4>3. QED
        BY <4>2
    <3>3. Len(Tail(todo[c])) = 2 /\ Tail(todo[c])[1] = "request" /\ Tail(todo[c])[2] = "unlock"
      BY <3>1, <3>2
    <3>4. /\ <<"request", "unlock">> \in Seq(Stage) /\ Len(<<"request", "unlock">>) = 2
          /\ <<"request", "unlock">>[1] = "request" /\ <<"request", "unlock">>[2] = "unlock"
      BY DEF Stage
    <3>5. PICK t \in Seq(Stage) : /\ t = <<"request", "unlock">> /\ Len(t) = 2
                                  /\ t[1] = "request" /\ t[2] = "unlock"
      BY <3>4
    <3>6. \A i \in 1..2 : Tail(todo[c])[i] = t[i]
      BY <3>3, <3>5
    <3>7. QED
      BY <3>1, <3>3, <3>5, <3>6, SeqEqual
  <2>4. QED
    BY <1>1, <1>2, <1>5, <1>6, <2>1, <2>2, <2>3, Moving
<1>16. CASE Unlock(c)
  <2>1. /\ At(c, "unlock") /\ mu' = Unlocked(c) /\ Advance(c)
        /\ UNCHANGED <<selected, location, attempted>>
    BY <1>16 DEF Unlock, lookups, history
  <2>2. todo[c] # << >> /\ ~ doomed[c] /\ Head(todo[c]) = "unlock"
    BY <1>1, <2>1, AtStage
  <2>3. QED
    BY <1>1, <1>2, <1>5, <1>6, <1>7, <2>1, <2>2, Moving
<1>17. CASE LookupBackends(c)
  <2>1. /\ At(c, "backends") /\ mu = None /\ mu' = c /\ selected = None
        /\ todo' = [todo EXCEPT ![c] = <<"try">> \o Tail(@)]
        /\ UNCHANGED <<selected, location, attempted, result>>
    BY <1>17 DEF LookupBackends, lookups, history
  <2>2. todo[c] # << >> /\ ~ doomed[c] /\ Head(todo[c]) = "backends"
    BY <1>1, <2>1, AtStage
  <2>3. QED
    BY <1>1, <1>2, <1>5, <1>6, <2>1, <2>2, Moving
<1>18. CASE LookupLocation(c)
  <2>1. /\ At(c, "location") /\ mu = None /\ mu' = c
        /\ todo' = [todo EXCEPT ![c] = <<"locate">> \o Tail(@)]
        /\ UNCHANGED <<selected, location, attempted, result>>
    BY <1>18 DEF LookupLocation, lookups, history
  <2>2. todo[c] # << >> /\ ~ doomed[c] /\ Head(todo[c]) = "location"
    BY <1>1, <2>1, AtStage
  <2>3. QED
    BY <1>1, <1>2, <1>5, <1>6, <2>1, <2>2, Moving
<1>19. CASE Locate(c)
  <2>1. At(c, "locate") /\ Attempt(c) /\ mu' = Unlocked(c) /\ selected' = selected
    BY <1>19 DEF Locate
  <2>2. todo[c] # << >> /\ ~ doomed[c] /\ Head(todo[c]) = "locate"
    BY <1>1, <2>1, AtStage
  <2>3. CASE Advance(c) /\ location' = TRUE
    BY <1>1, <1>2, <1>5, <1>7, <1>8, <2>1, <2>2, <2>3, Moving
  <2>4. CASE Fail(c) /\ location' = location
    BY <1>1, <1>2, <1>5, <1>7, <1>8, <2>1, <2>2, <2>4, Moving
  <2>5. QED
    BY <1>19, <2>3, <2>4 DEF Locate
<1>20. CASE SelectBackend(c)
  <2>1. At(c, "try") /\ mu' = Unlocked(c) /\ UNCHANGED <<location, attempted>>
    BY <1>20 DEF SelectBackend, history
  <2>2. todo[c] # << >> /\ ~ doomed[c] /\ Head(todo[c]) = "try" /\ mu = c
    BY <1>1, <2>1, AtStage DEF MethodInv
  <2>3. CASE Advance(c)
    BY <1>1, <1>2, <1>5, <1>6, <1>7, <2>1, <2>2, <2>3, Moving
  <2>4. CASE Fail(c)
    BY <1>1, <1>2, <1>5, <1>6, <1>7, <2>1, <2>2, <2>4, Moving
  <2>5. QED
    BY <1>20, <2>3, <2>4 DEF SelectBackend
<1>21. CASE Try(c)
  <2>1. At(c, "try") /\ UNCHANGED <<mu, selected, location, todo, result>>
        /\ (attempted' = attempted \/ Attempt(c))
    BY <1>21 DEF Try, lookups
  <2>2. Attempts /\ ~ doomed[c]
    BY <1>1, <1>6, <1>8, <2>1, AtStage
  <2>3. Types'
    BY <1>1, <1>2, <1>3, <2>1, <2>2 DEF Types
  <2>4. MethodInv(c)'
    <3>1. (\A x : At(c, x)' = At(c, x)) /\ result[c] = "running"
      BY <1>1, <2>1, AtStage DEF At
    <3>2. Holds(c)' = Holds(c)
      BY <2>1, <3>1 DEF Holds
    <3>3. Shape(todo'[c]) /\ (location' \/ LooksUpFirst(todo'[c]))
      BY <1>1, <2>1 DEF MethodInv
    <3>4. QED
      BY <1>1, <1>3, <2>1, <2>2, <3>1, <3>2, <3>3 DEF MethodInv
  <2>5. \A d \in Callers : d # c => MethodInv(d)'
    BY <1>1, <1>2, <1>3, <2>1, <2>2, OthersStay
  <2>6. QED
    BY <1>4, <2>3, <2>4, <2>5 DEF IInv
<1>22. QED
  BY <1>9, <1>10, <1>12, <1>13, <1>14, <1>15, <1>16, <1>17, <1>18, <1>19, <1>20, <1>21 DEF Step

\* NewSession, the calls, the cancellations, and Close.
LEMMA InvNext ==
  ASSUME IInv, [Next]_vars
  PROVE  IInv'
<1>1. Types /\ CloseInv /\ \A c \in Callers : MethodInv(c)
  BY DEF IInv
<1>2. /\ todo \in [Callers -> Seq(Stage)] /\ done \in [Callers -> BOOLEAN]
      /\ result \in [Callers -> {"none", "running", "ok", "error"}]
      /\ doomed \in [Callers -> BOOLEAN] /\ method \in [Callers -> Methods]
  BY <1>1 DEF Types
<1>3. ASSUME UNCHANGED <<mu, lookups, calls, done, history>>
      PROVE  Types' /\ \A c \in Callers : MethodInv(c)'
  <2>1. UNCHANGED <<mu, selected, location, method, todo, result, done, doomed, attempted>>
    BY <1>3 DEF lookups, calls, history
  <2>2. Types'
    BY <1>1, <2>1 DEF Types
  <2>3. ASSUME NEW c \in Callers
        PROVE  MethodInv(c)'
    <3>1. MethodInv(c)
      BY <1>1
    <3>2. QED
      BY <2>1, <3>1 DEF MethodInv, Shape, LooksUpFirst, Holds, At
  <2>4. QED
    BY <2>2, <2>3
<1>4. ASSUME NewSession \/ \E k \in Closers : Close(k) \/ doClose(k) \/ CloseDone(k) \/ CloseAgain(k)
      PROVE  IInv'
  <2>1. UNCHANGED <<mu, lookups, calls, done, history>>
    BY <1>4 DEF NewSession, Close, doClose, CloseDone, CloseAgain
  <2>2. ASSUME NewSession
        PROVE  CloseInv'
    BY <1>1, <2>2 DEF NewSession, CloseInv
  <2>3. ASSUME NEW k \in Closers, Close(k) \/ doClose(k) \/ CloseDone(k) \/ CloseAgain(k)
        PROVE  CloseInv'
    <3>1. k # None
      BY SessionAssumption
    <3>2. CASE Close(k)
      BY <1>1, <3>2 DEF Close, CloseInv
    <3>3. CASE doClose(k)
      BY <1>1, <3>1, <3>3 DEF doClose, CloseInv
    <3>4. CASE CloseDone(k)
      BY <1>1, <3>1, <3>4 DEF CloseDone, CloseInv
    <3>5. CASE CloseAgain(k)
      BY <1>1, <3>5 DEF CloseAgain, CloseInv
    <3>6. QED
      BY <2>3, <3>2, <3>3, <3>4, <3>5
  <2>4. CloseInv'
    BY <1>4, <2>2, <2>3
  <2>5. QED
    BY <1>3, <2>1, <2>4 DEF IInv
<1>5. ASSUME NEW c \in Callers, Begin(c)
      PROVE  IInv'
  <2>1. /\ result[c] = "none"
        /\ result' = [result EXCEPT ![c] = "running"]
        /\ todo' = [todo EXCEPT ![c] = Stages(method[c])]
        /\ doomed' = [doomed EXCEPT ![c] = done[c]]
        /\ UNCHANGED <<mu, selected, location, method, done, attempted, resources, life, closing,
                       closed>>
    BY <1>5 DEF Begin, lookups, lifecycle
  <2>2. PICK s \in Seq(Stage) : /\ s = Stages(method[c]) /\ s # << >> /\ Head(s) = "context"
                                /\ Shape(s) /\ LooksUpFirst(s)
    BY <1>2, StagesShape
  <2>3. todo' = [todo EXCEPT ![c] = s]
    BY <2>1, <2>2
  <2>4. todo'[c] = s /\ result'[c] = "running" /\ doomed'[c] = done[c]
    BY <1>2, <2>1, <2>3
  <2>5. \A d \in Callers : d # c => /\ todo'[d] = todo[d] /\ result'[d] = result[d]
                                    /\ doomed'[d] = doomed[d]
    BY <1>2, <2>1, <2>3
  <2>6. Types'
    BY <1>1, <1>2, <2>1, <2>3 DEF Types
  <2>7. MethodInv(c)'
    <3>1. ~ attempted[c] /\ mu # c
      BY <1>1, <2>1 DEF MethodInv
    <3>2. At(c, "context")' /\ ~ At(c, "try")' /\ ~ At(c, "locate")'
      BY <2>2, <2>4 DEF At
    <3>3. QED
      BY <2>1, <2>2, <2>4, <3>1, <3>2 DEF MethodInv
  <2>8. \A d \in Callers : d # c => MethodInv(d)'
    BY <1>1, <2>1, <2>5, OthersStay
  <2>9. CloseInv'
    BY <1>1, <2>1 DEF CloseInv
  <2>10. QED
    BY <2>6, <2>7, <2>8, <2>9 DEF IInv
<1>6. ASSUME NEW c \in Callers, Cancel(c)
      PROVE  IInv'
  <2>1. /\ done' = [done EXCEPT ![c] = TRUE]
        /\ UNCHANGED <<mu, selected, location, method, todo, result, attempted, doomed, resources,
                       life, closing, closed>>
    BY <1>6 DEF Cancel, lookups, calls, lifecycle, history
  <2>2. Types'
    BY <1>1, <1>2, <2>1 DEF Types
  <2>3. ASSUME NEW d \in Callers
        PROVE  MethodInv(d)'
    <3>1. MethodInv(d) /\ (done[d] => done'[d])
      BY <1>1, <1>2, <2>1
    <3>2. QED
      BY <2>1, <3>1 DEF MethodInv, Shape, LooksUpFirst, Holds, At
  <2>4. CloseInv'
    BY <1>1, <2>1 DEF CloseInv
  <2>5. QED
    BY <2>2, <2>3, <2>4 DEF IInv
<1>7. CASE UNCHANGED vars
  <2>1. CloseInv'
    BY <1>1, <1>7 DEF CloseInv, vars, lifecycle
  <2>2. QED
    BY <1>3, <1>7, <2>1 DEF IInv, vars
<1>8. QED
  BY <1>4, <1>5, <1>6, <1>7, StepNext DEF Next

-----------------------------------------------------------------------------
(* Loops.                                                                  *)

\* A set that has 0 and the successor of every member up to n has them all.
LEMMA Induction ==
  ASSUME NEW n \in Nat, NEW S, 0 \in S, \A i \in 1..n : i - 1 \in S => i \in S
  PROVE  0..n \subseteq S
<1> DEFINE T == (0..n) \ S
           R == {ss \in Nat \X Nat : ss[1] < ss[2]}
<1> SUFFICES ASSUME T # {} PROVE FALSE
  OBVIOUS
<1>1. T \subseteq Nat
  OBVIOUS
<1>2. IsWellFoundedOn(R, Nat)
  BY NatLessThanWellFounded DEF OpToRel
<1>3. PICK i \in T : \A j \in T : ~(<<j, i>> \in R)
  <2> HIDE DEF R, T
  <2> QED BY <1>1, <1>2, WFMin
<1>4. i # 0 /\ i \in 1..n /\ i - 1 \in 0..n /\ <<i - 1, i>> \in R
  OBVIOUS
<1>5. i - 1 \in S
  BY <1>3, <1>4
<1>6. QED
  BY <1>4, <1>5

\* What a loop over n elements has after each of them, in g
IsLoop(g, n, V, v, step) ==
  /\ g \in [0..n -> V]
  /\ g[0] = v
  /\ \A i \in 1..n : g[i] = step[<<g[i - 1], i>>]

\* A loop over n elements computes something: the function with its results
\* after each element exists.
LEMMA LoopExists ==
  ASSUME NEW n \in Nat, NEW V, NEW v \in V, NEW step \in [V \X (1..n) -> V]
  PROVE  \E g : IsLoop(g, n, V, v, step)
<1> DEFINE Is(g, k) == g[0] = v /\ \A i \in 1..k : g[i] = step[<<g[i - 1], i>>]
           S == {k \in 0..n : \E g \in [0..n -> V] : Is(g, k)}
<1>1. 0 \in S
  <2> DEFINE g == [i \in 0..n |-> v]
  <2>1. g \in [0..n -> V] /\ Is(g, 0)
    OBVIOUS
  <2> HIDE DEF g, Is
  <2>2. QED
    BY <2>1
<1>2. ASSUME NEW k \in 1..n, k - 1 \in S PROVE k \in S
  <2>1. PICK g \in [0..n -> V] : Is(g, k - 1)
    BY <1>2
  <2> DEFINE h == [g EXCEPT ![k] = step[<<g[k - 1], k>>]]
  <2>2. h \in [0..n -> V]
    OBVIOUS
  <2>3. /\ h[k] = step[<<g[k - 1], k>>]
        /\ \A i \in 0..k - 1 : h[i] = g[i]
    OBVIOUS
  <2> HIDE DEF h
  <2>4. Is(h, k)
    <3>1. h[0] = v
      BY <2>1, <2>3
    <3>2. ASSUME NEW i \in 1..k PROVE h[i] = step[<<h[i - 1], i>>]
      <4>1. h[i - 1] = g[i - 1]
        BY <2>3
      <4>2. h[i] = step[<<g[i - 1], i>>]
        <5>1. CASE i = k
          BY <2>3, <5>1
        <5>2. CASE i \in 1..k - 1
          BY <2>1, <2>3, <5>2
        <5>3. QED
          BY <5>1, <5>2
      <4>3. QED
        BY <4>1, <4>2
    <3>3. QED
      BY <3>1, <3>2
  <2> HIDE DEF Is
  <2>5. QED
    BY <2>2, <2>4
<1>3. n \in S
  <2> HIDE DEF S
  <2> QED BY <1>1, <1>2, Induction
<1>4. QED
  BY <1>3 DEF IsLoop

\* The slices that the loop of OfType goes through
TypeLoop(f, X, in, types) ==
  /\ f \in [0..Len(in) -> Seq(X)]
  /\ f[0] = << >>
  /\ \A i \in 1..Len(in) :
       f[i] = IF in[i].Type \in types THEN Append(f[i - 1], in[i]) ELSE f[i - 1]
  /\ OfType(in, types) = f[Len(in)]

LEMMA OfTypeLoop ==
  ASSUME NEW X, NEW in \in Seq(X), NEW types
  PROVE  \E f : TypeLoop(f, X, in, types)
<1> DEFINE n == Len(in)
           V == Seq(X)
           v == << >>
           More(a, i) == IF in[i].Type \in types THEN Append(a, in[i]) ELSE a
           Loop(g) == [i \in 0..n |-> IF i = 0 THEN v ELSE More(g[i - 1], i)]
           step == [a \in V \X (1..n) |-> More(a[1], a[2])]
<1>1. n \in Nat /\ v \in V
  OBVIOUS
<1>2. \A i \in 1..n : \A a \in V : More(a, i) \in V
  <2>1. \A i \in 1..n : in[i] \in X
    OBVIOUS
  <2>2. \A i \in 1..n : \A a \in V : Append(a, in[i]) \in V
    BY <2>1
  <2>3. QED
    BY <2>2, Zenon
<1>3. \E g \in [0..n -> V] : g = Loop(g)
  <2> HIDE DEF n, V, v, More
  <2>1. step \in [V \X (1..n) -> V]
    BY <1>2
  <2>2. \A i \in 1..n : \A a \in V : step[<<a, i>>] = More(a, i)
    OBVIOUS
  <2> HIDE DEF step
  <2>3. PICK g : IsLoop(g, n, V, v, step)
    BY <1>1, <2>1, LoopExists
  <2>n. g \in [0..n -> V] /\ g[0] = v /\ \A i \in 1..n : g[i] = step[<<g[i - 1], i>>]
    BY <2>3 DEF IsLoop
  <2>4. \A i \in 1..n : g[i - 1] \in V
    BY <1>1, <2>n
  <2>5. \A i \in 1..n : g[i] = More(g[i - 1], i)
    BY <2>2, <2>n, <2>4
  <2>6. g = Loop(g)
    <3>1. \A i \in 0..n : g[i] = IF i = 0 THEN v ELSE More(g[i - 1], i)
      BY <1>1, <2>n, <2>5
    <3>2. g = [i \in 0..n |-> g[i]]
      BY <2>n
    <3>3. [i \in 0..n |-> g[i]] = Loop(g)
      BY <3>1
    <3>4. QED
      BY <3>2, <3>3
  <2>7. QED
    BY <2>n, <2>6
<1> DEFINE f == CHOOSE h : h = Loop(h)
<1>4. f = Loop(f)
  <2> HIDE DEF Loop
  <2> QED BY <1>3
<1>5. OfType(in, types) = f[n]
  BY Zenon DEF OfType
<1> HIDE DEF f
<1>6. f \in [0..n -> V] /\ f[0] = v /\ \A i \in 1..n : f[i] = More(f[i - 1], i)
  <2> HIDE DEF n, V, v, More
  <2>1. f[0] = v /\ \A i \in 1..n : f[i] = More(f[i - 1], i)
    BY <1>1, <1>4
  <2> DEFINE S == {i \in 0..n : f[i] \in V}
  <2>2. 0 \in S
    BY <1>1, <2>1
  <2>3. ASSUME NEW i \in 1..n, i - 1 \in S PROVE i \in S
    BY <1>1, <1>2, <2>1, <2>3
  <2>4. 0..n \subseteq S
    <3> HIDE DEF S
    <3> QED BY <1>1, <2>2, <2>3, Induction
  <2>5. \A i \in 0..n : f[i] \in V
    BY <2>4
  <2>6. QED
    BY <1>4, <2>1, <2>5
<1>7. TypeLoop(f, X, in, types)
  BY <1>5, <1>6, Zenon DEF TypeLoop
<1>8. QED
  BY <1>7

\* The onion services come after the others
OnionsLast(s) ==
  \A i, j \in 1..Len(s) : i < j /\ s[i].Type = "onion" => s[j].Type = "onion"

\* OfType returns some of the services, all of those types, in their order.
LEMMA OfTypeSelects ==
  ASSUME NEW X, NEW in \in Seq(X), NEW types
  PROVE  /\ OfType(in, types) \in Seq(X)
         /\ \A i \in 1..Len(OfType(in, types)) : OfType(in, types)[i].Type \in types
         /\ OnionsLast(in) => OnionsLast(OfType(in, types))
<1> DEFINE n == Len(in)
           Of(out, k) ==
             /\ \A i \in 1..Len(out) :
                  out[i].Type \in types /\ \E m \in 1..k : out[i] = in[m]
             /\ OnionsLast(in) => OnionsLast(out)
<1>0. PICK f : TypeLoop(f, X, in, types)
  BY OfTypeLoop
<1>1. /\ f \in [0..n -> Seq(X)]
      /\ f[0] = << >>
      /\ \A i \in 1..n :
           f[i] = IF in[i].Type \in types THEN Append(f[i - 1], in[i]) ELSE f[i - 1]
      /\ OfType(in, types) = f[n]
  BY <1>0 DEF TypeLoop
<1>2. n \in Nat /\ \A i \in 1..n : in[i] \in X
  OBVIOUS
<1> DEFINE S == {k \in 0..n : Of(f[k], k)}
<1>3. 0 \in S
  <2>1. Len(f[0]) = 0
    BY <1>1
  <2>2. QED
    BY <1>2, <2>1 DEF OnionsLast
<1>4. ASSUME NEW k \in 1..n, k - 1 \in S PROVE k \in S
  <2>1. PICK a \in Seq(X) : a = f[k - 1] /\ Of(a, k - 1)
    BY <1>1, <1>2, <1>4
  <2>2. CASE in[k].Type \notin types
    <3>1. f[k] = a
      BY <1>1, <2>1, <2>2
    <3>2. Of(a, k)
      BY <2>1
    <3>3. QED
      BY <3>1, <3>2
  <2>3. CASE in[k].Type \in types
    <3>1. PICK b : b = Append(a, in[k])
      OBVIOUS
    <3>2. f[k] = b
      BY <1>1, <2>1, <2>3, <3>1
    <3>3. /\ b \in Seq(X) /\ Len(a) \in Nat /\ Len(b) = Len(a) + 1 /\ b[Len(a) + 1] = in[k]
          /\ \A i \in 1..Len(a) : b[i] = a[i]
      BY <1>2, <3>1, AppendProperties
    <3>4. ASSUME NEW i \in 1..Len(b)
          PROVE  b[i].Type \in types /\ \E m \in 1..k : b[i] = in[m]
      <4>1. CASE i = Len(a) + 1
        BY <2>3, <3>3, <4>1
      <4>2. CASE i \in 1..Len(a)
        <5>1. a[i].Type \in types /\ \E m \in 1..k - 1 : a[i] = in[m]
          BY <2>1, <4>2
        <5>2. QED
          BY <3>3, <4>2, <5>1
      <4>3. QED
        BY <3>3, <4>1, <4>2
    <3>5. ASSUME OnionsLast(in), NEW i \in 1..Len(b), NEW j \in 1..Len(b), i < j,
                 b[i].Type = "onion"
          PROVE  b[j].Type = "onion"
      <4>1. i \in 1..Len(a) /\ b[i] = a[i]
        BY <3>3, <3>5
      <4>2. CASE j \in 1..Len(a)
        <5>1. OnionsLast(a) /\ a[i].Type = "onion" /\ b[j] = a[j]
          BY <2>1, <3>3, <3>5, <4>1, <4>2
        <5>2. a[j].Type = "onion"
          BY <3>5, <4>1, <4>2, <5>1 DEF OnionsLast
        <5>3. QED
          BY <5>1, <5>2
      <4>3. CASE j = Len(a) + 1
        <5>1. PICK m \in 1..k - 1 : a[i] = in[m]
          BY <2>1, <4>1
        <5>2. m \in 1..n /\ k \in 1..n /\ m < k /\ in[m].Type = "onion"
          BY <1>2, <3>5, <4>1, <5>1
        <5>3. in[k].Type = "onion"
          BY <3>5, <5>2 DEF OnionsLast
        <5>4. QED
          BY <3>3, <4>3, <5>3
      <4>4. QED
        BY <3>3, <4>2, <4>3
    <3>6. Of(b, k)
      BY <3>4, <3>5 DEF OnionsLast
    <3>7. QED
      BY <3>2, <3>6
  <2>4. QED
    BY <2>2, <2>3
<1>5. n \in S
  <2>1. \A k \in 1..n : k - 1 \in S => k \in S
    BY <1>4, Zenon
  <2> HIDE DEF S, n
  <2>2. 0..n \subseteq S
    BY <1>2, <1>3, <2>1, Induction
  <2>3. QED
    BY <1>2, <2>2
<1>6. Of(f[n], n) /\ f[n] \in Seq(X)
  BY <1>1, <1>2, <1>5
<1>7. QED
  BY <1>1, <1>6

-----------------------------------------------------------------------------
(* TryAll and SelectBest.                                                  *)

\* The services in the order in which they are tried
AllServices == OnlyHTTPS(Services) \o OnlyFallbacks(Services)

\* The https services come first, and the onion services last.
LEMMA ServicesInOrder ==
  /\ OnlyHTTPS(Services) \in Seq(Range(Services))
  /\ AllServices \in Seq(Range(Services))
  /\ Len(OnlyHTTPS(Services)) \in Nat /\ Len(AllServices) \in Nat
  /\ Len(OnlyHTTPS(Services)) <= Len(AllServices)
  /\ \A i \in 1..Len(OnlyHTTPS(Services)) : OnlyHTTPS(Services)[i] = AllServices[i]
  /\ \A i \in 1..Len(AllServices) :
       AllServices[i].Type = "https" <=> i <= Len(OnlyHTTPS(Services))
  /\ OnionsLast(AllServices)
<1> DEFINE X == Range(Services)
           T == {"https", "cloudfront", "onion"}
           Typed(s, types) == s \in Seq(X) /\ \A i \in 1..Len(s) : s[i].Type \in types
<1>1. Services \in Seq(X)
  <2>1. Services \in Seq([Address : STRING, Type : T])
    BY SessionAssumption
  <2>2. QED
    BY <2>1 DEF Range
<1>2. PICK h, c, o : /\ h = OfType(Services, {"https"}) /\ c = OfType(Services, {"cloudfront"})
                     /\ o = OfType(Services, {"onion"})
  OBVIOUS
<1>3. Typed(h, {"https"}) /\ Typed(c, {"cloudfront"}) /\ Typed(o, {"onion"})
  BY <1>1, <1>2, OfTypeSelects
<1> HIDE DEF X
<1>4. PICK hc : hc = h \o c
  OBVIOUS
<1>5. /\ hc \in Seq(X) /\ Len(hc) \in Nat
      /\ \A i \in 1..Len(hc) : hc[i].Type # "onion"
  <2>1. /\ hc \in Seq(X) /\ Len(hc) = Len(h) + Len(c) /\ Len(h) \in Nat /\ Len(c) \in Nat
        /\ \A i \in 1..Len(hc) : hc[i] = IF i <= Len(h) THEN h[i] ELSE c[i - Len(h)]
    BY <1>3, <1>4, ConcatProperties
  <2>2. ASSUME NEW i \in 1..Len(hc) PROVE hc[i].Type # "onion"
    <3>1. CASE i <= Len(h)
      BY <1>3, <2>1, <3>1
    <3>2. CASE i > Len(h)
      <4>1. i - Len(h) \in 1..Len(c) /\ hc[i] = c[i - Len(h)]
        BY <2>1, <3>2
      <4>2. QED
        BY <1>3, <4>1
    <3>3. QED
      BY <2>1, <3>1, <3>2
  <2>3. QED
    BY <2>1, <2>2
<1>6. PICK s : s = hc \o o
  OBVIOUS
<1>7. s \in Seq(X) /\ OnionsLast(s)
  <2>1. /\ s \in Seq(X) /\ Len(s) = Len(hc) + Len(o) /\ Len(o) \in Nat
        /\ \A i \in 1..Len(s) : s[i] = IF i <= Len(hc) THEN hc[i] ELSE o[i - Len(hc)]
    BY <1>3, <1>5, <1>6, ConcatProperties
  <2>2. ASSUME NEW i \in 1..Len(s), NEW j \in 1..Len(s), i < j, s[i].Type = "onion"
        PROVE  s[j].Type = "onion"
    <3>1. i > Len(hc)
      BY <1>5, <2>1, <2>2
    <3>2. j - Len(hc) \in 1..Len(o) /\ s[j] = o[j - Len(hc)]
      BY <1>5, <2>1, <2>2, <3>1
    <3>3. QED
      BY <1>3, <3>2
  <2>3. QED
    BY <2>1, <2>2 DEF OnionsLast
<1>8. s = SortServices(Services)
  BY <1>2, <1>4, <1>6 DEF SortServices
<1>9. PICK f : f = OnlyFallbacks(Services)
  OBVIOUS
<1>10. Typed(f, {"cloudfront", "onion"}) /\ OnionsLast(f)
  BY <1>7, <1>8, <1>9, OfTypeSelects DEF OnlyFallbacks
<1>11. PICK a : a = h \o f
  OBVIOUS
<1>12. /\ a \in Seq(X) /\ Len(h) \in Nat /\ Len(f) \in Nat /\ Len(a) = Len(h) + Len(f)
       /\ \A i \in 1..Len(a) : a[i] = IF i <= Len(h) THEN h[i] ELSE f[i - Len(h)]
  BY <1>3, <1>10, <1>11, ConcatProperties
<1>13. ASSUME NEW i \in 1..Len(a), i > Len(h)
       PROVE  i - Len(h) \in 1..Len(f) /\ a[i] = f[i - Len(h)] /\ a[i].Type # "https"
  <2>1. i - Len(h) \in 1..Len(f) /\ a[i] = f[i - Len(h)]
    BY <1>12, <1>13
  <2>2. QED
    BY <1>10, <2>1
<1>14. \A i \in 1..Len(h) : i \in 1..Len(a) /\ a[i] = h[i] /\ a[i].Type = "https"
  BY <1>3, <1>12
<1>15. \A i \in 1..Len(a) : a[i].Type = "https" <=> i <= Len(h)
  BY <1>12, <1>13, <1>14
<1>16. OnionsLast(a)
  <2>1. SUFFICES ASSUME NEW i \in 1..Len(a), NEW j \in 1..Len(a), i < j, a[i].Type = "onion"
                 PROVE  a[j].Type = "onion"
    BY DEF OnionsLast
  <2>2. i > Len(h) /\ j > Len(h)
    BY <1>12, <1>15, <2>1
  <2>3. /\ i - Len(h) \in 1..Len(f) /\ a[i] = f[i - Len(h)]
        /\ j - Len(h) \in 1..Len(f) /\ a[j] = f[j - Len(h)] /\ i - Len(h) < j - Len(h)
    BY <1>12, <1>13, <2>1, <2>2
  <2>4. QED
    BY <1>10, <2>1, <2>3 DEF OnionsLast
<1>17. h = OnlyHTTPS(Services) /\ a = AllServices
  BY <1>2, <1>9, <1>11 DEF OnlyHTTPS, AllServices
<1>18. QED
  BY <1>3, <1>12, <1>14, <1>15, <1>16, <1>17 DEF X

\* e works and none of the first k is faster
Fastest(e, out, k) ==
  /\ \E i \in 1..k : e = out[i]
  /\ Works(e)
  /\ \A i \in 1..k : Works(out[i]) => e.Duration <= out[i].Duration

\* SelectBest returns the fastest candidate that works, or nil if none does.
LEMMA SelectsBest ==
  ASSUME NEW out \in Seq(Candidate)
  PROVE  \/ SelectBest(out) = None /\ \A i \in 1..Len(out) : ~ Works(out[i])
         \/ SelectBest(out) # None /\ Fastest(SelectBest(out), out, Len(out))
<1> DEFINE n == Len(out)
           V == Candidate \cup {None}
           More(a, i) == IF out[i].Err THEN a
                         ELSE IF a = None \/ a.Duration > out[i].Duration
                         THEN out[i] ELSE a
           Loop(g) == [i \in 0..n |-> IF i = 0 THEN None ELSE More(g[i - 1], i)]
           step == [a \in V \X (1..n) |-> More(a[1], a[2])]
<1>1. n \in Nat /\ None \in V /\ \A i \in 1..n : out[i] \in Candidate
  OBVIOUS
<1>2. \A i \in 1..n : \A a \in V : More(a, i) \in V
  BY <1>1, Zenon
<1>3. \E g \in [0..n -> V] : g = Loop(g)
  <2> HIDE DEF n, V, More
  <2>1. step \in [V \X (1..n) -> V]
    BY <1>2
  <2>2. \A i \in 1..n : \A a \in V : step[<<a, i>>] = More(a, i)
    OBVIOUS
  <2> HIDE DEF step
  <2>3. PICK g : IsLoop(g, n, V, None, step)
    BY <1>1, <2>1, LoopExists
  <2>4. /\ g \in [0..n -> V] /\ g[0] = None
        /\ \A i \in 1..n : g[i] = step[<<g[i - 1], i>>]
    BY <2>3 DEF IsLoop
  <2>5. \A i \in 1..n : g[i - 1] \in V
    BY <1>1, <2>4
  <2>6. \A i \in 1..n : g[i] = More(g[i - 1], i)
    BY <2>2, <2>4, <2>5
  <2>7. g = Loop(g)
    <3>1. \A i \in 0..n : g[i] = IF i = 0 THEN None ELSE More(g[i - 1], i)
      BY <1>1, <2>4, <2>6
    <3>2. g = [i \in 0..n |-> g[i]]
      BY <2>4
    <3>3. [i \in 0..n |-> g[i]] = Loop(g)
      BY <3>1
    <3>4. QED
      BY <3>2, <3>3
  <2>8. QED
    BY <2>4, <2>7
<1> DEFINE f == CHOOSE h : h = Loop(h)
<1>4. f = Loop(f)
  <2> HIDE DEF Loop
  <2> QED BY <1>3
<1>5. SelectBest(out) = f[n]
  BY Zenon DEF SelectBest
<1> HIDE DEF f
<1>6. f[0] = None /\ \A i \in 1..n : f[i] = More(f[i - 1], i)
  <2> HIDE DEF n, More
  <2> QED BY <1>1, <1>4
<1> HIDE DEF n
<1> DEFINE Best(e, k) ==
             \/ e = None /\ \A i \in 1..k : ~ Works(out[i])
             \/ e # None /\ Fastest(e, out, k)
           S == {k \in 0..n : Best(f[k], k)}
<1>7. 0 \in S
  BY <1>1, <1>6
<1>8. ASSUME NEW k \in 1..n, k - 1 \in S PROVE k \in S
  <2>1. PICK a : a = f[k - 1] /\ Best(a, k - 1)
    BY <1>8
  <2>2. f[k] = More(a, k) /\ k - 1 \in Int
    BY <1>1, <1>6, <2>1
  <2>3. /\ out[k] # None /\ out[k] \in Candidate
        /\ (Works(out[k]) <=> ~ out[k].Err)
        /\ out[k].Duration \in Int
    BY <1>1, NilAssumption, SessionAssumption DEF Works, Candidate
  <2>4. \A i \in 1..k : i \in 1..k - 1 \/ i = k
    BY <1>1
  <2>5. CASE out[k].Err
    <3>1. f[k] = a
      BY <2>2, <2>5
    <3>2. Best(a, k)
      <4>1. CASE a = None
        BY <2>1, <2>3, <2>4, <2>5, <4>1
      <4>2. CASE a # None
        <5>1. Fastest(a, out, k - 1)
          BY <2>1, <4>2
        <5>2. Fastest(a, out, k)
          <6>1. \E i \in 1..k : a = out[i]
            BY <1>1, <5>1 DEF Fastest
          <6>2. \A i \in 1..k : Works(out[i]) => a.Duration <= out[i].Duration
            BY <2>3, <2>4, <2>5, <5>1 DEF Fastest
          <6>3. QED
            BY <5>1, <6>1, <6>2 DEF Fastest
        <5>3. QED
          BY <4>2, <5>2
      <4>3. QED
        BY <4>1, <4>2
    <3>3. QED
      BY <3>1, <3>2
  <2>6. CASE ~ out[k].Err
    <3>1. CASE a = None
      <4>1. f[k] = out[k] /\ \A i \in 1..k - 1 : ~ Works(out[i])
        BY <2>1, <2>2, <2>6, <3>1
      <4>2. Fastest(out[k], out, k)
        BY <2>3, <2>4, <2>6, <4>1 DEF Fastest
      <4>3. QED
        BY <2>3, <4>1, <4>2
    <3>2. CASE a # None
      <4>1. Fastest(a, out, k - 1)
        BY <2>1, <3>2
      <4>2. \A i \in 1..k - 1 : out[i].Duration \in Int
        BY <1>1, SessionAssumption DEF Candidate
      <4>3. a.Duration \in Int
        BY <4>1, <4>2 DEF Fastest
      <4>4. CASE a.Duration > out[k].Duration
        <5>1. f[k] = out[k]
          BY <2>2, <2>6, <4>4
        <5>2. Fastest(out[k], out, k)
          <6>1. ASSUME NEW i \in 1..k - 1, Works(out[i])
                PROVE  out[k].Duration <= out[i].Duration
            <7>1. a.Duration <= out[i].Duration
              BY <4>1, <6>1 DEF Fastest
            <7>2. QED
              BY <2>3, <4>2, <4>3, <4>4, <7>1
          <6>2. \A i \in 1..k : Works(out[i]) => out[k].Duration <= out[i].Duration
            BY <2>3, <2>4, <6>1
          <6>3. QED
            BY <2>3, <2>6, <6>2 DEF Fastest
        <5>3. QED
          BY <2>3, <5>1, <5>2
      <4>5. CASE ~ (a.Duration > out[k].Duration)
        <5>1. f[k] = a
          BY <2>2, <2>6, <3>2, <4>5
        <5>2. Fastest(a, out, k)
          <6>1. a.Duration <= out[k].Duration
            BY <2>3, <4>3, <4>5
          <6>2. \A i \in 1..k : Works(out[i]) => a.Duration <= out[i].Duration
            BY <2>4, <4>1, <6>1 DEF Fastest
          <6>3. \E i \in 1..k : a = out[i]
            BY <1>1, <4>1 DEF Fastest
          <6>4. QED
            BY <4>1, <6>2, <6>3 DEF Fastest
        <5>3. QED
          BY <3>2, <5>1, <5>2
      <4>6. QED
        BY <4>4, <4>5
    <3>3. QED
      BY <3>1, <3>2
  <2>7. QED
    BY <2>5, <2>6
<1>9. n \in S
  <2>1. \A k \in 1..n : k - 1 \in S => k \in S
    BY <1>8, Zenon
  <2> HIDE DEF S
  <2>2. 0..n \subseteq S
    BY <1>1, <1>7, <2>1, Induction
  <2>3. QED
    BY <1>1, <2>2
<1>10. QED
  BY <1>5, <1>9 DEF n

\* What TryAll has tried: the services in their order, and a fallback only when
\* all that was tried before it has failed
Tried(out) ==
  /\ out \in Seq(Candidate)
  /\ Len(out) <= Len(AllServices)
  /\ \A i \in 1..Len(out) : out[i].Service = AllServices[i]
  /\ \A i \in 1..Len(out) :
       i > Len(OnlyHTTPS(Services)) => \A j \in 1..i - 1 : out[j].Err

\* A candidate with an error is one that does not work.
LEMMA WorksOrErr ==
  ASSUME NEW out \in Seq(Candidate), NEW i \in 1..Len(out)
  PROVE  Works(out[i]) <=> ~ out[i].Err
<1>1. out[i] \in Candidate
  OBVIOUS
<1>2. QED
  BY <1>1, NilAssumption DEF Works

\* How far TryAll goes.
LEMMA TryAllGoesOn ==
  ASSUME NEW out \in Seq(Candidate), Len(out) <= Len(AllServices)
  PROVE  LET last == IF Found(out) THEN Len(OnlyHTTPS(Services)) ELSE Len(AllServices)
         IN /\ TryAll(out) = << >> => Len(out) >= last
            /\ TryAll(out) # << >> => /\ Len(out) < last
                                      /\ Head(TryAll(out)) = AllServices[Len(out) + 1]
<1> DEFINE https == Len(OnlyHTTPS(Services))
           last == IF Found(out) THEN https ELSE Len(AllServices)
           X == Range(Services)
<1>1. /\ AllServices \in Seq(X) /\ https \in Nat /\ Len(AllServices) \in Nat
      /\ https <= Len(AllServices)
  BY ServicesInOrder
<1>2. last \in Nat /\ last <= Len(AllServices) /\ Len(out) \in Nat
  BY <1>1
<1>3. TryAll(out) = SubSeq(AllServices, Len(out) + 1, last)
  BY Zenon DEF TryAll, AllServices
<1> HIDE DEF last, X
<1>4. PICK a, m : a = AllServices /\ m = Len(out) + 1
  OBVIOUS
<1>5. m \in Int /\ last \in Int /\ \A i \in m..last : a[i] \in X
  BY <1>1, <1>2, <1>4
<1>6. PICK s : s = SubSeq(a, m, last)
  OBVIOUS
<1>7. /\ s \in Seq(X) /\ Len(s) = IF m <= last THEN last - m + 1 ELSE 0
      /\ \A i \in 1..last - m + 1 : s[i] = a[m + i - 1]
  BY <1>5, <1>6, SubSeqProperties
<1>8. s = << >> => Len(out) >= last
  BY <1>2, <1>4, <1>7
<1>9. ASSUME s # << >>
      PROVE  Len(out) < last /\ Head(s) = a[Len(out) + 1]
  <2>1. Len(s) >= 1 /\ Head(s) = s[1]
    BY <1>7, <1>9, HeadTailProperties
  <2>2. m <= last
    BY <1>2, <1>4, <1>7, <2>1
  <2>3. s[1] = a[m]
    BY <1>2, <1>4, <1>7, <2>2
  <2>4. QED
    BY <1>2, <1>4, <2>1, <2>2, <2>3
<1>10. s = TryAll(out)
  BY <1>3, <1>4, <1>6
<1>11. QED
  BY <1>4, <1>8, <1>9, <1>10 DEF last

\* One more service is tried.
LEMMA TriesOne ==
  ASSUME NEW out, Tried(out), TryAll(out) # << >>, NEW err \in BOOLEAN,
         NEW d \in 0..MaxDuration
  PROVE  Tried(Append(out, [Service |-> Head(TryAll(out)), Err |-> err, Duration |-> d]))
<1> DEFINE https == Len(OnlyHTTPS(Services))
           e == [Service |-> Head(TryAll(out)), Err |-> err, Duration |-> d]
<1>1. /\ out \in Seq(Candidate) /\ Len(out) \in Nat /\ Len(out) <= Len(AllServices)
      /\ \A i \in 1..Len(out) : out[i].Service = AllServices[i]
      /\ \A i \in 1..Len(out) : i > https => \A j \in 1..i - 1 : out[j].Err
  BY DEF Tried
<1>2. PICK k : k = Len(out) + 1
  OBVIOUS
<1>3. /\ AllServices \in Seq(Range(Services)) /\ https \in Nat /\ Len(AllServices) \in Nat
      /\ https <= Len(AllServices)
  BY ServicesInOrder
<1>4. /\ Len(out) < Len(AllServices) /\ (Found(out) => Len(out) < https)
      /\ Head(TryAll(out)) = AllServices[k]
  BY <1>1, <1>2, <1>3, TryAllGoesOn
<1>5. e \in Candidate /\ e.Service = AllServices[k]
  BY <1>1, <1>2, <1>3, <1>4 DEF Candidate
<1>6. PICK b : b = Append(out, e)
  OBVIOUS
<1> HIDE DEF e, https
<1>7. /\ b \in Seq(Candidate) /\ Len(b) = k /\ b[k] = e
      /\ \A i \in 1..Len(out) : b[i] = out[i]
  BY <1>1, <1>2, <1>5, <1>6, AppendProperties
<1>8. Len(b) <= Len(AllServices)
  BY <1>1, <1>2, <1>3, <1>4, <1>7
<1>9. \A i \in 1..Len(b) : b[i].Service = AllServices[i]
  BY <1>1, <1>2, <1>5, <1>7
<1>10. ASSUME NEW i \in 1..Len(b), i > https, NEW j \in 1..i - 1
       PROVE  b[j].Err
  <2>1. j \in 1..Len(out) /\ b[j] = out[j]
    BY <1>1, <1>2, <1>7, <1>10
  <2>2. CASE i \in 1..Len(out)
    BY <1>1, <1>10, <2>1, <2>2
  <2>3. CASE i = k
    <3>1. ~ Found(out)
      BY <1>1, <1>2, <1>3, <1>4, <1>10, <2>3
    <3>2. ~ Works(out[j])
      BY <1>1, <2>1, <3>1 DEF Found
    <3>3. QED
      BY <1>1, <2>1, <3>2, WorksOrErr
  <2>4. QED
    BY <1>1, <1>2, <1>7, <2>2, <2>3
<1>11. Tried(b)
  BY <1>7, <1>8, <1>9, <1>10 DEF Tried, https
<1>12. QED
  BY <1>6, <1>11 DEF e

\* The service that SelectBest may select when TryAll has ended
Right(best, out) ==
  /\ best \in Range(out)
  /\ Works(best)
  /\ \A e \in Range(out) : Works(e) => best.Duration <= e.Duration
  /\ \A s \in Range(OnlyHTTPS(Services)) :
       \E e \in Range(out) : e.Service = s /\ (best.Service.Type # "https" => e.Err)

LEMMA SelectsRight ==
  ASSUME NEW out, Tried(out), TryAll(out) = << >>, SelectBest(out) # None
  PROVE  Right(SelectBest(out), out)
<1> DEFINE https == OnlyHTTPS(Services)
<1>1. /\ out \in Seq(Candidate) /\ Len(out) \in Nat /\ Len(out) <= Len(AllServices)
      /\ \A i \in 1..Len(out) : out[i].Service = AllServices[i]
      /\ \A i \in 1..Len(out) : i > Len(https) => \A j \in 1..i - 1 : out[j].Err
  BY DEF Tried
<1>2. PICK best : best = SelectBest(out)
  OBVIOUS
<1>3. Fastest(best, out, Len(out))
  BY <1>1, <1>2, SelectsBest
<1>4. PICK k \in 1..Len(out) : best = out[k]
  BY <1>3 DEF Fastest
<1>5. Range(out) = {out[i] : i \in 1..Len(out)}
  BY <1>1 DEF Range
<1>6. best \in Range(out) /\ Works(best)
  BY <1>3, <1>4, <1>5 DEF Fastest
<1>7. \A e \in Range(out) : Works(e) => best.Duration <= e.Duration
  BY <1>3, <1>5 DEF Fastest
<1>8. /\ https \in Seq(Range(Services)) /\ Len(https) \in Nat /\ Len(AllServices) \in Nat
      /\ Len(https) <= Len(AllServices)
      /\ \A i \in 1..Len(https) : https[i] = AllServices[i]
      /\ \A i \in 1..Len(AllServices) : AllServices[i].Type = "https" <=> i <= Len(https)
  BY ServicesInOrder
<1>9. Len(https) <= Len(out)
  BY <1>1, <1>8, TryAllGoesOn
<1>10. ASSUME NEW s \in Range(https)
       PROVE  \E e \in Range(out) : e.Service = s /\ (best.Service.Type # "https" => e.Err)
  <2>1. PICK i \in 1..Len(https) : s = https[i]
    BY <1>8, <1>10 DEF Range
  <2>2. i \in 1..Len(out) /\ out[i].Service = s
    BY <1>1, <1>8, <1>9, <2>1
  <2>3. ASSUME best.Service.Type # "https" PROVE out[i].Err
    <3>1. k \in 1..Len(AllServices) /\ AllServices[k].Type # "https"
      BY <1>1, <1>4, <1>8, <2>3
    <3>2. k > Len(https)
      BY <1>8, <3>1
    <3>3. i \in 1..k - 1
      BY <1>1, <1>8, <2>1, <3>2
    <3>4. QED
      BY <1>1, <1>4, <3>2, <3>3
  <2>4. out[i] \in Range(out)
    BY <1>5, <2>2
  <2>5. QED
    BY <2>2, <2>3, <2>4
<1>11. QED
  BY <1>2, <1>6, <1>7, <1>10 DEF Right

-----------------------------------------------------------------------------
(* The theorems.                                                           *)

LEMMA InvInit ==
  ASSUME Init
  PROVE  IInv
<1>1. Types
  <2>1. << >> \in Seq(Stage)
    OBVIOUS
  <2>2. QED
    BY <2>1 DEF Init, Types
<1>2. ASSUME NEW c \in Callers
      PROVE  MethodInv(c)
  <2>1. /\ todo[c] = << >> /\ Len(todo[c]) = 0 /\ mu # c /\ result[c] = "none"
        /\ ~ attempted[c] /\ ~ doomed[c]
    BY SessionAssumption DEF Init
  <2>2. Shape(todo[c]) /\ LooksUpFirst(todo[c])
    BY <2>1 DEF Shape, LooksUpFirst
  <2>3. QED
    BY <2>1, <2>2 DEF MethodInv, At
<1>3. CloseInv
  BY DEF Init, CloseInv
<1>4. QED
  BY <1>1, <1>2, <1>3 DEF IInv

\* What the goroutines have tried and what was selected
ServiceInv ==
  /\ candidates \in [Callers -> Seq(Candidate)]
  /\ \A c \in Callers : Tried(candidates[c])
  /\ selected # None => \E c \in Callers : Right(selected, candidates[c])

LEMMA NothingTried == Tried(<< >>)
<1>1. << >> \in Seq(Candidate) /\ Len(<< >>) = 0
  OBVIOUS
<1>2. Len(AllServices) \in Nat
  BY ServicesInOrder
<1>3. QED
  BY <1>1, <1>2 DEF Tried

LEMMA ServiceInit ==
  ASSUME Init
  PROVE  ServiceInv
<1>1. << >> \in Seq(Candidate)
  OBVIOUS
<1>2. \A c \in Callers : candidates[c] = << >>
  BY DEF Init
<1>3. QED
  BY <1>1, <1>2, NothingTried DEF Init, ServiceInv

\* A goroutine only tries services while none is selected.
LEMMA ServiceNext ==
  ASSUME IInv, ServiceInv, [Next]_vars
  PROVE  ServiceInv'
<1>1. /\ candidates \in [Callers -> Seq(Candidate)]
      /\ \A c \in Callers : Tried(candidates[c])
      /\ selected # None => \E c \in Callers : Right(selected, candidates[c])
  BY DEF ServiceInv
<1>2. ASSUME UNCHANGED <<selected, candidates>>
      PROVE  ServiceInv'
  BY <1>1, <1>2 DEF ServiceInv
<1>3. ASSUME NEW c \in Callers, Try(c)
      PROVE  ServiceInv'
  <2>1. TryAll(candidates[c]) # << >> /\ UNCHANGED selected
    BY <1>3 DEF Try, lookups
  <2>2. selected = None
    BY <1>3 DEF Try, IInv, MethodInv
  <2> DEFINE Adds(err, d) ==
               candidates' = [candidates EXCEPT ![c] = Append(candidates[c],
                 [Service |-> Head(TryAll(candidates[c])), Err |-> err, Duration |-> d])]
  <2>3. PICK err \in BOOLEAN, d \in 0..MaxDuration : Adds(err, d)
    <3>1. Adds(TRUE, 0) \/ \E d \in 1..MaxDuration : Adds(FALSE, d)
      BY <1>3, Zenon DEF Try
    <3>2. 0 \in 0..MaxDuration /\ \A d \in 1..MaxDuration : d \in 0..MaxDuration
      BY SessionAssumption
    <3> HIDE DEF Adds
    <3>3. QED
      BY <3>1, <3>2
  <2>4. PICK b : b = Append(candidates[c],
                       [Service |-> Head(TryAll(candidates[c])), Err |-> err, Duration |-> d])
    OBVIOUS
  <2>5. Tried(b)
    BY <1>1, <2>1, <2>4, TriesOne
  <2>6. b \in Seq(Candidate) /\ candidates' = [candidates EXCEPT ![c] = b]
    BY <2>3, <2>4, <2>5 DEF Tried
  <2>7. /\ candidates' \in [Callers -> Seq(Candidate)]
        /\ \A a \in Callers : Tried(candidates'[a])
    BY <1>1, <2>5, <2>6
  <2>8. QED
    BY <2>1, <2>2, <2>7 DEF ServiceInv
<1>4. ASSUME NEW c \in Callers, SelectBackend(c)
      PROVE  ServiceInv'
  <2>1. TryAll(candidates[c]) = << >> /\ selected' = SelectBest(candidates[c])
    BY <1>4 DEF SelectBackend
  <2>2. CASE selected' = None
    <3>1. candidates' = [candidates EXCEPT ![c] = << >>]
      BY <1>4, <2>2 DEF SelectBackend
    <3>2. << >> \in Seq(Candidate)
      OBVIOUS
    <3>3. /\ candidates' \in [Callers -> Seq(Candidate)]
          /\ \A a \in Callers : Tried(candidates'[a])
      BY <1>1, <3>1, <3>2, NothingTried
    <3>4. QED
      BY <2>2, <3>3 DEF ServiceInv
  <2>3. CASE selected' # None
    <3>1. candidates' = candidates
      BY <1>4, <2>3 DEF SelectBackend
    <3>2. Right(selected', candidates[c])
      BY <1>1, <2>1, <2>3, SelectsRight
    <3>3. QED
      BY <1>1, <3>1, <3>2 DEF ServiceInv
  <2>4. QED
    BY <2>2, <2>3
<1>5. QED
  BY <1>2, <1>3, <1>4 DEF Next, NewSession, Begin, Cancel, Step, Return, CheckContext, Read,
     Request, Run, Lock, Unlock, BackendsKnown, LookupBackends, LocationKnown, LookupLocation,
     Locate, Close, doClose, CloseDone, CloseAgain, lookups, calls, vars

\* The invariant holds for any number of goroutines, however they interleave.
THEOREM Invariance == Spec => []IInv
<1>1. Init => IInv
  BY InvInit
<1>2. IInv /\ [Next]_vars => IInv'
  BY InvNext
<1>3. QED
  BY <1>1, <1>2, PTL DEF Spec

\* MeasureWithContext and CheckIn read a location that has been looked up, and a
\* method that is called with a done context never gets to the network.
THEOREM StepsAreInOrder == Spec => []StepsInOrder
<1>1. IInv => StepsInOrder
  <2>1. ASSUME IInv, NEW c \in Callers, At(c, "read")
        PROVE  location
    <3>1. todo[c] \in Seq(Stage) /\ todo[c] # << >> /\ Head(todo[c]) = "read" /\ MethodInv(c)
      BY <2>1 DEF IInv, Types, At
    <3>2. Len(todo[c]) >= 1 /\ Len(todo[c]) \in Nat /\ todo[c][1] = "read"
      BY <3>1, Popped
    <3>3. ~ LooksUpFirst(todo[c])
      BY <3>2 DEF LooksUpFirst
    <3>4. QED
      BY <3>1, <3>3 DEF MethodInv
  <2>2. ASSUME IInv, NEW c \in Callers, doomed[c]
        PROVE  ~ attempted[c]
    BY <2>2 DEF IInv, MethodInv
  <2>3. QED
    BY <2>1, <2>2 DEF StepsInOrder, LocationIsKnown, CancelledDoesNothing
<1>2. QED
  BY <1>1, Invariance, PTL

\* closeOnce: when Close has returned, for whoever called it, nothing is left to
\* release.
THEOREM CloseCompletes == Spec => []CloseIsComplete
<1>1. IInv => CloseIsComplete
  BY DEF IInv, CloseInv, CloseIsComplete
<1>2. QED
  BY <1>1, Invariance, PTL

\* MaybeLookupBackendsContext selects a probe service once: a goroutine that is
\* about to select one holds the mutex, and none has been selected.
THEOREM BackendIsKept == Spec => BackendNeverChanges
<1>1. IInv /\ [Next]_vars => [selected # None => selected' = selected]_vars
  <2>1. SUFFICES ASSUME IInv, Next, selected # None
                 PROVE  selected' = selected
    BY DEF vars, lookups
  <2>2. ASSUME NEW c \in Callers, SelectBackend(c)
        PROVE  FALSE
    BY <2>1, <2>2 DEF SelectBackend, IInv, MethodInv
  <2>3. QED
    BY <2>1, <2>2 DEF Next, NewSession, Begin, Cancel, Step, Return, CheckContext, Read, Request,
       Run, Lock, Unlock, BackendsKnown, LookupBackends, Try, LocationKnown, LookupLocation, Locate,
       Close, doClose, CloseDone, CloseAgain, lookups
<1>2. QED
  BY <1>1, Invariance, PTL DEF Spec, BackendNeverChanges

\* The mutex of the session is not left locked by a method that has returned,
\* with an error or not.
THEOREM MutexIsReleased == Spec => [](\A c \in Callers : mu = c => result[c] = "running")
<1>1. IInv => \A c \in Callers : mu = c => result[c] = "running"
  BY DEF IInv, MethodInv
<1>2. QED
  BY <1>1, Invariance, PTL

\* MaybeLookupBackendsContext, TryAll and SelectBest: for any list of services
\* and any number of goroutines, the session uses the fastest service that
\* worked, a fallback only if every https service was tried and failed, and a
\* fallback is contacted only after all that comes before it has failed.
THEOREM BestServiceIsUsed == Spec => []RightServiceSelected
<1>1. Init => IInv /\ ServiceInv
  BY InvInit, ServiceInit
<1>2. (IInv /\ ServiceInv) /\ [Next]_vars => (IInv /\ ServiceInv)'
  BY InvNext, ServiceNext
<1>3. ServiceInv => BestIsSelected
  BY DEF ServiceInv, BestIsSelected, Right
<1>4. ServiceInv => FallbackIsLastResort
  <2>1. SUFFICES ASSUME ServiceInv, NEW c \in Callers, NEW i \in DOMAIN candidates[c],
                        candidates[c][i].Service.Type # "https"
                 PROVE  /\ \A j \in 1..(i - 1) : candidates[c][j].Err
                        /\ i > Len(OnlyHTTPS(Services))
                        /\ \A j \in 1..(i - 1) :
                             candidates[c][j].Service.Type = "onion" =>
                               candidates[c][i].Service.Type = "onion"
    BY DEF FallbackIsLastResort
  <2>2. PICK out : out = candidates[c]
    OBVIOUS
  <2>3. /\ out \in Seq(Candidate) /\ Len(out) \in Nat /\ Len(out) <= Len(AllServices)
        /\ \A k \in 1..Len(out) : out[k].Service = AllServices[k]
        /\ \A k \in 1..Len(out) :
             k > Len(OnlyHTTPS(Services)) => \A j \in 1..k - 1 : out[j].Err
    BY <2>1, <2>2 DEF ServiceInv, Tried
  <2>4. i \in 1..Len(out)
    BY <2>1, <2>2, <2>3
  <2>5. /\ Len(OnlyHTTPS(Services)) \in Nat /\ Len(AllServices) \in Nat
        /\ \A k \in 1..Len(AllServices) :
             AllServices[k].Type = "https" <=> k <= Len(OnlyHTTPS(Services))
        /\ OnionsLast(AllServices)
    BY ServicesInOrder
  <2>6. i \in 1..Len(AllServices) /\ AllServices[i].Type # "https"
    BY <2>1, <2>2, <2>3, <2>4, <2>5
  <2>7. i > Len(OnlyHTTPS(Services)) /\ \A j \in 1..i - 1 : out[j].Err
    BY <2>3, <2>4, <2>5, <2>6
  <2>8. ASSUME NEW j \in 1..i - 1, out[j].Service.Type = "onion"
        PROVE  out[i].Service.Type = "onion"
    <3>1. j \in 1..Len(AllServices) /\ j < i /\ AllServices[j].Type = "onion"
      BY <2>3, <2>4, <2>5, <2>6, <2>8
    <3>2. AllServices[i].Type = "onion"
      BY <2>5, <2>6, <3>1 DEF OnionsLast
    <3>3. QED
      BY <2>3, <2>4, <3>2
  <2>9. QED
    BY <2>2, <2>7, <2>8
<1>5. QED
  BY <1>1, <1>2, <1>3, <1>4, PTL DEF Spec, RightServiceSelected
=============================================================================
