----------------------- MODULE DriverLifecycleProofs -----------------------
(***************************************************************************)
(* Proofs about loading and unloading the four modules, for any number of  *)
(* processes that open them and any number of loads: nothing but the two   *)
(* releases of my_crypto gives back what is not owned, nothing but its     *)
(* buffer is left behind, and what a system call may reach is backed.      *)
(***************************************************************************)
EXTENDS DriverLifecycle, Integers, SequenceTheorems, TLAPS

Resource ==
  {"region", "dev", "buffer", "cdev", "class", "device", "chrdev", "message", "netdev",
   "registration"}

\* The first n elements of a list of resources, and the list without them.
First(s, n) == {s[i] : i \in 1..n}
Rest(s, n) == SubSeq(s, n + 1, Len(s))

Interface == {"cdev", "chrdev", "registration"}
Excused == IF driver = "crypto" THEN {"message", "class"} ELSE {}

\* A list of releases that may begin when the module owns H: it gives back only
\* what is in H and each once, and the interface before what lies behind it.
Sound(s, H) ==
  /\ s \in Seq(Resource)
  /\ \A i \in 1..Len(s) : s[i] \in H \union Excused
  /\ \A i, j \in 1..Len(s) : i < j /\ s[i] = s[j] => s[i] \in Excused
  /\ \A i, j \in 1..Len(s) : s[i] \in Touched /\ s[j] \in Interface => j < i
  /\ \A x \in H \intersect Interface : Touched \subseteq H /\ \E j \in 1..Len(s) : s[j] = x

\* What my_crypto may have left behind, once it has freed a message instead.
Leak(L) == L = {} \/ (driver = "crypto" /\ L = {"buffer"} /\ "message" \in stray)

\* What a list of releases leaves of H, now or when it comes to the message.
Ends(s, H) ==
  LET left == H \ First(s, Len(s)) IN
    \/ Leak(left)
    \/ /\ driver = "crypto" /\ left = {"buffer"}
       /\ "message" \notin H /\ \E i \in 1..Len(s) : s[i] = "message"

Loading(L, n) ==
  /\ Leak(L) /\ n \in 0..Len(Steps)
  /\ todo = Rest(Steps, n) /\ held = L \union First(Steps, n)

Leaving(s, H, n) ==
  /\ Sound(s, H) /\ Ends(s, H) /\ n \in 0..Len(s)
  /\ todo = Rest(s, n) /\ held = H \ First(s, n)
  /\ \A i \in 1..n : s[i] \notin H => s[i] \in stray

\* What the module owns is what it has acquired and not given back, and what is
\* left to do is the rest of one list.  An open xorbox is loaded to its end.
IInv ==
  /\ driver \in {"xorbox", "crypto", "simple", "net"}
  /\ stray \subseteq Excused
  /\ \/ phase = "absent" /\ Leak(held) /\ todo = <<>>
     \/ phase = "loading" /\ \E L : \E n \in 0..Len(Steps) : Loading(L, n)
     \/ phase = "live" /\ \E L : Loading(L, Len(Steps))
     \/ phase \in {"unwinding", "unloading"} /\ \E s, H : \E n \in 0..Len(s) : Leaving(s, H, n)
  /\ driver = "xorbox" /\ files # {} => phase \in {"loading", "live"} /\ todo = <<>>

\* Taking the head of what is left of a list.
LEMMA RestOf ==
  ASSUME NEW s \in Seq(Resource), NEW n \in 0..Len(s)
  PROVE  /\ n = Len(s) => Rest(s, n) = <<>>
         /\ n < Len(s) => /\ Rest(s, n) # <<>> /\ Head(Rest(s, n)) = s[n + 1]
                          /\ Tail(Rest(s, n)) = Rest(s, n + 1)
<1>0. Len(s) \in Nat /\ n \in Nat
  OBVIOUS
<1>1. CASE n = Len(s)
  BY <1>0, <1>1, SubSeqEmpty DEF Rest
<1>2. CASE n < Len(s)
  <2>. DEFINE l == Len(s)
              t == SubSeq(s, n + 1, l)
              u == SubSeq(s, n + 2, l)
  <2>1. l \in Nat /\ n \in Nat /\ n + 1 \in Int /\ n + 2 \in Int
    BY <1>0
  <2>2. \A i \in (n + 1)..l : s[i] \in Resource
    BY <1>0, ElementOfSeq
  <2>3. \A i \in (n + 2)..l : s[i] \in Resource
    BY <2>2, <2>1
  <2>4. /\ t \in Seq(Resource) /\ Len(t) = (IF n + 1 <= l THEN l - (n + 1) + 1 ELSE 0)
        /\ \A i \in 1..(l - (n + 1) + 1) : t[i] = s[(n + 1) + i - 1]
    BY <2>1, <2>2, SubSeqProperties
  <2>5. /\ u \in Seq(Resource) /\ Len(u) = (IF n + 2 <= l THEN l - (n + 2) + 1 ELSE 0)
        /\ \A i \in 1..(l - (n + 2) + 1) : u[i] = s[(n + 2) + i - 1]
    BY <2>1, <2>3, SubSeqProperties
  <2>. HIDE DEF t, u
  <2>6. /\ Len(t) = l - n /\ \A i \in 1..(l - n) : t[i] = s[n + i]
    BY <1>2, <2>1, <2>4
  <2>7. Len(u) = l - n - 1 /\ \A i \in 1..(l - n - 1) : u[i] = s[n + 1 + i]
    BY <1>2, <2>1, <2>5
  <2>8. t # <<>> /\ Head(t) = s[n + 1]
    BY <1>2, <2>1, <2>4, <2>6
  <2>9. /\ Tail(t) \in Seq(Resource) /\ Len(Tail(t)) = l - n - 1
        /\ \A i \in 1..(l - n - 1) : Tail(t)[i] = t[i + 1]
    BY <2>1, <2>4, <2>6, <2>8, HeadTailProperties
  <2>10. \A i \in 1..(l - n - 1) : Tail(t)[i] = u[i]
    BY <2>1, <2>6, <2>7, <2>9
  <2>11. Tail(t) = u
    BY <2>1, <2>5, <2>7, <2>9, <2>10, SeqEqual
  <2>12. n + 1 + 1 = n + 2
    BY <2>1
  <2>. QED BY <1>2, <2>1, <2>8, <2>11, <2>12 DEF Rest, t, u
<1>. QED BY <1>0, <1>1, <1>2

\* Before anything is done, the whole list is left.
LEMMA RestAll ==
  ASSUME NEW s \in Seq(Resource)
  PROVE  Rest(s, 0) = s
<1>. DEFINE n == Len(s)
            t == SubSeq(s, 1, n)
<1>1. n \in Nat /\ \A i \in 1..n : s[i] \in Resource
  BY ElementOfSeq
<1>. HIDE DEF n
<1>2. /\ t \in Seq(Resource) /\ Len(t) = (IF 1 <= n THEN n - 1 + 1 ELSE 0)
      /\ \A i \in 1..(n - 1 + 1) : t[i] = s[1 + i - 1]
  BY <1>1, SubSeqProperties
<1>. HIDE DEF t
<1>3. Len(t) = n /\ \A i \in 1..n : t[i] = s[i]
  BY <1>1, <1>2
<1>4. t = s
  BY <1>2, <1>3, SeqEqual DEF n
<1>5. 0 + 1 = 1
  OBVIOUS
<1>. QED BY <1>4, <1>5 DEF Rest, n, t

\* The first elements, one by one.
LEMMA FirstOf ==
  ASSUME NEW s
  PROVE  First(s, 0) = {} /\ \A n \in Nat : First(s, n + 1) = First(s, n) \union {s[n + 1]}
<1>1. First(s, 0) = {}
  BY DEF First
<1>2. ASSUME NEW n \in Nat PROVE First(s, n + 1) = First(s, n) \union {s[n + 1]}
  <2>1. 1..(n + 1) = (1..n) \union {n + 1}
    OBVIOUS
  <2>. QED BY <2>1 DEF First
<1>. QED BY <1>1, <1>2
\* The first few elements.
LEMMA FirstFew ==
  ASSUME NEW s
  PROVE  /\ First(s, 0) = {} /\ First(s, 1) = {s[1]} /\ First(s, 2) = {s[1], s[2]}
         /\ First(s, 3) = {s[1], s[2], s[3]} /\ First(s, 4) = {s[1], s[2], s[3], s[4]}
         /\ First(s, 5) = {s[1], s[2], s[3], s[4], s[5]}
         /\ First(s, 6) = {s[1], s[2], s[3], s[4], s[5], s[6]}
<1>1. /\ 1..0 = {} /\ 1..1 = {1} /\ 1..2 = {1, 2} /\ 1..3 = {1, 2, 3} /\ 1..4 = {1, 2, 3, 4}
      /\ 1..5 = {1, 2, 3, 4, 5} /\ 1..6 = {1, 2, 3, 4, 5, 6}
  OBVIOUS
<1>. QED BY <1>1 DEF First

\* A list of releases that gives back each of its resources once, and what lies
\* behind an interface after the interface.
Elements(s) == First(s, Len(s))

Clean(s, T) ==
  /\ s \in Seq(Resource)
  /\ \A i, j \in 1..Len(s) : i < j => s[i] # s[j]
  /\ \A i, j \in 1..Len(s) : s[i] \in T /\ s[j] \in Interface => j < i
  /\ \A j \in 1..Len(s) : s[j] \in Interface => T \subseteq Elements(s)

\* The elements of a list are what stands somewhere in it.
LEMMA InElements ==
  ASSUME NEW s \in Seq(Resource), NEW x
  PROVE  x \in Elements(s) <=> \E i \in 1..Len(s) : s[i] = x
BY DEF Elements, First

\* A list that releases each thing once, interfaces first, may begin when the module
\* owns just what it names, and leaves nothing.
LEMMA CleanSound ==
  ASSUME NEW s, Clean(s, Touched)
  PROVE  Sound(s, Elements(s)) /\ Ends(s, Elements(s))
<1>1. s \in Seq(Resource)
  BY DEF Clean
<1>2. Elements(s) \ First(s, Len(s)) = {}
  BY DEF Elements
<1>3. Ends(s, Elements(s))
  BY <1>2 DEF Ends, Leak
<1>4. \A i \in 1..Len(s) : s[i] \in Elements(s)
  BY <1>1, InElements
<1>5. \A x \in Elements(s) \intersect Interface :
        Touched \subseteq Elements(s) /\ \E j \in 1..Len(s) : s[j] = x
  BY <1>1, InElements DEF Clean
<1>. QED BY <1>1, <1>3, <1>4, <1>5 DEF Sound, Clean

\* What is left of such a list is one, too.
LEMMA CleanTail ==
  ASSUME NEW T, NEW s, Clean(s, T), s # <<>>
  PROVE  Clean(Tail(s), T) /\ Elements(Tail(s)) = Elements(s) \ {Head(s)}
<1>. DEFINE t == Tail(s)
<1>1. /\ s \in Seq(Resource) /\ t \in Seq(Resource) /\ Len(s) \in Nat \ {0}
      /\ Len(t) = Len(s) - 1 /\ \A i \in 1..Len(t) : t[i] = s[i + 1]
      /\ Head(s) = s[1]
  BY HeadTailProperties DEF Clean
<1>. HIDE DEF t
<1>2. \A i \in 1..Len(t) : i + 1 \in 1..Len(s)
  BY <1>1
<1>3. \A i, j \in 1..Len(t) : i < j => t[i] # t[j]
  <2>. SUFFICES ASSUME NEW i \in 1..Len(t), NEW j \in 1..Len(t), i < j PROVE t[i] # t[j]
    OBVIOUS
  <2>1. i + 1 \in 1..Len(s) /\ j + 1 \in 1..Len(s) /\ i + 1 < j + 1
    BY <1>1
  <2>. QED BY <1>1, <2>1 DEF Clean
<1>4. \A i, j \in 1..Len(t) : t[i] \in T /\ t[j] \in Interface => j < i
  <2>. SUFFICES ASSUME NEW i \in 1..Len(t), NEW j \in 1..Len(t), t[i] \in T, t[j] \in Interface
       PROVE  j < i
    OBVIOUS
  <2>1. i + 1 \in 1..Len(s) /\ j + 1 \in 1..Len(s)
    BY <1>1
  <2>2. j + 1 < i + 1
    BY <1>1, <2>1 DEF Clean
  <2>. QED BY <1>1, <2>2
<1>5. \A x : x \in Elements(t) <=> x \in Elements(s) /\ x # Head(s)
  <2>1. ASSUME NEW i \in 1..Len(t)
        PROVE  t[i] \in Elements(s) /\ t[i] # Head(s)
    <3>1. i + 1 \in 1..Len(s) /\ 1 \in 1..Len(s) /\ 1 < i + 1
      BY <1>1
    <3>2. s[1] # s[i + 1] /\ t[i] = s[i + 1]
      BY <1>1, <3>1 DEF Clean
    <3>. QED BY <1>1, <3>1, <3>2, InElements
  <2>2. ASSUME NEW i \in 1..Len(s), s[i] # Head(s)
        PROVE  s[i] \in Elements(t)
    <3>1. i - 1 \in 1..Len(t) /\ (i - 1) + 1 = i
      BY <1>1, <2>2
    <3>2. t[i - 1] = s[i]
      BY <1>1, <3>1
    <3>. QED BY <1>1, <3>1, <3>2, InElements
  <2>. QED BY <1>1, <2>1, <2>2, InElements
<1>6. \A j \in 1..Len(t) : t[j] \in Interface => T \subseteq Elements(t)
  <2>. SUFFICES ASSUME NEW j \in 1..Len(t), t[j] \in Interface, NEW x \in T
       PROVE  x \in Elements(t)
    OBVIOUS
  <2>1. j + 1 \in 1..Len(s) /\ s[j + 1] \in Interface /\ 1 \in 1..Len(s) /\ j + 1 > 1
    BY <1>1
  <2>2. x \in Elements(s)
    BY <2>1 DEF Clean
  <2>3. x # s[1]
    <3>1. SUFFICES ASSUME s[1] \in T PROVE FALSE
      OBVIOUS
    <3>2. j + 1 < 1
      BY <2>1, <3>1 DEF Clean
    <3>. QED BY <2>1, <3>2
  <2>. QED BY <1>1, <1>5, <2>2, <2>3
<1>7. Elements(t) = Elements(s) \ {Head(s)}
  BY <1>5
<1>. QED BY <1>1, <1>3, <1>4, <1>6, <1>7 DEF Clean, t
\* The lists as they stand in the code.
LEMMA XorboxClean ==
  ASSUME NEW s, s = XorboxExit \/ s = XorboxLabels
  PROVE  /\ Clean(s, {"dev", "buffer"})
         /\ s = XorboxExit => Elements(s) = {"cdev", "buffer", "dev", "device", "class", "region"}
         /\ s = XorboxLabels => Elements(s) = {"class", "cdev", "buffer", "dev", "region"}
<1>1. CASE s = XorboxExit
  <2>1. /\ s \in Seq(Resource) /\ Len(s) = 6 /\ s[1] = "cdev" /\ s[2] = "buffer" /\ s[3] = "dev"
        /\ s[4] = "device" /\ s[5] = "class" /\ s[6] = "region"
    BY <1>1 DEF XorboxExit, Resource
  <2>2. \A i \in 1..Len(s) : i = 1 \/ i = 2 \/ i = 3 \/ i = 4 \/ i = 5 \/ i = 6
    BY <2>1
  <2>3. Elements(s) = {"cdev", "buffer", "dev", "device", "class", "region"}
    BY <2>1, FirstFew DEF Elements
  <2>4. \A i, j \in 1..Len(s) : i < j => s[i] # s[j]
    BY <2>1, <2>2
  <2>5. \A i, j \in 1..Len(s) : s[i] \in {"dev", "buffer"} /\ s[j] \in Interface => j < i
    BY <2>1, <2>2 DEF Interface
  <2>6. XorboxExit # XorboxLabels
    BY DEF XorboxExit, XorboxLabels
  <2>. QED BY <1>1, <2>1, <2>3, <2>4, <2>5, <2>6 DEF Clean
<1>2. CASE s = XorboxLabels
  <2>1. /\ s \in Seq(Resource) /\ Len(s) = 5 /\ s[1] = "class" /\ s[2] = "cdev"
        /\ s[3] = "buffer" /\ s[4] = "dev" /\ s[5] = "region"
    BY <1>2 DEF XorboxLabels, Resource
  <2>2. \A i \in 1..Len(s) : i = 1 \/ i = 2 \/ i = 3 \/ i = 4 \/ i = 5
    BY <2>1
  <2>3. Elements(s) = {"class", "cdev", "buffer", "dev", "region"}
    BY <2>1, FirstFew DEF Elements
  <2>4. \A i, j \in 1..Len(s) : i < j => s[i] # s[j]
    BY <2>1, <2>2
  <2>5. \A i, j \in 1..Len(s) : s[i] \in {"dev", "buffer"} /\ s[j] \in Interface => j < i
    BY <2>1, <2>2 DEF Interface
  <2>6. XorboxExit # XorboxLabels
    BY DEF XorboxExit, XorboxLabels
  <2>. QED BY <1>2, <2>1, <2>3, <2>4, <2>5, <2>6 DEF Clean
<1>. QED BY <1>1, <1>2

\* The lists of simple-driver.c and tun_custom_net.c: an interface, then what it uses.
LEMMA PairClean ==
  ASSUME NEW a \in Interface, NEW b \in {"buffer", "netdev"}
  PROVE  Clean(<<a, b>>, {b}) /\ Elements(<<a, b>>) = {a, b}
<1>. DEFINE s == <<a, b>>
<1>1. /\ s \in Seq(Resource) /\ Len(s) = 2 /\ s[1] = a /\ s[2] = b /\ a # b /\ b \notin Interface
  BY DEF Resource, Interface
<1>. HIDE DEF s
<1>2. \A i \in 1..Len(s) : i = 1 \/ i = 2
  BY <1>1
<1>3. Elements(s) = {a, b}
  BY <1>1, FirstFew DEF Elements
<1>4. \A i, j \in 1..Len(s) : i < j => s[i] # s[j]
  BY <1>1, <1>2
<1>5. \A i, j \in 1..Len(s) : s[i] \in {b} /\ s[j] \in Interface => j < i
  BY <1>1, <1>2
<1>6. Clean(s, {b})
  BY <1>1, <1>3, <1>4, <1>5 DEF Clean
<1>. QED BY <1>3, <1>6 DEF s

\* The two lists of my_crypto that give back what is not owned.
LEMMA CryptoSound ==
  ASSUME driver = "crypto"
  PROVE  /\ Sound(CryptoExit, {"buffer", "chrdev", "class", "device"})
         /\ Ends(CryptoExit, {"buffer", "chrdev", "class", "device"})
         /\ Sound(<<"class", "chrdev", "message">>, {"buffer", "chrdev", "class"})
         /\ Ends(<<"class", "chrdev", "message">>, {"buffer", "chrdev", "class"})
<1>0. Excused = {"message", "class"} /\ Touched = {"buffer"}
  BY DEF Excused, Touched
<1>1. ASSUME NEW s, NEW H, s = CryptoExit, H = {"buffer", "chrdev", "class", "device"}
      PROVE  Sound(s, H) /\ Ends(s, H)
  <2>1. /\ s \in Seq(Resource) /\ Len(s) = 5 /\ s[1] = "device" /\ s[2] = "class"
        /\ s[3] = "class" /\ s[4] = "chrdev" /\ s[5] = "buffer"
    BY <1>1 DEF CryptoExit, Resource
  <2>2. \A i \in 1..Len(s) : i = 1 \/ i = 2 \/ i = 3 \/ i = 4 \/ i = 5
    BY <2>1
  <2>3. First(s, Len(s)) = {"device", "class", "chrdev", "buffer"}
    BY <2>1, FirstFew
  <2>4. \A i \in 1..Len(s) : s[i] \in H \union Excused
    BY <1>1, <2>1, <2>2
  <2>5. \A i, j \in 1..Len(s) : i < j /\ s[i] = s[j] => s[i] \in Excused
    BY <1>0, <2>1, <2>2
  <2>6. \A i, j \in 1..Len(s) : s[i] \in Touched /\ s[j] \in Interface => j < i
    BY <1>0, <2>1, <2>2 DEF Interface
  <2>7. \A x \in H \intersect Interface : Touched \subseteq H /\ \E j \in 1..Len(s) : s[j] = x
    BY <1>0, <1>1, <2>1 DEF Interface
  <2>8. H \ First(s, Len(s)) = {}
    BY <1>1, <2>3
  <2>9. Ends(s, H)
    BY <2>8 DEF Ends, Leak
  <2>. QED BY <2>1, <2>4, <2>5, <2>6, <2>7, <2>9 DEF Sound
<1>2. ASSUME NEW s, NEW H, s = <<"class", "chrdev", "message">>, H = {"buffer", "chrdev", "class"}
      PROVE  Sound(s, H) /\ Ends(s, H)
  <2>1. /\ s \in Seq(Resource) /\ Len(s) = 3 /\ s[1] = "class" /\ s[2] = "chrdev"
        /\ s[3] = "message"
    BY <1>2 DEF Resource
  <2>2. \A i \in 1..Len(s) : i = 1 \/ i = 2 \/ i = 3
    BY <2>1
  <2>3. First(s, Len(s)) = {"class", "chrdev", "message"}
    BY <2>1, FirstFew
  <2>4. \A i \in 1..Len(s) : s[i] \in H \union Excused
    BY <1>0, <1>2, <2>1, <2>2
  <2>5. \A i, j \in 1..Len(s) : i < j /\ s[i] = s[j] => s[i] \in Excused
    BY <2>1, <2>2
  <2>6. \A i, j \in 1..Len(s) : s[i] \in Touched /\ s[j] \in Interface => j < i
    BY <1>0, <2>1, <2>2 DEF Interface
  <2>7. \A x \in H \intersect Interface : Touched \subseteq H /\ \E j \in 1..Len(s) : s[j] = x
    BY <1>0, <1>2, <2>1 DEF Interface
  <2>8. H \ First(s, Len(s)) = {"buffer"} /\ "message" \notin H
    BY <1>2, <2>3
  <2>9. \E i \in 1..Len(s) : s[i] = "message"
    BY <2>1
  <2>10. Ends(s, H)
    BY <2>8, <2>9 DEF Ends
  <2>. QED BY <2>1, <2>4, <2>5, <2>6, <2>7, <2>10 DEF Sound
<1>. QED BY <1>1, <1>2
\* What the init and exit functions of a driver must be like: the interface comes
\* last of what it needs, the list of a step that fails is for what came before
\* it, and the exit function is for everything.
Laid ==
  /\ Steps \in Seq(Resource) /\ Len(Steps) >= 1
  /\ \A i \in 1..Len(Steps) : Steps[i] \in Interface => Touched \subseteq First(Steps, i - 1)
  /\ \A L : Leak(L) => L \subseteq {"buffer"} /\ L \subseteq First(Steps, 1)
  /\ \A n \in 1..Len(Steps) : \A L :
       Leak(L) => /\ Sound(Unwind(Steps[n]), L \union First(Steps, n - 1))
                  /\ Ends(Unwind(Steps[n]), L \union First(Steps, n - 1))
  /\ Sound(Exit, First(Steps, Len(Steps))) /\ Ends(Exit, First(Steps, Len(Steps)))

\* A list to give back nothing.
LEMMA NothingToRelease ==
  ASSUME NEW L, Leak(L)
  PROVE  Sound(<<>>, L) /\ Ends(<<>>, L)
<1>1. <<>> \in Seq(Resource) /\ Len(<<>>) = 0 /\ First(<<>>, 0) = {}
  BY FirstFew
<1>2. L \intersect Interface = {}
  BY DEF Leak, Interface
<1>. QED BY <1>1, <1>2 DEF Sound, Ends

\* xorbox.c: what is left of the labels after a jump into the middle.
LEMMA XorboxUnwinds ==
  ASSUME driver = "xorbox"
  PROVE  /\ Sound(Unwind("region"), {}) /\ Ends(Unwind("region"), {})
         /\ Sound(Unwind("dev"), {"region"}) /\ Ends(Unwind("dev"), {"region"})
         /\ Sound(Unwind("buffer"), {"region", "dev"}) /\ Ends(Unwind("buffer"), {"region", "dev"})
         /\ Sound(Unwind("cdev"), {"region", "dev", "buffer"})
         /\ Ends(Unwind("cdev"), {"region", "dev", "buffer"})
         /\ Sound(Unwind("class"), {"region", "dev", "buffer", "cdev"})
         /\ Ends(Unwind("class"), {"region", "dev", "buffer", "cdev"})
         /\ Sound(Unwind("device"), {"region", "dev", "buffer", "cdev", "class"})
         /\ Ends(Unwind("device"), {"region", "dev", "buffer", "cdev", "class"})
<1>0. Touched = {"dev", "buffer"}
  BY DEF Touched
<1>1. /\ Unwind("device") = SubSeq(XorboxLabels, 1, 5) /\ Unwind("class") = SubSeq(XorboxLabels, 2, 5)
      /\ Unwind("cdev") = SubSeq(XorboxLabels, 3, 5) /\ Unwind("buffer") = SubSeq(XorboxLabels, 4, 5)
      /\ Unwind("dev") = SubSeq(XorboxLabels, 5, 5) /\ Unwind("region") = SubSeq(XorboxLabels, 6, 5)
  <2>1. /\ XorboxLabel("device") = 1 /\ XorboxLabel("class") = 2 /\ XorboxLabel("cdev") = 3
        /\ XorboxLabel("buffer") = 4 /\ XorboxLabel("dev") = 5 /\ XorboxLabel("region") = 6
    BY DEF XorboxLabel
  <2>2. Len(XorboxLabels) = 5
    BY DEF XorboxLabels
  <2>. QED BY <2>1, <2>2 DEF Unwind, XorboxUnwind
<1>. DEFINE s1 == XorboxLabels
            s2 == <<"cdev", "buffer", "dev", "region">>
            s3 == <<"buffer", "dev", "region">>
            s4 == <<"dev", "region">>
            s5 == <<"region">>
            s6 == <<>>
<1>2. /\ s2 = Tail(s1) /\ Head(s1) = "class" /\ s1 # <<>>
      /\ s3 = Tail(s2) /\ Head(s2) = "cdev" /\ s2 # <<>>
      /\ s4 = Tail(s3) /\ Head(s3) = "buffer" /\ s3 # <<>>
      /\ s5 = Tail(s4) /\ Head(s4) = "dev" /\ s4 # <<>>
      /\ s6 = Tail(s5) /\ Head(s5) = "region" /\ s5 # <<>>
  BY DEF XorboxLabels
<1>3. /\ SubSeq(XorboxLabels, 1, 5) = s1 /\ SubSeq(XorboxLabels, 2, 5) = s2
      /\ SubSeq(XorboxLabels, 3, 5) = s3 /\ SubSeq(XorboxLabels, 4, 5) = s4
      /\ SubSeq(XorboxLabels, 5, 5) = s5 /\ SubSeq(XorboxLabels, 6, 5) = s6
  <2>1. s1 \in Seq(Resource) /\ Len(s1) = 5
    BY DEF XorboxLabels, Resource
  <2>2. \A n \in 0..4 : Rest(s1, n + 1) = Tail(Rest(s1, n))
    <3>. SUFFICES ASSUME NEW n \in 0..4 PROVE Rest(s1, n + 1) = Tail(Rest(s1, n))
      OBVIOUS
    <3>1. n \in 0..Len(s1) /\ n < Len(s1)
      BY <2>1
    <3>. HIDE DEF s1
    <3>. QED BY <2>1, <3>1, RestOf
  <2>3. /\ 0 + 1 = 1 /\ 1 + 1 = 2 /\ 2 + 1 = 3 /\ 3 + 1 = 4 /\ 4 + 1 = 5 /\ 5 + 1 = 6
        /\ 0 \in 0..4 /\ 1 \in 0..4 /\ 2 \in 0..4 /\ 3 \in 0..4 /\ 4 \in 0..4
    OBVIOUS
  <2>4. Rest(s1, 0) = s1
    BY <2>1, RestAll
  <2>. HIDE DEF s1, s2, s3, s4, s5, s6
  <2>5. Rest(s1, 1) = s2
    BY <1>2, <2>2, <2>3, <2>4
  <2>6. Rest(s1, 2) = s3
    BY <1>2, <2>2, <2>3, <2>5
  <2>7. Rest(s1, 3) = s4
    BY <1>2, <2>2, <2>3, <2>6
  <2>8. Rest(s1, 4) = s5
    BY <1>2, <2>2, <2>3, <2>7
  <2>9. Rest(s1, 5) = s6
    BY <1>2, <2>2, <2>3, <2>8
  <2>10. \A n \in 0..5 : Rest(s1, n) = SubSeq(XorboxLabels, n + 1, 5)
    BY <2>1 DEF Rest, s1
  <2>11. /\ SubSeq(XorboxLabels, 1, 5) = Rest(s1, 0) /\ SubSeq(XorboxLabels, 2, 5) = Rest(s1, 1)
         /\ SubSeq(XorboxLabels, 3, 5) = Rest(s1, 2) /\ SubSeq(XorboxLabels, 4, 5) = Rest(s1, 3)
         /\ SubSeq(XorboxLabels, 5, 5) = Rest(s1, 4) /\ SubSeq(XorboxLabels, 6, 5) = Rest(s1, 5)
    BY <2>3, <2>10
  <2>. QED BY <2>4, <2>5, <2>6, <2>7, <2>8, <2>9, <2>11
<1>. HIDE DEF s1, s2, s3, s4, s5, s6
<1>4. Clean(s1, Touched) /\ Elements(s1) = {"class", "cdev", "buffer", "dev", "region"}
  BY <1>0, XorboxClean DEF s1
<1>5. Clean(s2, Touched) /\ Elements(s2) = {"cdev", "buffer", "dev", "region"}
  BY <1>2, <1>4, CleanTail
<1>6. Clean(s3, Touched) /\ Elements(s3) = {"buffer", "dev", "region"}
  BY <1>2, <1>5, CleanTail
<1>7. Clean(s4, Touched) /\ Elements(s4) = {"dev", "region"}
  BY ZenonT(40), <1>2, <1>6, CleanTail
<1>8. Clean(s5, Touched) /\ Elements(s5) = {"region"}
  <2>1. Clean(s5, Touched) /\ Elements(s5) = {"dev", "region"} \ {"dev"}
    BY <1>2, <1>7, CleanTail
  <2>. QED BY <2>1
<1>9. Clean(s6, Touched) /\ Elements(s6) = {}
  BY <1>2, <1>8, CleanTail
<1>10. Sound(s6, {}) /\ Ends(s6, {})
  BY <1>9, CleanSound
<1>11. Sound(s5, {"region"}) /\ Ends(s5, {"region"})
  BY <1>8, CleanSound
<1>12. Sound(s4, {"region", "dev"}) /\ Ends(s4, {"region", "dev"})
  <2>1. Elements(s4) = {"region", "dev"}
    BY <1>7
  <2>. QED BY <1>7, <2>1, CleanSound
<1>13. Sound(s3, {"region", "dev", "buffer"}) /\ Ends(s3, {"region", "dev", "buffer"})
  <2>1. Elements(s3) = {"region", "dev", "buffer"}
    BY <1>6
  <2>. QED BY <1>6, <2>1, CleanSound
<1>14. Sound(s2, {"region", "dev", "buffer", "cdev"}) /\ Ends(s2, {"region", "dev", "buffer", "cdev"})
  <2>1. Elements(s2) = {"region", "dev", "buffer", "cdev"}
    BY <1>5
  <2>. QED BY <1>5, <2>1, CleanSound
<1>15. /\ Sound(s1, {"region", "dev", "buffer", "cdev", "class"})
       /\ Ends(s1, {"region", "dev", "buffer", "cdev", "class"})
  <2>1. Elements(s1) = {"region", "dev", "buffer", "cdev", "class"}
    BY <1>4
  <2>. QED BY <1>4, <2>1, CleanSound
<1>. QED BY <1>1, <1>3, <1>10, <1>11, <1>12, <1>13, <1>14, <1>15

\* xorbox.c: six steps, a label of its own for each, and an exit that undoes all.
LEMMA XorboxLaid == driver = "xorbox" => Laid
<1>. SUFFICES ASSUME driver = "xorbox" PROVE Laid
  OBVIOUS
<1>0. Touched = {"dev", "buffer"} /\ (\A L : Leak(L) => L = {}) /\ Exit = XorboxExit
  BY DEF Touched, Leak, Exit
<1>1. /\ Steps \in Seq(Resource) /\ Len(Steps) = 6
      /\ Steps[1] = "region" /\ Steps[2] = "dev" /\ Steps[3] = "buffer" /\ Steps[4] = "cdev"
      /\ Steps[5] = "class" /\ Steps[6] = "device"
  BY DEF Steps, XorboxSteps, Resource
<1>2. /\ First(Steps, 0) = {} /\ First(Steps, 1) = {"region"}
      /\ First(Steps, 2) = {"region", "dev"} /\ First(Steps, 3) = {"region", "dev", "buffer"}
      /\ First(Steps, 4) = {"region", "dev", "buffer", "cdev"}
      /\ First(Steps, 5) = {"region", "dev", "buffer", "cdev", "class"}
      /\ First(Steps, 6) = {"region", "dev", "buffer", "cdev", "class", "device"}
  BY <1>1, FirstFew
<1>3. ASSUME NEW n \in 1..Len(Steps), NEW L, Leak(L)
      PROVE  /\ Sound(Unwind(Steps[n]), L \union First(Steps, n - 1))
             /\ Ends(Unwind(Steps[n]), L \union First(Steps, n - 1))
  <2>1. L \union First(Steps, n - 1) = First(Steps, n - 1)
    BY <1>0, <1>3
  <2>2. n = 1 \/ n = 2 \/ n = 3 \/ n = 4 \/ n = 5 \/ n = 6
    BY <1>1
  <2>3. /\ Sound(Unwind(Steps[n]), First(Steps, n - 1))
        /\ Ends(Unwind(Steps[n]), First(Steps, n - 1))
    <3>1. CASE n = 1
      <4>1. Steps[n] = "region" /\ First(Steps, n - 1) = First(Steps, 0)
        BY <1>1, <3>1
      <4>. QED BY <1>2, <4>1, XorboxUnwinds
    <3>2. CASE n = 2
      <4>1. Steps[n] = "dev" /\ First(Steps, n - 1) = First(Steps, 1)
        BY <1>1, <3>2
      <4>. QED BY <1>2, <4>1, XorboxUnwinds
    <3>3. CASE n = 3
      <4>1. Steps[n] = "buffer" /\ First(Steps, n - 1) = First(Steps, 2)
        BY <1>1, <3>3
      <4>. QED BY <1>2, <4>1, XorboxUnwinds
    <3>4. CASE n = 4
      <4>1. Steps[n] = "cdev" /\ First(Steps, n - 1) = First(Steps, 3)
        BY <1>1, <3>4
      <4>. QED BY <1>2, <4>1, XorboxUnwinds
    <3>5. CASE n = 5
      <4>1. Steps[n] = "class" /\ First(Steps, n - 1) = First(Steps, 4)
        BY <1>1, <3>5
      <4>. QED BY <1>2, <4>1, XorboxUnwinds
    <3>6. CASE n = 6
      <4>1. Steps[n] = "device" /\ First(Steps, n - 1) = First(Steps, 5)
        BY <1>1, <3>6
      <4>. QED BY <1>2, <4>1, XorboxUnwinds
    <3>. QED BY <2>2, <3>1, <3>2, <3>3, <3>4, <3>5, <3>6
  <2>. QED BY <2>1, <2>3
<1>4. \A i \in 1..Len(Steps) : Steps[i] \in Interface => Touched \subseteq First(Steps, i - 1)
  <2>. SUFFICES ASSUME NEW i \in 1..Len(Steps), Steps[i] \in Interface
       PROVE  Touched \subseteq First(Steps, i - 1)
    OBVIOUS
  <2>1. i = 4
    BY <1>1 DEF Interface
  <2>. QED BY <1>0, <1>2, <2>1
<1>5. Sound(Exit, First(Steps, Len(Steps))) /\ Ends(Exit, First(Steps, Len(Steps)))
  <2>1. Clean(Exit, Touched) /\ Elements(Exit) = First(Steps, Len(Steps))
    BY <1>0, <1>1, <1>2, XorboxClean
  <2>. QED BY <2>1, CleanSound
<1>6. \A L : Leak(L) => L \subseteq {"buffer"} /\ L \subseteq First(Steps, 1)
  BY <1>0
<1>. QED BY <1>1, <1>3, <1>4, <1>5, <1>6 DEF Laid

\* simple-driver.c and tun_custom_net.c.
LEMMA PairLaid ==
  ASSUME NEW a \in Interface, NEW b \in {"buffer", "netdev"},
         Steps = <<b, a>>, Exit = <<a, b>>, Touched = {b}, \A L : Leak(L) => L = {},
         Unwind(b) = <<>>, Unwind(a) = <<b>>
  PROVE  Laid
<1>1. /\ Steps \in Seq(Resource) /\ Len(Steps) = 2 /\ Steps[1] = b /\ Steps[2] = a
      /\ a # b /\ b \notin Interface
  BY DEF Interface, Resource
<1>2. First(Steps, 0) = {} /\ First(Steps, 1) = {b} /\ First(Steps, 2) = {b, a}
  BY <1>1, FirstFew
<1>3. Clean(<<a, b>>, Touched) /\ Elements(<<a, b>>) = {b, a}
  <2>1. Clean(<<a, b>>, {b}) /\ Elements(<<a, b>>) = {a, b}
    BY PairClean
  <2>2. {a, b} = {b, a}
    OBVIOUS
  <2>. QED BY <2>1, <2>2
<1>4. Clean(<<b>>, Touched) /\ Elements(<<b>>) = {b}
  <2>1. Tail(<<a, b>>) = <<b>> /\ Head(<<a, b>>) = a /\ <<a, b>> # <<>>
    OBVIOUS
  <2>2. Clean(<<b>>, Touched) /\ Elements(<<b>>) = {b, a} \ {a}
    BY <1>3, <2>1, CleanTail
  <2>. QED BY <1>1, <2>2
<1>5. Sound(Exit, First(Steps, Len(Steps))) /\ Ends(Exit, First(Steps, Len(Steps)))
  BY <1>1, <1>2, <1>3, CleanSound
<1>6. Sound(<<b>>, {b}) /\ Ends(<<b>>, {b})
  BY <1>4, CleanSound
<1>7. Leak({})
  BY DEF Leak
<1>8. Sound(<<>>, {}) /\ Ends(<<>>, {})
  BY <1>7, NothingToRelease
<1>9. ASSUME NEW n \in 1..Len(Steps), NEW L, Leak(L)
      PROVE  /\ Sound(Unwind(Steps[n]), L \union First(Steps, n - 1))
             /\ Ends(Unwind(Steps[n]), L \union First(Steps, n - 1))
  <2>1. L \union First(Steps, n - 1) = First(Steps, n - 1)
    BY <1>9
  <2>2. n = 1 \/ n = 2
    BY <1>1
  <2>3. /\ Sound(Unwind(Steps[n]), First(Steps, n - 1))
        /\ Ends(Unwind(Steps[n]), First(Steps, n - 1))
    <3>1. CASE n = 1
      <4>1. Unwind(Steps[n]) = <<>> /\ First(Steps, n - 1) = {}
        BY <1>1, <1>2, <3>1
      <4>. QED BY <1>8, <4>1
    <3>2. CASE n = 2
      <4>1. Unwind(Steps[n]) = <<b>> /\ First(Steps, n - 1) = {b}
        BY <1>1, <1>2, <3>2
      <4>. QED BY <1>6, <4>1
    <3>. QED BY <2>2, <3>1, <3>2
  <2>. QED BY <2>1, <2>3
<1>10. \A i \in 1..Len(Steps) : Steps[i] \in Interface => Touched \subseteq First(Steps, i - 1)
  <2>. SUFFICES ASSUME NEW i \in 1..Len(Steps), Steps[i] \in Interface
       PROVE  Touched \subseteq First(Steps, i - 1)
    OBVIOUS
  <2>1. i = 2
    BY <1>1
  <2>. QED BY <1>2, <2>1
<1>. QED BY SMTT(30), <1>1, <1>5, <1>9, <1>10 DEF Laid

\* simple-driver.c: the buffer, then the character device.
LEMMA SimpleLaid == driver = "simple" => Laid
<1>. SUFFICES ASSUME driver = "simple" PROVE Laid
  OBVIOUS
<1>1. /\ Steps = <<"buffer", "chrdev">> /\ Exit = <<"chrdev", "buffer">>
      /\ Touched = {"buffer"} /\ \A L : Leak(L) => L = {}
  BY DEF Steps, Exit, Touched, Leak, SimpleSteps, SimpleExit
<1>2. Unwind("buffer") = <<>> /\ Unwind("chrdev") = <<"buffer">>
  BY DEF Unwind, SimpleUnwind
<1>. QED BY <1>1, <1>2, PairLaid DEF Interface

\* tun_custom_net.c: the device, then its registration.
LEMMA NetLaid == driver = "net" => Laid
<1>. SUFFICES ASSUME driver = "net" PROVE Laid
  OBVIOUS
<1>1. /\ Steps = <<"netdev", "registration">> /\ Exit = <<"registration", "netdev">>
      /\ Touched = {"netdev"} /\ \A L : Leak(L) => L = {}
  BY DEF Steps, Exit, Touched, Leak, NetSteps, NetExit
<1>2. Unwind("netdev") = <<>> /\ Unwind("registration") = <<"netdev">>
  BY DEF Unwind, NetUnwind
<1>. QED BY <1>1, <1>2, PairLaid DEF Interface

\* my_crypto.c: the buffer may be there already, left by an earlier load.
LEMMA CryptoLaid == driver = "crypto" => Laid
<1>. SUFFICES ASSUME driver = "crypto" PROVE Laid
  OBVIOUS
<1>0. Touched = {"buffer"} /\ Exit = CryptoExit
  BY DEF Touched, Exit
<1>1. /\ Steps \in Seq(Resource) /\ Len(Steps) = 4
      /\ Steps[1] = "buffer" /\ Steps[2] = "chrdev" /\ Steps[3] = "class" /\ Steps[4] = "device"
  BY DEF Steps, CryptoSteps, Resource
<1>2. /\ First(Steps, 0) = {} /\ First(Steps, 1) = {"buffer"}
      /\ First(Steps, 2) = {"buffer", "chrdev"}
      /\ First(Steps, 3) = {"buffer", "chrdev", "class"}
      /\ First(Steps, 4) = {"buffer", "chrdev", "class", "device"}
  BY <1>1, FirstFew
<1>3. \A L : Leak(L) => L \subseteq {"buffer"} /\ L \subseteq First(Steps, 1)
  BY <1>2 DEF Leak
<1>4. /\ Unwind("buffer") = <<>> /\ Unwind("chrdev") = <<"buffer">>
      /\ Unwind("class") = <<"chrdev", "buffer">>
      /\ Unwind("device") = <<"class", "chrdev", "message">>
  BY DEF Unwind, CryptoUnwind
<1>5. Clean(<<"chrdev", "buffer">>, Touched) /\ Elements(<<"chrdev", "buffer">>) = {"buffer", "chrdev"}
  BY <1>0, PairClean DEF Interface
<1>6. Clean(<<"buffer">>, Touched) /\ Elements(<<"buffer">>) = {"buffer"}
  <2>1. /\ Tail(<<"chrdev", "buffer">>) = <<"buffer">> /\ Head(<<"chrdev", "buffer">>) = "chrdev"
        /\ <<"chrdev", "buffer">> # <<>>
    OBVIOUS
  <2>2. Clean(<<"buffer">>, Touched) /\ Elements(<<"buffer">>) = {"buffer", "chrdev"} \ {"chrdev"}
    BY <1>5, <2>1, CleanTail
  <2>. QED BY <2>2
<1>7. ASSUME NEW n \in 1..Len(Steps), NEW L, Leak(L)
      PROVE  /\ Sound(Unwind(Steps[n]), L \union First(Steps, n - 1))
             /\ Ends(Unwind(Steps[n]), L \union First(Steps, n - 1))
  <2>1. CASE n = 1
    <3>1. L \union First(Steps, n - 1) = L /\ Unwind(Steps[n]) = <<>>
      BY <1>1, <1>2, <1>4, <2>1
    <3>. QED BY <1>7, <3>1, NothingToRelease
  <2>2. CASE n = 2
    <3>1. L \union First(Steps, n - 1) = {"buffer"} /\ Unwind(Steps[n]) = <<"buffer">>
      BY <1>1, <1>2, <1>3, <1>4, <1>7, <2>2
    <3>. QED BY <1>6, <3>1, CleanSound
  <2>3. CASE n = 3
    <3>1. L \union First(Steps, n - 1) = {"buffer", "chrdev"} /\ Unwind(Steps[n]) = <<"chrdev", "buffer">>
      BY <1>1, <1>2, <1>3, <1>4, <1>7, <2>3
    <3>. QED BY <1>5, <3>1, CleanSound
  <2>4. CASE n = 4
    <3>1. /\ L \union First(Steps, n - 1) = {"buffer", "chrdev", "class"}
          /\ Unwind(Steps[n]) = <<"class", "chrdev", "message">>
      BY <1>1, <1>2, <1>3, <1>4, <1>7, <2>4
    <3>. QED BY <3>1, CryptoSound
  <2>. QED BY <1>1, <2>1, <2>2, <2>3, <2>4
<1>8. \A i \in 1..Len(Steps) : Steps[i] \in Interface => Touched \subseteq First(Steps, i - 1)
  <2>. SUFFICES ASSUME NEW i \in 1..Len(Steps), Steps[i] \in Interface
       PROVE  Touched \subseteq First(Steps, i - 1)
    OBVIOUS
  <2>1. i = 2
    BY <1>1 DEF Interface
  <2>. QED BY <1>0, <1>2, <2>1
<1>9. Sound(Exit, First(Steps, Len(Steps))) /\ Ends(Exit, First(Steps, Len(Steps)))
  BY <1>0, <1>1, <1>2, CryptoSound
<1>. QED BY <1>1, <1>3, <1>7, <1>8, <1>9 DEF Laid
\* All four.
LEMMA AllLaid == IInv => Laid
BY XorboxLaid, SimpleLaid, NetLaid, CryptoLaid DEF IInv

\* The driver stays the same, and what went astray stays so.
LEMMA SameDriver ==
  ASSUME driver' = driver, stray \subseteq stray'
  PROVE  /\ Steps' = Steps /\ Exit' = Exit /\ Touched' = Touched /\ Excused' = Excused
         /\ \A s, H : Sound(s, H) => Sound(s, H)'
         /\ \A L : Leak(L) => Leak(L)'
         /\ \A s, H : Ends(s, H) => Ends(s, H)'
<1>1. Steps' = Steps /\ Exit' = Exit
  BY DEF Steps, Exit
<1>2. Touched' = Touched /\ Excused' = Excused
  BY DEF Touched, Excused
<1>3. \A s, H : Sound(s, H) => Sound(s, H)'
  BY <1>2 DEF Sound
<1>4. \A L : Leak(L) => Leak(L)'
  BY DEF Leak
<1>5. \A s, H : Ends(s, H) => Ends(s, H)'
  BY <1>4 DEF Ends
<1>. QED BY <1>1, <1>2, <1>3, <1>4, <1>5

\* What a loaded module owns is what its init function acquires.
LEMMA FullyLoaded ==
  ASSUME Laid, NEW L, Leak(L)
  PROVE  L \union First(Steps, Len(Steps)) = First(Steps, Len(Steps))
<1>1. Len(Steps) \in Nat /\ Len(Steps) >= 1 /\ L \subseteq First(Steps, 1)
  BY DEF Laid
<1>2. First(Steps, 1) \subseteq First(Steps, Len(Steps))
  BY <1>1 DEF First
<1>. QED BY <1>1, <1>2

\* The init function: it starts, acquires, fails or returns.
LEMMA InsmodStep == IInv /\ Insmod => IInv'
<1>. SUFFICES ASSUME IInv, Insmod PROVE IInv'
  OBVIOUS
<1>1. /\ Laid /\ UNCHANGED <<driver, held, files, stray>> /\ Leak(held)
      /\ phase = "absent" /\ phase' = "loading" /\ todo' = Steps
  BY AllLaid DEF Insmod, IInv
<1>2. Steps' = Steps /\ Excused' = Excused /\ Leak(held)'
  BY <1>1, SameDriver
<1>3. Loading(held, 0)'
  <2>1. Steps \in Seq(Resource) /\ Len(Steps) \in Nat /\ Rest(Steps, 0) = Steps
    BY <1>1, RestAll DEF Laid
  <2>. QED BY <1>1, <1>2, <2>1, FirstOf DEF Loading
<1>4. \E L : \E n \in 0..Len(Steps)' : Loading(L, n)'
  BY <1>3 DEF Loading
<1>5. driver = "xorbox" => files = {}
  BY <1>1 DEF IInv
<1>. QED BY <1>1, <1>2, <1>4, <1>5 DEF IInv

\* One more step of the init function succeeds: the prefix that is held grows by it.
LEMMA AcquireStep == IInv /\ Acquire => IInv'
<1>. SUFFICES ASSUME IInv, Acquire PROVE IInv'
  OBVIOUS
<1>1. /\ Laid /\ UNCHANGED <<driver, phase, files, stray>>
      /\ phase = "loading" /\ todo # <<>>
      /\ held' = held \union {Head(todo)} /\ todo' = Tail(todo)
  BY AllLaid DEF Acquire
<1>2. PICK L : \E n \in 0..Len(Steps) : Loading(L, n)
  BY <1>1 DEF IInv
<1>3. PICK n \in 0..Len(Steps) : Loading(L, n)
  BY <1>2
<1>4. Steps \in Seq(Resource) /\ Len(Steps) \in Nat
  BY <1>1 DEF Laid
<1>5. n < Len(Steps)
  BY <1>1, <1>3, <1>4, RestOf DEF Loading
<1>6. Head(todo) = Steps[n + 1] /\ Tail(todo) = Rest(Steps, n + 1)
  BY <1>3, <1>4, <1>5, RestOf DEF Loading
<1>7. Steps' = Steps /\ Excused' = Excused /\ Leak(L)'
  BY <1>1, <1>3, SameDriver DEF Loading
<1>8. Loading(L, n + 1)'
  <2>1. First(Steps, n + 1) = First(Steps, n) \union {Steps[n + 1]} /\ n + 1 \in 0..Len(Steps)
    BY <1>4, <1>5, FirstOf
  <2>. QED BY <1>1, <1>3, <1>6, <1>7, <2>1 DEF Loading
<1>9. \E K : \E m \in 0..Len(Steps)' : Loading(K, m)'
  BY <1>8 DEF Loading
<1>10. driver = "xorbox" => files = {}
  BY <1>1 DEF IInv
<1>. QED BY <1>1, <1>7, <1>9, <1>10 DEF IInv

\* A step fails: what is held is what the label it jumps to begins from.
LEMMA AcquireFailsStep == IInv /\ AcquireFails => IInv'
<1>. SUFFICES ASSUME IInv, AcquireFails PROVE IInv'
  OBVIOUS
<1>1. /\ Laid /\ UNCHANGED <<driver, held, files, stray>>
      /\ phase = "loading" /\ phase' = "unwinding" /\ todo # <<>>
      /\ todo' = Unwind(Head(todo))
  BY AllLaid DEF AcquireFails
<1>2. PICK L : \E n \in 0..Len(Steps) : Loading(L, n)
  BY <1>1 DEF IInv
<1>3. PICK n \in 0..Len(Steps) : Loading(L, n)
  BY <1>2
<1>4. Steps \in Seq(Resource) /\ Len(Steps) \in Nat
  BY <1>1 DEF Laid
<1>5. n < Len(Steps)
  BY <1>1, <1>3, <1>4, RestOf DEF Loading
<1>0. PICK s, H : s = Unwind(Steps[n + 1]) /\ H = L \union First(Steps, n)
  OBVIOUS
<1>6. todo' = s /\ held = H
  BY <1>0, <1>1, <1>3, <1>4, <1>5, RestOf DEF Loading
<1>7. Sound(s, H) /\ Ends(s, H)
  <2>1. n + 1 \in 1..Len(Steps) /\ (n + 1) - 1 = n /\ Leak(L)
    BY <1>3, <1>4, <1>5 DEF Loading
  <2>2. /\ Sound(Unwind(Steps[n + 1]), L \union First(Steps, (n + 1) - 1))
        /\ Ends(Unwind(Steps[n + 1]), L \union First(Steps, (n + 1) - 1))
    BY <1>1, <2>1 DEF Laid
  <2>. QED BY <1>0, <2>1, <2>2
<1>8. Excused' = Excused
  BY <1>1, SameDriver
<1>9. \E K, G : \E m \in 0..Len(K) : Leaving(K, G, m)'
  <2>1. Sound(s, H)' /\ Ends(s, H)'
    BY <1>1, <1>7, SameDriver
  <2>2. s \in Seq(Resource) /\ Len(s) \in Nat /\ Rest(s, 0) = s
    BY <1>7, RestAll DEF Sound
  <2>3. Leaving(s, H, 0)'
    BY <1>1, <1>6, <2>1, <2>2, FirstOf DEF Leaving
  <2>. QED BY <2>2, <2>3
<1>10. driver = "xorbox" => files = {}
  BY <1>1 DEF IInv
<1>. QED BY <1>1, <1>8, <1>9, <1>10 DEF IInv

\* The init function returns: everything is held, and opening may begin.
LEMMA InitReturnsStep == IInv /\ InitReturns => IInv'
<1>. SUFFICES ASSUME IInv, InitReturns PROVE IInv'
  OBVIOUS
<1>1. /\ Laid /\ UNCHANGED <<driver, held, todo, files, stray>>
      /\ phase = "loading" /\ phase' = "live" /\ todo = <<>>
  BY AllLaid DEF InitReturns
<1>2. PICK L : \E n \in 0..Len(Steps) : Loading(L, n)
  BY <1>1 DEF IInv
<1>3. PICK n \in 0..Len(Steps) : Loading(L, n)
  BY <1>2
<1>4. Steps \in Seq(Resource) /\ Len(Steps) \in Nat
  BY <1>1 DEF Laid
<1>5. n = Len(Steps)
  BY <1>1, <1>3, <1>4, RestOf DEF Loading
<1>6. Steps' = Steps /\ Excused' = Excused /\ Leak(L)'
  BY <1>1, <1>3, SameDriver DEF Loading
<1>7. Loading(L, Len(Steps))'
  BY <1>1, <1>3, <1>5, <1>6 DEF Loading
<1>. QED BY <1>1, <1>6, <1>7 DEF IInv
\* The exit function, and giving back one resource after the other.
LEMMA RmmodStep == IInv /\ Rmmod => IInv'
<1>. SUFFICES ASSUME IInv, Rmmod PROVE IInv'
  OBVIOUS
<1>1. /\ Laid /\ UNCHANGED <<driver, held, files, stray>>
      /\ phase = "live" /\ phase' = "unloading" /\ todo' = Exit
      /\ driver = "xorbox" => files = {}
  BY AllLaid DEF Rmmod, Pinned
<1>2. PICK L : Loading(L, Len(Steps))
  BY <1>1 DEF IInv
<1>3. PICK s, H : s = Exit /\ H = First(Steps, Len(Steps))
  OBVIOUS
<1>4. todo' = s /\ held = H /\ Sound(s, H) /\ Ends(s, H)
  BY <1>1, <1>2, <1>3, FullyLoaded DEF Loading, Laid
<1>5. Sound(s, H)' /\ Ends(s, H)' /\ Excused' = Excused
  BY <1>1, <1>4, SameDriver
<1>6. s \in Seq(Resource) /\ Len(s) \in Nat /\ Rest(s, 0) = s
  BY <1>4, RestAll DEF Sound
<1>7. Leaving(s, H, 0)'
  BY <1>1, <1>4, <1>5, <1>6, FirstOf DEF Leaving
<1>8. \E K, G : \E m \in 0..Len(K) : Leaving(K, G, m)'
  BY <1>6, <1>7
<1>. QED BY <1>1, <1>5, <1>8 DEF IInv

\* One release: what is left of the list gets shorter by what is given back.
LEMMA ReleaseStep == IInv /\ Release => IInv'
<1>. SUFFICES ASSUME IInv, Release PROVE IInv'
  OBVIOUS
<1>1. /\ UNCHANGED <<driver, phase, files>>
      /\ phase \in {"unwinding", "unloading"} /\ todo # <<>>
      /\ held' = held \ {Head(todo)} /\ todo' = Tail(todo)
      /\ stray' = IF Head(todo) \in held THEN stray ELSE stray \union {Head(todo)}
  BY DEF Release
<1>2. PICK s, H : \E n \in 0..Len(s) : Leaving(s, H, n)
  BY <1>1 DEF IInv
<1>3. PICK n \in 0..Len(s) : Leaving(s, H, n)
  BY <1>2
<1>4. /\ s \in Seq(Resource) /\ Len(s) \in Nat /\ n \in Nat
      /\ \A i \in 1..Len(s) : s[i] \in H \union Excused
      /\ \A i, j \in 1..Len(s) : i < j /\ s[i] = s[j] => s[i] \in Excused
      /\ todo = Rest(s, n) /\ held = H \ First(s, n)
      /\ \A i \in 1..n : s[i] \notin H => s[i] \in stray
  BY <1>3 DEF Leaving, Sound
<1>5. n < Len(s)
  BY <1>1, <1>3, <1>4, RestOf
<1>6. /\ Head(todo) = s[n + 1] /\ Tail(todo) = Rest(s, n + 1)
      /\ n + 1 \in 1..Len(s) /\ First(s, n + 1) = First(s, n) \union {s[n + 1]}
  BY <1>3, <1>4, <1>5, RestOf, FirstOf
<1>7. stray \subseteq stray'
  BY <1>1
<1>8. Sound(s, H)' /\ Ends(s, H)' /\ Excused' = Excused
  BY <1>1, <1>3, <1>7, SameDriver DEF Leaving
<1>9. \A i \in 1..(n + 1) : s[i] \notin H => s[i] \in stray'
  <2>. SUFFICES ASSUME NEW i \in 1..(n + 1), s[i] \notin H PROVE s[i] \in stray'
    OBVIOUS
  <2>1. CASE i = n + 1
    BY <1>1, <1>4, <1>6, <2>1
  <2>2. CASE i \in 1..n
    BY <1>4, <1>7, <2>2
  <2>. QED BY <1>4, <2>1, <2>2
<1>10. Leaving(s, H, n + 1)'
  <2>1. held' = H \ First(s, n + 1)
    BY <1>1, <1>4, <1>6
  <2>2. n + 1 \in 0..Len(s)
    BY <1>4, <1>5
  <2>. QED BY <1>1, <1>6, <1>8, <1>9, <2>1, <2>2 DEF Leaving
<1>11. stray' \subseteq Excused
  <2>1. ASSUME s[n + 1] \notin held PROVE s[n + 1] \in Excused
    <3>1. CASE s[n + 1] \notin H
      BY <1>4, <1>6, <3>1
    <3>2. CASE s[n + 1] \in First(s, n)
      <4>1. PICK i \in 1..n : s[i] = s[n + 1]
        BY <3>2 DEF First
      <4>2. i \in 1..Len(s) /\ i < n + 1
        BY <1>4, <1>5
      <4>. QED BY <1>4, <1>6, <4>1, <4>2
    <3>. QED BY <1>4, <2>1, <3>1, <3>2
  <2>. QED BY <1>1, <1>6, <2>1 DEF IInv
<1>12. driver = "xorbox" => files = {}
  BY <1>1 DEF IInv
<1>13. \E K, G : \E m \in 0..Len(K) : Leaving(K, G, m)'
  <2>1. n + 1 \in 0..Len(s)
    BY <1>4, <1>5
  <2>. QED BY <1>10, <2>1
<1>. QED BY <1>1, <1>8, <1>11, <1>12, <1>13 DEF IInv

\* The list is finished: at most the buffer of my_crypto is left behind.
LEMMA GoneStep == IInv /\ Gone => IInv'
<1>. SUFFICES ASSUME IInv, Gone PROVE IInv'
  OBVIOUS
<1>1. /\ UNCHANGED <<driver, held, todo, files, stray>>
      /\ phase \in {"unwinding", "unloading"} /\ phase' = "absent" /\ todo = <<>>
  BY DEF Gone
<1>2. PICK s, H : \E n \in 0..Len(s) : Leaving(s, H, n)
  BY <1>1 DEF IInv
<1>3. PICK n \in 0..Len(s) : Leaving(s, H, n)
  BY <1>2
<1>4. s \in Seq(Resource) /\ Len(s) \in Nat
  BY <1>3 DEF Leaving, Sound
<1>5. n = Len(s)
  BY <1>1, <1>3, <1>4, RestOf DEF Leaving
<1>6. Leak(held)
  BY <1>3, <1>5 DEF Leaving, Ends, Leak
<1>7. Leak(held)' /\ Excused' = Excused
  <2>1. held' = held
    BY <1>1
  <2>. QED BY <1>1, <1>6, <2>1 DEF Leak, Excused
<1>8. driver = "xorbox" => files = {}
  BY <1>1 DEF IInv
<1>. QED BY <1>1, <1>7, <1>8 DEF IInv

\* A step that changes at most the open files.
LEMMA Standing ==
  ASSUME IInv, UNCHANGED <<driver, phase, held, todo, stray>>,
         driver = "xorbox" /\ files' # {} => phase \in {"loading", "live"} /\ todo = <<>>
  PROVE  IInv'
<1>1. /\ Steps' = Steps /\ Excused' = Excused
      /\ \A L : Leak(L) => Leak(L)'
      /\ \A s, H : (Sound(s, H) => Sound(s, H)') /\ (Ends(s, H) => Ends(s, H)')
  BY SameDriver
<1>2. \A L, n : Loading(L, n) => Loading(L, n)'
  BY <1>1 DEF Loading
<1>3. \A s, H, n : Leaving(s, H, n) => Leaving(s, H, n)'
  BY <1>1 DEF Leaving
<1>4. Leak(held) => Leak(held)'
  BY DEF Leak
<1>. QED BY <1>1, <1>2, <1>3, <1>4 DEF IInv

\* A file is opened, on xorbox only once its init function has made the device
\* node in its last step, or closed.
LEMMA FileStep == ASSUME IInv, NEW p \in Process, Open(p) \/ Close(p) PROVE IInv'
<1>1. UNCHANGED <<driver, phase, held, todo, stray>>
  BY DEF Open, Close
<1>2. driver = "xorbox" /\ files' # {} => phase \in {"loading", "live"} /\ todo = <<>>
  <2>1. CASE Close(p)
    BY <2>1 DEF Close, IInv
  <2>2. CASE Open(p)
    <3>. SUFFICES ASSUME driver = "xorbox" PROVE phase \in {"loading", "live"} /\ todo = <<>>
      OBVIOUS
    <3>1. phase \in {"loading", "live"} /\ "device" \in held
      BY <2>2 DEF Open, Node, Pinned
    <3>2. PICK L : \E n \in 0..Len(Steps) : Loading(L, n)
      <4>1. CASE phase = "loading"
        BY <4>1 DEF IInv
      <4>2. CASE phase = "live"
        <5>1. PICK L : Loading(L, Len(Steps))
          BY <4>2 DEF IInv
        <5>. QED BY <5>1 DEF Loading
      <4>. QED BY <3>1, <4>1, <4>2
    <3>3. PICK n \in 0..Len(Steps) : Loading(L, n)
      BY <3>2
    <3>4. /\ Steps \in Seq(Resource) /\ Len(Steps) = 6
          /\ Steps[1] = "region" /\ Steps[2] = "dev" /\ Steps[3] = "buffer" /\ Steps[4] = "cdev"
          /\ Steps[5] = "class" /\ Steps[6] = "device"
      BY DEF Steps, XorboxSteps, Resource
    <3>5. "device" \in First(Steps, n)
      BY <3>1, <3>3 DEF Loading, Leak
    <3>6. PICK i \in 1..n : Steps[i] = "device"
      BY <3>5 DEF First
    <3>7. n = 6
      BY <3>4, <3>6
    <3>. QED BY <3>1, <3>3, <3>4, <3>7, RestOf DEF Loading
  <2>. QED BY <2>1, <2>2
<1>. QED BY <1>1, <1>2, Standing

\* A driver not loaded yet holds nothing.
LEMMA InitInv == Init => IInv
BY DriverAssumption DEF Init, IInv, Leak, Excused

\* Every step keeps the invariant.
LEMMA NextInv == IInv /\ [Next]_vars => IInv'
<1>1. IInv /\ Next => IInv'
  BY InsmodStep, AcquireStep, AcquireFailsStep, InitReturnsStep, RmmodStep, ReleaseStep,
     GoneStep, FileStep DEF Next
<1>2. IInv /\ UNCHANGED vars => IInv'
  <2>. SUFFICES ASSUME IInv, UNCHANGED vars PROVE IInv'
    OBVIOUS
  <2>1. UNCHANGED <<driver, phase, held, todo, stray>> /\ files' = files
    BY DEF vars
  <2>2. driver = "xorbox" /\ files' # {} => phase \in {"loading", "live"} /\ todo = <<>>
    BY <2>1 DEF IInv
  <2>. QED BY <2>1, <2>2, Standing
<1>. QED BY <1>1, <1>2
\* Loading, failing and unloading keep the account of what is owned.
THEOREM Invariance == Spec => []IInv
BY InitInv, NextInv, PTL DEF Spec

\* Every error path and every exit function gives back what the module owns, once;
\* my_crypto.c frees a message for its buffer and unregisters its class twice.
THEOREM ReleasesWhatItOwns == Spec => []OnlyOwnedReleased
<1>1. IInv => OnlyOwnedReleased
  BY DEF IInv, Excused, OnlyOwnedReleased
<1>. QED BY <1>1, Invariance, PTL

\* A module that is gone has left nothing, but for the buffer of my_crypto.c.
THEOREM LeavesNothing == Spec => []NothingLeaked
<1>1. IInv => NothingLeaked
  BY DEF IInv, Leak, NothingLeaked
<1>. QED BY <1>1, Invariance, PTL

\* While an interface is registered, what its operations work on is there: the
\* init functions acquire it before, the error paths and exit functions free it
\* after.  Of a file that stays open when the interface is gone nothing is said.
THEOREM InterfaceBacked == Spec => []PublishedBacked
<1>1. ASSUME IInv, Published PROVE Touched \subseteq held
  <2>. USE AllLaid
  <2>1. PICK x \in held : x \in Interface
    BY <1>1 DEF Published, Interface
  <2>2. ASSUME NEW L, NEW n \in 0..Len(Steps), Loading(L, n)
        PROVE  Touched \subseteq held
    <3>1. /\ held = L \union First(Steps, n) /\ L \subseteq {"buffer"} /\ Len(Steps) \in Nat
          /\ \A i \in 1..Len(Steps) : Steps[i] \in Interface => Touched \subseteq First(Steps, i - 1)
      BY <1>1, <2>2 DEF Loading, Laid
    <3>2. x \in First(Steps, n)
      BY <2>1, <3>1 DEF Interface
    <3>3. PICK i \in 1..n : Steps[i] = x
      BY <3>2 DEF First
    <3>4. Touched \subseteq First(Steps, i - 1)
      BY <2>1, <3>1, <3>3
    <3>5. First(Steps, i - 1) \subseteq First(Steps, n)
      BY <3>1 DEF First
    <3>. QED BY <3>1, <3>4, <3>5
  <2>3. ASSUME NEW s, NEW H, NEW n \in 0..Len(s), Leaving(s, H, n)
        PROVE  Touched \subseteq held
    <3>1. /\ s \in Seq(Resource) /\ held = H \ First(s, n) /\ Len(s) \in Nat
          /\ \A i, j \in 1..Len(s) : s[i] \in Touched /\ s[j] \in Interface => j < i
          /\ Touched \subseteq H /\ \E j \in 1..Len(s) : s[j] = x
      BY <2>1, <2>3 DEF Leaving, Sound
    <3>2. PICK j \in 1..Len(s) : s[j] = x
      BY <3>1
    <3>3. j > n
      BY <2>1, <3>1, <3>2 DEF First
    <3>4. ASSUME NEW t \in Touched, t \in First(s, n) PROVE FALSE
      <4>1. PICK i \in 1..n : s[i] = t
        BY <3>4 DEF First
      <4>2. i \in 1..Len(s) /\ i < j
        BY <3>1, <3>2, <3>3
      <4>3. j < i
        BY <2>1, <3>1, <3>2, <4>1, <4>2
      <4>. QED BY <3>1, <4>2, <4>3
    <3>. QED BY <3>1, <3>4
  <2>4. ~Leak(held)
    BY <2>1 DEF Leak, Interface
  <2>5. Len(Steps) \in 0..Len(Steps)
    BY <1>1 DEF Laid
  <2>. QED BY <1>1, <2>2, <2>3, <2>4, <2>5 DEF IInv
<1>. QED BY <1>1, Invariance, PTL DEF PublishedBacked

\* xorbox.c: its owner and its last step, device_create, see to it that an open
\* file finds the device and the buffer.
THEOREM XorboxFilesSafe == Spec => []XorboxFilesBacked
<1>1. ASSUME IInv, driver = "xorbox", files # {} PROVE Touched \subseteq held
  <2>1. phase \in {"loading", "live"} /\ todo = <<>> /\ Laid
    BY <1>1, AllLaid DEF IInv
  <2>2. Steps \in Seq(Resource) /\ Len(Steps) \in Nat
    BY <2>1 DEF Laid
  <2>3. PICK L : Loading(L, Len(Steps))
    <3>1. CASE phase = "live"
      BY <1>1, <3>1 DEF IInv
    <3>2. CASE phase = "loading"
      <4>1. PICK L : \E n \in 0..Len(Steps) : Loading(L, n)
        BY <1>1, <3>2 DEF IInv
      <4>2. PICK n \in 0..Len(Steps) : Loading(L, n)
        BY <4>1
      <4>3. n = Len(Steps)
        BY <2>1, <2>2, <4>2, RestOf DEF Loading
      <4>. QED BY <4>2, <4>3
    <3>. QED BY <2>1, <3>1, <3>2
  <2>4. /\ Len(Steps) = 6 /\ Steps[2] = "dev" /\ Steps[3] = "buffer" /\ Touched = {"dev", "buffer"}
    BY <1>1 DEF Steps, XorboxSteps, Touched
  <2>5. "dev" \in First(Steps, 6) /\ "buffer" \in First(Steps, 6)
    BY <2>4 DEF First
  <2>. QED BY <2>3, <2>4, <2>5 DEF Loading
<1>. QED BY <1>1, Invariance, PTL DEF XorboxFilesBacked
=============================================================================
