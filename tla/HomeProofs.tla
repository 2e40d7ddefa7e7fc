----------------------------- MODULE HomeProofs -----------------------------
(***************************************************************************)
(* Theorems about Home: what an install put there on its own stays there   *)
(* and listed, and a change of a manifest leaves it and the lock file      *)
(* fitting each other, whatever the packages, their binaries and the       *)
(* dependencies, however many run at once, and wherever one is killed.     *)
(***************************************************************************)
EXTENDS Home, SourcesProofs

-----------------------------------------------------------------------------
(* Installs: what a state holds. *)

Lists          == UNION {[some -> SUBSET Installing!Binaries] : some \in SUBSET Packages}
Recorded(l, o) == o[1] \in DOMAIN l /\ o[2] \in l[o[1]]
KeptOf(u)      == IF u.pc \in {"copy", "read", "write"} THEN u.kept ELSE {}
Copies(u, x)   == u.pc = "copy" /\ u.at # <<>> /\ u.at[1] = x
Relies(u)      == u.pc \in {"write", "unlink"}

\* The records of the commands.
Starter(u)   == u \in [pc : {u.pc}, pkg : {u.pkg}, force : {u.force}, only : {u.only}]
Copier(u)    == u \in [pc : {u.pc}, pkg : {u.pkg}, force : {u.force}, todo : {u.todo}, at : {u.at},
                       copied : {u.copied}, kept : {u.kept}]
Lister(u)    == u \in [pc : {u.pc}, pkg : {u.pkg}, copied : {u.copied}, kept : {u.kept}, read : {u.read},
                       crossed : {u.crossed}]
Remover(u)   == u \in [pc : {u.pc}, pkg : {u.pkg}, todo : {u.todo}, read : {u.read}, crossed : {u.crossed}]

CopierSound(u) ==
  /\ Copier(u) /\ u.pkg \in Packages
  /\ u.copied \subseteq Installing!Binaries /\ u.todo \subseteq Installing!Binaries
  /\ \A x \in u.copied : x \notin u.todo
  /\ u.at # <<>> => u.pc = "copy" /\ u.at[1] \in u.todo
  /\ \A k \in u.kept : k[1] \in u.copied \/ (u.at # <<>> /\ k = u.at)
ListerSound(u) ==
  /\ Lister(u) /\ u.pkg \in Packages /\ u.copied \subseteq Installing!Binaries
  /\ u.read \in Lists /\ u.crossed \in BOOLEAN
  /\ \A k \in u.kept : k[1] \in u.copied
RemoverSound(u) == Remover(u) /\ u.read \in Lists /\ u.crossed \in BOOLEAN
Shaped(u) ==
  /\ u.pc \in {"idle", "build", "built", "copy", "read", "write", "unlink"}
  /\ u.pc \in {"build", "built"} => Starter(u) /\ u.pkg \in Packages
  /\ u.pc \in {"copy", "read"} => CopierSound(u)
  /\ u.pc = "write" => ListerSound(u)
  /\ u.pc = "unlink" => RemoverSound(u)

\* What an install copied alone is there, but for what it is copying; what is being copied is owed
\* to nobody, and no other install has it.
KeptThere == \A p \in Procs : \A k \in KeptOf(user[p]) : Copies(user[p], k[1]) \/ bin[k[1]] = k[2]
CopiedAlone ==
  \A p \in Procs : \A x : Copies(user[p], x) =>
    /\ \A o \in owed : o[2] # x
    /\ \A q \in Procs \ {p} : \A k \in KeptOf(user[q]) : k[1] # x
\* A command that is about the list alone has all in it that is owed.
Relied ==
  \A p \in Procs : Relies(user[p]) =>
    IF user[p].crossed THEN owed = {}
    ELSE /\ \A q \in Procs \ {p} : ~Relies(user[q])
         /\ \A o \in owed : Recorded(user[p].read, o) /\ (user[p].pc = "unlink" => o[1] # user[p].pkg)
OwedSound == \A o \in owed : bin[o[2]] = o[3] /\ list # Torn /\ Recorded(list, o)
InstallInv ==
  /\ rules \in Rules
  /\ user = [p \in Procs |-> user[p]]
  /\ DOMAIN bin = Installing!Binaries
  /\ list = Torn \/ list \in Lists
  /\ \A p \in Procs : Shaped(user[p])
  /\ KeptThere /\ CopiedAlone /\ Relied /\ OwedSound

\* A list with one entry more is a list, and lists no less.
LEMMA PutLists ==
  ASSUME NEW l \in Lists, NEW pkg \in Packages, NEW b \in SUBSET Installing!Binaries
  PROVE  /\ Installing!Put(l, pkg, b) \in Lists
         /\ \A o : o[1] # pkg /\ Recorded(l, o) => Recorded(Installing!Put(l, pkg, b), o)
         /\ \A o : o[1] = pkg /\ o[2] \in b => Recorded(Installing!Put(l, pkg, b), o)
<1> DEFINE m == Installing!Put(l, pkg, b)
<1>1. PICK some \in SUBSET Packages : l \in [some -> SUBSET Installing!Binaries]
  BY DEF Lists
<1>2. m = [y \in some \cup {pkg} |-> IF y = pkg THEN b ELSE l[y]]
  BY <1>1 DEF Installing!Put
<1>3. m \in [some \cup {pkg} -> SUBSET Installing!Binaries] /\ some \cup {pkg} \in SUBSET Packages
  BY <1>1, <1>2
<1>4. m \in Lists
  BY <1>3 DEF Lists
<1>5. DOMAIN m = some \cup {pkg} /\ m[pkg] = b /\ \A y \in some : y # pkg => m[y] = l[y]
  BY <1>2
<1> HIDE DEF m
<1>6. /\ \A o : o[1] # pkg /\ Recorded(l, o) => Recorded(m, o)
      /\ \A o : o[1] = pkg /\ o[2] \in b => Recorded(m, o)
  BY <1>1, <1>5 DEF Recorded
<1> QED
  BY <1>4, <1>6 DEF m

\* A list with one entry less.
LEMMA RestrictLists ==
  ASSUME NEW l \in Lists, NEW pkg
  PROVE  LET m == Installing!Restrict(l, DOMAIN l \ {pkg}) IN
         /\ m \in Lists
         /\ \A o : o[1] # pkg /\ Recorded(l, o) => Recorded(m, o)
<1> DEFINE m == Installing!Restrict(l, DOMAIN l \ {pkg})
<1>1. PICK some \in SUBSET Packages : l \in [some -> SUBSET Installing!Binaries]
  BY DEF Lists
<1>2. m = [y \in some \ {pkg} |-> l[y]]
  BY <1>1 DEF Installing!Restrict
<1>3. m \in [some \ {pkg} -> SUBSET Installing!Binaries] /\ some \ {pkg} \in SUBSET Packages
  BY <1>1, <1>2
<1>4. m \in Lists
  BY <1>3 DEF Lists
<1>5. DOMAIN m = some \ {pkg} /\ \A y \in some : y # pkg => m[y] = l[y]
  BY <1>2
<1> HIDE DEF m
<1>6. \A o : o[1] # pkg /\ Recorded(l, o) => Recorded(m, o)
  BY <1>1, <1>5 DEF Recorded
<1> QED
  BY <1>4, <1>6 DEF m

LEMMA NoListLists == Installing!NoList \in Lists
<1>1. Installing!NoList \in [{} -> SUBSET Installing!Binaries] /\ {} \in SUBSET Packages
  BY DEF Installing!NoList
<1> QED
  BY <1>1 DEF Lists

LEMMA TornIsNoList == Torn \notin Lists
BY HomeAssumption DEF Lists

LEMMA Entered ==
  ASSUME InstallInv
  PROVE  Installing!Entries \in Lists /\ (owed # {} => Installing!Entries = list)
BY NoListLists DEF Installing!Entries, InstallInv, OwedSound

LEMMA InitInstalls == HomeInit => InstallInv
<1> SUFFICES ASSUME HomeInit PROVE InstallInv
  OBVIOUS
<1>1. /\ rules \in Rules /\ owed = {} /\ list = Installing!NoList
      /\ bin = [x \in Installing!Binaries |-> None]
      /\ user = [p \in Procs |-> [pc |-> "idle"]]
  BY DEF HomeInit, Init, Installing!Init, Installing!Quiet
<1>2. \A p \in Procs : user[p].pc = "idle"
  BY <1>1
<1> QED
  BY <1>1, <1>2, NoListLists
     DEF InstallInv, Shaped, KeptThere, CopiedAlone, Relied, OwedSound, KeptOf, Copies, Relies

LEMMA InstallsKept ==
  ASSUME InstallInv, UNCHANGED <<rules, installed>>
  PROVE  InstallInv'
BY DEF installed, InstallInv, KeptThere, CopiedAlone, Relied, OwedSound

\* A command that keeps nothing, copies nothing and relies on nothing.
Light(v) == KeptOf(v) = {} /\ ~Relies(v) /\ \A x : ~Copies(v, x)

LEMMA UserRests ==
  ASSUME NEW v, v.pc \in {"idle", "build", "built"}
  PROVE  Light(v)
BY DEF Light, KeptOf, Relies, Copies

LEMMA QuietIsShaped == Shaped(Installing!Quiet) /\ Light(Installing!Quiet)
<1>1. Installing!Quiet.pc = "idle"
  BY DEF Installing!Quiet
<1> QED
  BY <1>1, UserRests DEF Shaped

\* What only one process knows of.
LEMMA UserThinks ==
  ASSUME InstallInv, UNCHANGED <<rules, bin>>, NEW p \in Procs, NEW v, user' = [user EXCEPT ![p] = v],
         Shaped(v), Light(v), list' = Torn \/ list' \in Lists, OwedSound',
         owed' \subseteq owed
  PROVE  InstallInv'
<1>1. user'[p] = v /\ user' = [q \in Procs |-> user'[q]] /\ \A q \in Procs \ {p} : user'[q] = user[q]
  BY DEF InstallInv
<1>2. /\ \A q \in Procs : \A k : k \in KeptOf(user'[q]) => q # p /\ k \in KeptOf(user[q])
      /\ \A q \in Procs : \A x : Copies(user'[q], x) => q # p /\ Copies(user[q], x)
      /\ \A q \in Procs : Relies(user'[q]) => q # p /\ Relies(user[q])
  BY <1>1 DEF Light
<1>3. KeptThere'
  <2> SUFFICES ASSUME NEW q \in Procs, NEW k \in KeptOf(user'[q]), ~Copies(user'[q], k[1])
               PROVE  bin'[k[1]] = k[2]
    BY DEF KeptThere
  <2>1. k \in KeptOf(user[q]) /\ ~Copies(user[q], k[1])
    BY <1>1, <1>2
  <2> QED
    BY <2>1 DEF InstallInv, KeptThere
<1>4. CopiedAlone'
  <2> SUFFICES ASSUME NEW q \in Procs, NEW x, Copies(user'[q], x)
               PROVE  /\ \A o \in owed' : o[2] # x
                      /\ \A r \in Procs \ {q} : \A k \in KeptOf(user'[r]) : k[1] # x
    BY DEF CopiedAlone
  <2>1. Copies(user[q], x)
    BY <1>2
  <2> QED
    BY <1>2, <2>1 DEF InstallInv, CopiedAlone
<1>5. Relied'
  <2> SUFFICES ASSUME NEW q \in Procs, Relies(user'[q])
               PROVE  IF user'[q].crossed THEN owed' = {}
                      ELSE /\ \A r \in Procs \ {q} : ~Relies(user'[r])
                           /\ \A o \in owed' : /\ Recorded(user'[q].read, o)
                                               /\ user'[q].pc = "unlink" => o[1] # user'[q].pkg
    BY DEF Relied
  <2>1. q # p /\ Relies(user[q]) /\ user'[q] = user[q]
    BY <1>1, <1>2
  <2> QED
    BY <1>2, <2>1 DEF InstallInv, Relied
<1> QED
  BY <1>1, <1>3, <1>4, <1>5 DEF InstallInv

\* The others learn that p begins to rely on the list as well.
LEMMA Crosses ==
  ASSUME InstallInv, NEW p \in Procs, NEW v, Installing!Crossing(p, v)
  PROVE  /\ user'[p] = v /\ user' = [q \in Procs |-> user'[q]]
         /\ \A q \in Procs \ {p} : /\ Shaped(user'[q]) /\ KeptOf(user'[q]) = KeptOf(user[q])
                                   /\ \A x : Copies(user'[q], x) <=> Copies(user[q], x)
                                   /\ Relies(user'[q]) <=> Relies(user[q])
                                   /\ Relies(user'[q]) => user'[q].crossed = TRUE
<1>1. user' = [q \in Procs |-> IF q = p THEN v
                               ELSE IF Relies(user[q]) THEN [user[q] EXCEPT !.crossed = TRUE]
                               ELSE user[q]]
  BY DEF Installing!Crossing, Installing!Relying, Relies
<1>2. ASSUME NEW q \in Procs \ {p}
      PROVE  /\ Shaped(user'[q]) /\ KeptOf(user'[q]) = KeptOf(user[q])
             /\ \A x : Copies(user'[q], x) <=> Copies(user[q], x)
             /\ Relies(user'[q]) <=> Relies(user[q])
             /\ Relies(user'[q]) => user'[q].crossed = TRUE
  <2> DEFINE u == user[q]
             w == user'[q]
  <2>1. Shaped(u)
    BY DEF InstallInv
  <2>2. CASE ~Relies(u)
    <3>1. w = u
      BY <1>1, <2>2
    <3> QED
      BY <2>1, <2>2, <3>1
  <2>3. CASE u.pc = "write"
    <3>1. w = [u EXCEPT !.crossed = TRUE] /\ ListerSound(u)
      BY <1>1, <2>1, <2>3 DEF Relies, Shaped
    <3>2. /\ Lister(w) /\ w.pc = "write" /\ w.pkg = u.pkg /\ w.copied = u.copied /\ w.kept = u.kept
          /\ w.read = u.read /\ w.crossed = TRUE
      BY <2>3, <3>1 DEF ListerSound, Lister
    <3>3. ListerSound(w)
      BY <3>1, <3>2 DEF ListerSound
    <3> QED
      BY <2>3, <3>2, <3>3 DEF Shaped, KeptOf, Copies, Relies
  <2>4. CASE u.pc = "unlink"
    <3>1. w = [u EXCEPT !.crossed = TRUE] /\ RemoverSound(u)
      BY <1>1, <2>1, <2>4 DEF Relies, Shaped
    <3>2. Remover(w) /\ w.pc = "unlink" /\ w.read = u.read /\ w.crossed = TRUE
      BY <2>4, <3>1 DEF RemoverSound, Remover
    <3>3. RemoverSound(w)
      BY <3>1, <3>2 DEF RemoverSound
    <3> QED
      BY <2>4, <3>2, <3>3 DEF Shaped, KeptOf, Copies, Relies
  <2> QED
    BY <2>2, <2>3, <2>4 DEF Relies
<1> QED
  BY <1>1, <1>2

\* The others lose what they had at x.
LEMMA Disowns ==
  ASSUME InstallInv, NEW p \in Procs, NEW x, NEW v, Installing!Disown(p, x, v)
  PROVE  /\ user'[p] = v /\ user' = [q \in Procs |-> user'[q]]
         /\ \A q \in Procs \ {p} :
              /\ Shaped(user'[q])
              /\ \A k : k \in KeptOf(user'[q]) <=> k \in KeptOf(user[q]) /\ k[1] # x
              /\ \A y : Copies(user'[q], y) <=> Copies(user[q], y)
              /\ Relies(user'[q]) <=> Relies(user[q])
              /\ Relies(user'[q]) => /\ user'[q].crossed = user[q].crossed /\ user'[q].read = user[q].read
                                     /\ user'[q].pc = user[q].pc /\ user'[q].pkg = user[q].pkg
<1>1. user' = [q \in Procs |-> IF q = p THEN v
                               ELSE IF user[q].pc \in {"copy", "read", "write"}
                               THEN [user[q] EXCEPT !.kept = {k \in @ : k[1] # x}]
                               ELSE user[q]]
  BY DEF Installing!Disown
<1>2. ASSUME NEW q \in Procs \ {p}
      PROVE  /\ Shaped(user'[q])
             /\ \A k : k \in KeptOf(user'[q]) <=> k \in KeptOf(user[q]) /\ k[1] # x
             /\ \A y : Copies(user'[q], y) <=> Copies(user[q], y)
             /\ Relies(user'[q]) <=> Relies(user[q])
             /\ Relies(user'[q]) => /\ user'[q].crossed = user[q].crossed /\ user'[q].read = user[q].read
                                    /\ user'[q].pc = user[q].pc /\ user'[q].pkg = user[q].pkg
  <2> DEFINE u == user[q]
             w == user'[q]
             rest == {k \in u.kept : k[1] # x}
  <2>1. Shaped(u)
    BY DEF InstallInv
  <2>2. CASE u.pc \notin {"copy", "read", "write"}
    <3>1. w = u
      BY <1>1, <2>2
    <3> QED
      BY <2>1, <2>2, <3>1 DEF KeptOf
  <2>3. CASE u.pc = "write"
    <3>1. w = [u EXCEPT !.kept = rest] /\ ListerSound(u)
      BY <1>1, <2>1, <2>3 DEF Shaped
    <3>2. /\ Lister(w) /\ w.pc = "write" /\ w.pkg = u.pkg /\ w.copied = u.copied /\ w.kept = rest
          /\ w.read = u.read /\ w.crossed = u.crossed
      BY <2>3, <3>1 DEF ListerSound, Lister
    <3>3. ListerSound(w)
      BY <3>1, <3>2 DEF ListerSound
    <3> QED
      BY <2>3, <3>2, <3>3 DEF Shaped, KeptOf, Copies, Relies
  <2>4. CASE u.pc \in {"copy", "read"}
    <3>1. w = [u EXCEPT !.kept = rest] /\ CopierSound(u)
      BY <1>1, <2>1, <2>4 DEF Shaped
    <3>2. /\ Copier(w) /\ w.pc = u.pc /\ w.pkg = u.pkg /\ w.todo = u.todo /\ w.at = u.at
          /\ w.copied = u.copied /\ w.kept = rest
      BY <2>4, <3>1 DEF CopierSound, Copier
    <3>3. CopierSound(w)
      BY <3>1, <3>2 DEF CopierSound
    <3> QED
      BY <2>4, <3>2, <3>3 DEF Shaped, KeptOf, Copies, Relies
  <2> QED
    BY <2>2, <2>3, <2>4
<1> QED
  BY <1>1, <1>2

\* p begins to rely on the list, alone or as one more.
LEMMA BeginsToRely ==
  ASSUME InstallInv, UNCHANGED <<rules, bin, list>>, NEW p \in Procs, NEW v, Installing!Crossing(p, v),
         Shaped(v), ~Relies(user[p]), Relies(v), KeptOf(v) \subseteq KeptOf(user[p]),
         \A x : ~Copies(v, x) /\ ~Copies(user[p], x),
         owed' \subseteq owed,
         IF Installing!Meets(p) THEN v.crossed = TRUE /\ owed' = {}
         ELSE /\ v.crossed = FALSE
              /\ \A o \in owed' : Recorded(v.read, o) /\ (v.pc = "unlink" => o[1] # v.pkg)
  PROVE  InstallInv'
<1>1. /\ user'[p] = v /\ user' = [q \in Procs |-> user'[q]]
      /\ \A q \in Procs \ {p} : /\ Shaped(user'[q]) /\ KeptOf(user'[q]) = KeptOf(user[q])
                                /\ \A x : Copies(user'[q], x) <=> Copies(user[q], x)
                                /\ Relies(user'[q]) <=> Relies(user[q])
                                /\ Relies(user'[q]) => user'[q].crossed = TRUE
  BY Crosses
<1>2. \A q \in Procs : KeptOf(user'[q]) \subseteq KeptOf(user[q])
  BY <1>1
<1>3. \A q \in Procs : \A x : Copies(user'[q], x) <=> Copies(user[q], x)
  BY <1>1
<1>4. KeptThere'
  <2> SUFFICES ASSUME NEW q \in Procs, NEW k \in KeptOf(user'[q]), ~Copies(user'[q], k[1])
               PROVE  bin'[k[1]] = k[2]
    BY DEF KeptThere
  <2> QED
    BY <1>2, <1>3 DEF InstallInv, KeptThere
<1>5. CopiedAlone'
  <2> SUFFICES ASSUME NEW q \in Procs, NEW x, Copies(user'[q], x)
               PROVE  /\ \A o \in owed' : o[2] # x
                      /\ \A r \in Procs \ {q} : \A k \in KeptOf(user'[r]) : k[1] # x
    BY DEF CopiedAlone
  <2> QED
    BY <1>2, <1>3 DEF InstallInv, CopiedAlone
<1>6. Installing!Meets(p) <=> \E q \in Procs \ {p} : Relies(user[q])
  BY DEF Installing!Meets, Installing!Relying, Relies
<1>7. Relied'
  <2> SUFFICES ASSUME NEW q \in Procs, Relies(user'[q])
               PROVE  IF user'[q].crossed THEN owed' = {}
                      ELSE /\ \A r \in Procs \ {q} : ~Relies(user'[r])
                           /\ \A o \in owed' : /\ Recorded(user'[q].read, o)
                                               /\ user'[q].pc = "unlink" => o[1] # user'[q].pkg
    BY DEF Relied
  <2>1. CASE Installing!Meets(p)
    <3>1. owed' = {} /\ user'[q].crossed = TRUE
      BY <1>1, <2>1
    <3> QED
      BY <3>1
  <2>2. CASE ~Installing!Meets(p)
    <3>1. q = p /\ \A r \in Procs \ {p} : ~Relies(user'[r])
      BY <1>1, <1>6, <2>2
    <3> QED
      BY <1>1, <2>2, <3>1
  <2> QED
    BY <2>1, <2>2
<1>8. OwedSound'
  BY DEF InstallInv, OwedSound
<1>9. \A q \in Procs : Shaped(user'[q])
  BY <1>1
<1> QED
  BY <1>1, <1>4, <1>5, <1>7, <1>8, <1>9 DEF InstallInv

\* p puts a binary into bin/, or takes it from there.
LEMMA TakesPlace ==
  ASSUME InstallInv, UNCHANGED <<rules, list>>, NEW p \in Procs, NEW x, NEW c, NEW v,
         Installing!Disown(p, x, v), bin' = [bin EXCEPT ![x] = c], owed' = Installing!Disowned(x),
         Shaped(v),
         Relies(v) => /\ Relies(user[p]) /\ v.crossed = user[p].crossed /\ v.read = user[p].read
                      /\ v.pc = user[p].pc /\ v.pkg = user[p].pkg,
         Relies(user[p]) => Relies(v),
         \A y : Copies(v, y) => y = x,
         \A k \in KeptOf(v) :
           \/ Copies(v, k[1]) /\ \A q \in Procs \ {p} : ~Copies(user[q], x)
           \/ k \in KeptOf(user[p]) /\ ~Copies(user[p], k[1]) /\ k[1] # x
  PROVE  InstallInv'
<1>1. /\ user'[p] = v /\ user' = [q \in Procs |-> user'[q]]
      /\ \A q \in Procs \ {p} :
           /\ Shaped(user'[q])
           /\ \A k : k \in KeptOf(user'[q]) <=> k \in KeptOf(user[q]) /\ k[1] # x
           /\ \A y : Copies(user'[q], y) <=> Copies(user[q], y)
           /\ Relies(user'[q]) <=> Relies(user[q])
           /\ Relies(user'[q]) => /\ user'[q].crossed = user[q].crossed /\ user'[q].read = user[q].read
                                  /\ user'[q].pc = user[q].pc /\ user'[q].pkg = user[q].pkg
  BY Disowns
<1>2. /\ \A y : y # x => bin'[y] = bin[y]
      /\ \A o : o \in owed' <=> o \in owed /\ o[2] # x
  BY DEF Installing!Disowned, InstallInv
<1>3. KeptThere'
  <2> SUFFICES ASSUME NEW q \in Procs, NEW k \in KeptOf(user'[q]), ~Copies(user'[q], k[1])
               PROVE  bin'[k[1]] = k[2]
    BY DEF KeptThere
  <2>1. k \in KeptOf(user[q]) /\ ~Copies(user[q], k[1]) /\ k[1] # x
    BY <1>1
  <2> QED
    BY <1>2, <2>1 DEF InstallInv, KeptThere
<1>4. CopiedAlone'
  <2> SUFFICES ASSUME NEW q \in Procs, NEW y, Copies(user'[q], y)
               PROVE  /\ \A o \in owed' : o[2] # y
                      /\ \A r \in Procs \ {q} : \A k \in KeptOf(user'[r]) : k[1] # y
    BY DEF CopiedAlone
  <2>1. CASE q = p
    <3>1. y = x
      BY <1>1, <2>1
    <3> QED
      BY <1>1, <1>2, <2>1, <3>1
  <2>2. CASE q # p
    <3>1. /\ Copies(user[q], y)
          /\ \A o \in owed : o[2] # y
          /\ \A r \in Procs \ {q} : \A k \in KeptOf(user[r]) : k[1] # y
      BY <1>1, <2>2 DEF InstallInv, CopiedAlone
    <3>2. ASSUME NEW r \in Procs \ {q}, NEW k \in KeptOf(user'[r]) PROVE k[1] # y
      <4>1. CASE r # p
        BY <1>1, <3>1, <4>1
      <4>2. CASE r = p /\ k \in KeptOf(user[p])
        BY <3>1, <4>2
      <4>3. CASE r = p /\ Copies(v, k[1]) /\ ~Copies(user[q], x)
        BY <3>1, <4>3
      <4> QED
        BY <1>1, <2>2, <4>1, <4>2, <4>3
    <3> QED
      BY <1>2, <3>1, <3>2
  <2> QED
    BY <2>1, <2>2
<1>5. \A q \in Procs : /\ Relies(user'[q]) <=> Relies(user[q])
                       /\ Relies(user'[q]) =>
                            /\ user'[q].crossed = user[q].crossed /\ user'[q].read = user[q].read
                            /\ user'[q].pc = user[q].pc /\ user'[q].pkg = user[q].pkg
  BY <1>1
<1>6. Relied'
  <2> SUFFICES ASSUME NEW q \in Procs, Relies(user'[q])
               PROVE  IF user'[q].crossed THEN owed' = {}
                      ELSE /\ \A r \in Procs \ {q} : ~Relies(user'[r])
                           /\ \A o \in owed' : /\ Recorded(user'[q].read, o)
                                               /\ user'[q].pc = "unlink" => o[1] # user'[q].pkg
    BY DEF Relied
  <2>1. IF user[q].crossed THEN owed = {}
        ELSE /\ \A r \in Procs \ {q} : ~Relies(user[r])
             /\ \A o \in owed : /\ Recorded(user[q].read, o)
                                /\ user[q].pc = "unlink" => o[1] # user[q].pkg
    BY <1>5 DEF InstallInv, Relied
  <2>2. CASE user[q].crossed
    BY <1>2, <1>5, <2>1, <2>2
  <2>3. CASE ~user[q].crossed
    BY <1>2, <1>5, <2>1, <2>3
  <2> QED
    BY <2>2, <2>3
<1>7. OwedSound'
  BY <1>2 DEF InstallInv, OwedSound
<1>8. \A q \in Procs : Shaped(user'[q])
  BY <1>1
<1> QED
  BY <1>1, <1>3, <1>4, <1>6, <1>7, <1>8 DEF InstallInv

-----------------------------------------------------------------------------
(* rb install. *)

\* Before anything is copied, and when the command ends.
LEMMA BeforeCopying ==
  ASSUME InstallInv, NEW p \in Procs, UNCHANGED rules,
         \/ Installing!Install(p) \/ Installing!BuildInstall(p) \/ Installing!BuildInstallFails(p)
         \/ Installing!ReadRelease(p)
  PROVE  InstallInv'
<1> USE HomeAssumption
<1>1. UNCHANGED <<bin, list, owed>> /\ (list' = Torn \/ list' \in Lists) /\ OwedSound' /\ owed' \subseteq owed
      /\ Shaped(user[p])
  BY DEF Installing!Install, Installing!BuildInstall, Installing!BuildInstallFails, Installing!ReadRelease,
         Installing!files, InstallInv, OwedSound
<1>2. ASSUME NEW v, Shaped(v), Light(v), user' = [user EXCEPT ![p] = v] PROVE InstallInv'
  BY <1>1, <1>2, UserThinks
<1>3. CASE Installing!Install(p)
  <2>1. PICK pkg \in rules.pkgs, force \in BOOLEAN :
          \E only \in {{}} \cup {{x} : x \in BinsOf[pkg]} :
            user' = [user EXCEPT ![p] = [pc |-> "build", pkg |-> pkg, force |-> force, only |-> only]]
    BY <1>3 DEF Installing!Install
  <2>2. PICK only : user' = [user EXCEPT ![p] = [pc |-> "build", pkg |-> pkg, force |-> force, only |-> only]]
    BY <2>1
  <2>3. PICK v : v = [pc |-> "build", pkg |-> pkg, force |-> force, only |-> only]
    OBVIOUS
  <2>4. v.pc = "build" /\ Starter(v) /\ v.pkg \in Packages
    BY <2>3 DEF Starter, InstallInv
  <2>5. Shaped(v) /\ Light(v)
    BY <2>4, UserRests DEF Shaped
  <2> QED
    BY <1>2, <2>2, <2>3, <2>5
<1>4. CASE Installing!BuildInstall(p)
  <2>1. user[p].pc = "build" /\ user' = [user EXCEPT ![p].pc = "built"]
    BY <1>4 DEF Installing!BuildInstall
  <2>2. PICK v : v = [user[p] EXCEPT !.pc = "built"]
    OBVIOUS
  <2>3. v.pc = "built" /\ Starter(v) /\ v.pkg \in Packages
    BY <1>1, <2>1, <2>2 DEF Shaped, Starter
  <2>4. Shaped(v) /\ Light(v)
    BY <2>3, UserRests DEF Shaped
  <2> QED
    BY <1>2, <2>1, <2>2, <2>4
<1>5. CASE Installing!BuildInstallFails(p)
  BY <1>2, <1>5, QuietIsShaped DEF Installing!BuildInstallFails
<1>6. CASE Installing!ReadRelease(p)
  <2>1. PICK todo \in SUBSET Installing!Binaries :
          user' = [user EXCEPT ![p] =
            IF todo = {} THEN Installing!Quiet
            ELSE [pc |-> "copy", pkg |-> user[p].pkg, force |-> user[p].force,
                  todo |-> todo, at |-> <<>>, copied |-> {}, kept |-> {}]]
    BY <1>6 DEF Installing!ReadRelease, Installing!Pkg
  <2>2. CASE todo = {}
    BY <1>2, <2>1, <2>2, QuietIsShaped
  <2>3. CASE todo # {}
    <3>1. PICK v : v = [pc |-> "copy", pkg |-> user[p].pkg, force |-> user[p].force,
                        todo |-> todo, at |-> <<>>, copied |-> {}, kept |-> {}]
      OBVIOUS
    <3>2. /\ v.pc = "copy" /\ Copier(v) /\ v.pkg = user[p].pkg /\ v.todo = todo /\ v.at = <<>>
          /\ v.copied = {} /\ v.kept = {}
      BY <3>1 DEF Copier
    <3>3. v.pkg \in Packages
      BY <1>1, <1>6, <3>2 DEF Installing!ReadRelease, Shaped
    <3>4. Shaped(v) /\ Light(v)
      BY <3>2, <3>3 DEF Shaped, CopierSound, Light, KeptOf, Relies, Copies
    <3> QED
      BY <1>2, <2>1, <2>3, <3>1, <3>4
  <2> QED
    BY <2>2, <2>3
<1> QED
  BY <1>3, <1>4, <1>5, <1>6

LEMMA CopyKeeps ==
  ASSUME InstallInv, NEW p \in Procs, Installing!Copy(p), UNCHANGED rules
  PROVE  InstallInv'
<1> DEFINE u == user[p]
<1>1. u.pc = "copy" /\ u.at = <<>> /\ UNCHANGED <<release, list>> /\ CopierSound(u)
  BY DEF Installing!Copy, InstallInv, Shaped
<1>2. PICK x \in u.todo :
        LET k == <<x, release[x]>>
            alone == ~\E q \in Procs \ {p} : user[q].pc = "copy" /\ user[q].at # <<>> /\ user[q].at[1] = x
        IN  IF bin[x] # None /\ ~u.force
            THEN user' = [user EXCEPT ![p] = Installing!Quiet] /\ UNCHANGED <<bin, owed>>
            ELSE /\ bin' = [bin EXCEPT ![x] = Torn]
                 /\ owed' = Installing!Disowned(x)
                 /\ Installing!Disown(p, x, [u EXCEPT !.at = k, !.kept = IF alone THEN @ \cup {k} ELSE @])
  BY DEF Installing!Copy
<1>3. CASE bin[x] # None /\ ~u.force
  <2>1. user' = [user EXCEPT ![p] = Installing!Quiet] /\ UNCHANGED <<bin, owed>>
    BY <1>2, <1>3
  <2>2. (list' = Torn \/ list' \in Lists) /\ OwedSound' /\ owed' \subseteq owed
    BY <1>1, <2>1 DEF InstallInv, OwedSound
  <2> QED
    BY <2>1, <2>2, QuietIsShaped, UserThinks
<1>4. CASE ~(bin[x] # None /\ ~u.force)
  <2>1. PICK k : k = <<x, release[x]>>
    OBVIOUS
  <2>2. PICK kept : kept = IF ~\E q \in Procs \ {p} : user[q].pc = "copy" /\ user[q].at # <<>> /\ user[q].at[1] = x
                           THEN u.kept \cup {k} ELSE u.kept
    OBVIOUS
  <2>3. PICK v : v = [u EXCEPT !.at = k, !.kept = kept]
    OBVIOUS
  <2>4. bin' = [bin EXCEPT ![x] = Torn] /\ owed' = Installing!Disowned(x) /\ Installing!Disown(p, x, v)
    BY <1>2, <1>4, <2>1, <2>2, <2>3
  <2>5. /\ Copier(v) /\ v.pc = "copy" /\ v.pkg = u.pkg /\ v.todo = u.todo /\ v.at = k
        /\ v.copied = u.copied /\ v.kept = kept
    BY <1>1, <2>3 DEF CopierSound, Copier
  <2>6. k[1] = x /\ k # <<>>
    BY <2>1
  <2>7. \A h \in kept : /\ h = k \/ h \in u.kept
                        /\ h = k /\ h \notin u.kept => \A q \in Procs \ {p} : ~Copies(user[q], x)
    BY <2>2 DEF Copies
  <2>8. \A h \in u.kept : h[1] \in u.copied /\ h[1] # x
    BY <1>1 DEF CopierSound
  <2>9. Shaped(v)
    BY <1>1, <2>5, <2>6, <2>7, <2>8 DEF Shaped, CopierSound
  <2>10. /\ ~Relies(v) /\ ~Relies(u) /\ KeptOf(v) = kept /\ KeptOf(u) = u.kept
         /\ \A y : Copies(v, y) <=> y = x
         /\ \A y : ~Copies(u, y)
    BY <1>1, <2>5, <2>6 DEF Relies, KeptOf, Copies
  <2>11. \A h \in KeptOf(v) :
           \/ Copies(v, h[1]) /\ \A q \in Procs \ {p} : ~Copies(user[q], x)
           \/ h \in KeptOf(u) /\ ~Copies(u, h[1]) /\ h[1] # x
    BY <2>6, <2>7, <2>8, <2>10
  <2> QED
    BY <1>1, <2>4, <2>9, <2>10, <2>11, TakesPlace
<1> QED
  BY <1>3, <1>4

LEMMA CopiedKeeps ==
  ASSUME InstallInv, NEW p \in Procs, Installing!Copied(p), UNCHANGED rules
  PROVE  InstallInv'
<1> DEFINE u == user[p]
           x == user[p].at[1]
<1>1. u.pc = "copy" /\ u.at # <<>> /\ UNCHANGED <<release, list, owed>> /\ CopierSound(u) /\ x \in Installing!Binaries
      /\ Copies(u, x) /\ KeptOf(u) = u.kept /\ list' = list
  BY DEF Installing!Copied, InstallInv, Shaped, CopierSound, Copies, KeptOf
<1>2. CASE bin[x] = None
  <2>1. user' = [user EXCEPT ![p] = Installing!Quiet] /\ UNCHANGED bin
    BY <1>2 DEF Installing!Copied
  <2>2. (list' = Torn \/ list' \in Lists) /\ OwedSound' /\ owed' \subseteq owed
    BY <1>1, <2>1 DEF InstallInv, OwedSound
  <2> QED
    BY <2>1, <2>2, QuietIsShaped, UserThinks
<1>3. CASE bin[x] # None
  <2>1. PICK c : /\ bin' = [bin EXCEPT ![x] = c]
                 /\ u.at \in u.kept => c = u.at[2]
                 /\ user' = [user EXCEPT ![p].at = <<>>, ![p].todo = @ \ {x}, ![p].copied = @ \cup {x},
                                         ![p].pc = IF u.todo = {x} THEN "read" ELSE @]
    BY <1>3 DEF Installing!Copied
  <2>2. PICK v : v = [u EXCEPT !.at = <<>>, !.todo = @ \ {x}, !.copied = @ \cup {x},
                               !.pc = IF u.todo = {x} THEN "read" ELSE @]
    OBVIOUS
  <2>3. user' = [user EXCEPT ![p] = v]
    BY <2>1, <2>2
  <2>4. /\ Copier(v) /\ v.pc \in {"copy", "read"} /\ v.pkg = u.pkg /\ v.todo = u.todo \ {x} /\ v.at = <<>>
        /\ v.copied = u.copied \cup {x} /\ v.kept = u.kept
    BY <1>1, <2>2 DEF CopierSound, Copier
  <2>5. Shaped(v)
    BY <1>1, <2>4 DEF Shaped, CopierSound
  <2>6. KeptOf(v) = u.kept /\ ~Relies(v) /\ ~Relies(u) /\ \A y : ~Copies(v, y)
    BY <1>1, <2>4 DEF KeptOf, Relies, Copies
  <2>7. user'[p] = v /\ user' = [q \in Procs |-> user'[q]] /\ \A q \in Procs \ {p} : user'[q] = user[q]
    BY <2>3 DEF InstallInv
  <2>8. bin'[x] = c /\ (\A y : y # x => bin'[y] = bin[y]) /\ DOMAIN bin' = DOMAIN bin
    BY <1>1, <2>1 DEF InstallInv
  <2>9. /\ \A o \in owed : o[2] # x
        /\ \A q \in Procs \ {p} : \A k \in KeptOf(user[q]) : k[1] # x
    BY <1>1 DEF InstallInv, CopiedAlone
  <2>10. /\ \A q \in Procs : KeptOf(user'[q]) = KeptOf(user[q])
         /\ \A q \in Procs : \A y : Copies(user'[q], y) => q # p /\ Copies(user[q], y)
         /\ \A q \in Procs : Relies(user'[q]) => q # p /\ Relies(user[q])
    BY <1>1, <2>6, <2>7
  <2>11. KeptThere'
    <3> SUFFICES ASSUME NEW q \in Procs, NEW k \in KeptOf(user'[q]), ~Copies(user'[q], k[1])
                 PROVE  bin'[k[1]] = k[2]
      BY DEF KeptThere
    <3>1. CASE q # p
      <4>1. k \in KeptOf(user[q]) /\ ~Copies(user[q], k[1]) /\ k[1] # x
        BY <2>7, <2>9, <2>10, <3>1
      <4> QED
        BY <2>8, <4>1 DEF InstallInv, KeptThere
    <3>2. CASE q = p /\ k[1] = x
      <4>1. k = u.at
        BY <1>1, <2>10, <3>2 DEF CopierSound
      <4> QED
        BY <1>1, <2>1, <2>8, <2>10, <3>2, <4>1
    <3>3. CASE q = p /\ k[1] # x
      <4>1. ~Copies(u, k[1])
        BY <1>1, <3>3 DEF Copies
      <4> QED
        BY <2>8, <2>10, <3>3, <4>1 DEF InstallInv, KeptThere
    <3> QED
      BY <3>1, <3>2, <3>3
  <2>12. CopiedAlone'
    <3> SUFFICES ASSUME NEW q \in Procs, NEW y, Copies(user'[q], y)
                 PROVE  /\ \A o \in owed' : o[2] # y
                        /\ \A r \in Procs \ {q} : \A k \in KeptOf(user'[r]) : k[1] # y
      BY DEF CopiedAlone
    <3> QED
      BY <1>1, <2>10 DEF InstallInv, CopiedAlone
  <2>13. Relied'
    <3> SUFFICES ASSUME NEW q \in Procs, Relies(user'[q])
                 PROVE  IF user'[q].crossed THEN owed' = {}
                        ELSE /\ \A r \in Procs \ {q} : ~Relies(user'[r])
                             /\ \A o \in owed' : /\ Recorded(user'[q].read, o)
                                                 /\ user'[q].pc = "unlink" => o[1] # user'[q].pkg
      BY DEF Relied
    <3>1. q # p /\ Relies(user[q]) /\ user'[q] = user[q]
      BY <2>7, <2>10
    <3> QED
      BY <1>1, <2>10, <3>1 DEF InstallInv, Relied
  <2>14. OwedSound'
    BY <1>1, <2>8, <2>9 DEF InstallInv, OwedSound
  <2>15. \A q \in Procs : Shaped(user'[q])
    BY <2>5, <2>7 DEF InstallInv
  <2> QED
    BY <1>1, <2>7, <2>8, <2>11, <2>12, <2>13, <2>14, <2>15 DEF InstallInv
<1> QED
  BY <1>2, <1>3

LEMMA ReadListKeeps ==
  ASSUME InstallInv, NEW p \in Procs, Installing!ReadList(p), UNCHANGED rules
  PROVE  InstallInv'
<1> DEFINE u == user[p]
<1>1. /\ u.pc = "read" /\ CopierSound(u) /\ UNCHANGED <<release, bin, list>>
      /\ owed' = IF Installing!Meets(p) THEN {} ELSE owed
  BY DEF Installing!ReadList, Installing!files, InstallInv, Shaped
<1>2. PICK l \in Installing!Readings(p) :
        Installing!Crossing(p, [pc |-> "write", pkg |-> u.pkg, copied |-> u.copied,
                                kept |-> u.kept, read |-> l, crossed |-> Installing!Meets(p)])
  BY DEF Installing!ReadList, Installing!Pkg
<1>3. l \in Lists /\ (~Installing!Meets(p) /\ owed # {} => l = list)
  BY <1>2, Entered, NoListLists DEF Installing!Readings
<1>4. PICK v : v = [pc |-> "write", pkg |-> u.pkg, copied |-> u.copied,
                    kept |-> u.kept, read |-> l, crossed |-> Installing!Meets(p)]
  OBVIOUS
<1>5. /\ Lister(v) /\ v.pc = "write" /\ v.pkg = u.pkg /\ v.copied = u.copied /\ v.kept = u.kept
      /\ v.read = l /\ v.crossed = Installing!Meets(p)
  BY <1>4 DEF Lister
<1>6. Installing!Meets(p) \in BOOLEAN
  BY DEF Installing!Meets
<1>7. \A k \in u.kept : k[1] \in u.copied
  BY <1>1 DEF CopierSound
<1>8. Shaped(v)
  BY <1>1, <1>3, <1>5, <1>6, <1>7 DEF Shaped, ListerSound, CopierSound
<1>9. Relies(v) /\ ~Relies(u) /\ KeptOf(v) = KeptOf(u) /\ \A x : ~Copies(v, x) /\ ~Copies(u, x)
  BY <1>1, <1>5 DEF Relies, KeptOf, Copies
<1>10. Installing!Crossing(p, v)
  BY <1>2, <1>4
<1>11. CASE Installing!Meets(p)
  <2>1. v.crossed = TRUE /\ owed' = {}
    BY <1>1, <1>5, <1>11
  <2> QED
    BY <1>1, <1>8, <1>9, <1>10, <1>11, <2>1, BeginsToRely
<1>12. CASE ~Installing!Meets(p)
  <2>1. v.crossed = FALSE /\ owed' = owed
    BY <1>1, <1>5, <1>12
  <2>2. \A o \in owed' : Recorded(v.read, o)
    BY <1>3, <1>5, <1>12, <2>1 DEF InstallInv, OwedSound
  <2> QED
    BY <1>1, <1>5, <1>8, <1>9, <1>10, <1>12, <2>1, <2>2, BeginsToRely
<1> QED
  BY <1>11, <1>12

LEMMA WriteListKeeps ==
  ASSUME InstallInv, NEW p \in Procs, Installing!WriteList(p), UNCHANGED rules
  PROVE  InstallInv'
<1> DEFINE u == user[p]
           l == Installing!Put(u.read, u.pkg, u.copied)
<1>1. /\ u.pc = "write" /\ ListerSound(u) /\ Relies(u) /\ KeptOf(u) = u.kept
      /\ UNCHANGED <<release, bin>> /\ user' = [user EXCEPT ![p] = Installing!Quiet]
      /\ list' \in Installing!Writings(p, l)
      /\ owed' = IF u.crossed THEN owed
                 ELSE {o \in owed : o[1] # u.pkg} \cup {<<u.pkg, k[1], k[2]>> : k \in u.kept}
  BY DEF Installing!WriteList, Installing!Listed, Installing!Pkg, InstallInv, Shaped, Relies, KeptOf
<1>2. /\ l \in Lists
      /\ \A o : o[1] # u.pkg /\ Recorded(u.read, o) => Recorded(l, o)
      /\ \A o : o[1] = u.pkg /\ o[2] \in u.copied => Recorded(l, o)
  BY <1>1, PutLists DEF ListerSound
<1> HIDE DEF l
<1>3. CASE u.crossed
  <2>1. owed = {} /\ owed' = {}
    BY <1>1, <1>3 DEF InstallInv, Relied
  <2>2. list' = Torn \/ list' \in Lists
    BY <1>1, <1>2 DEF Installing!Writings
  <2>3. OwedSound'
    BY <2>1 DEF OwedSound
  <2> QED
    BY <1>1, <2>1, <2>2, <2>3, QuietIsShaped, UserThinks
<1>4. CASE ~u.crossed
  <2>1. list' = l /\ list' # Torn
    BY <1>1, <1>2, <1>4, TornIsNoList DEF Installing!Writings
  <2>2. /\ \A q \in Procs \ {p} : ~Relies(user[q])
        /\ \A o \in owed : Recorded(u.read, o)
    BY <1>1, <1>4 DEF InstallInv, Relied
  <2>3. \A k \in u.kept : k[1] \in u.copied /\ bin[k[1]] = k[2]
    BY <1>1 DEF InstallInv, KeptThere, ListerSound, Copies
  <2>4. /\ user'[p].pc = "idle" /\ user' = [q \in Procs |-> user'[q]]
        /\ \A q \in Procs \ {p} : user'[q] = user[q]
    BY <1>1 DEF InstallInv, Installing!Quiet
  <2>5. \A o \in owed' :
          \/ o \in owed /\ o[1] # u.pkg
          \/ \E k \in u.kept : o[1] = u.pkg /\ o[2] = k[1] /\ o[3] = k[2]
    BY <1>1, <1>4
  <2>6. OwedSound'
    <3> SUFFICES ASSUME NEW o \in owed' PROVE bin'[o[2]] = o[3] /\ list' # Torn /\ Recorded(list', o)
      BY DEF OwedSound, Recorded
    <3>1. CASE o \in owed /\ o[1] # u.pkg
      BY <1>1, <1>2, <2>1, <2>2, <3>1 DEF InstallInv, OwedSound
    <3>2. CASE \E k \in u.kept : o[1] = u.pkg /\ o[2] = k[1] /\ o[3] = k[2]
      <4>1. PICK k \in u.kept : o[1] = u.pkg /\ o[2] = k[1] /\ o[3] = k[2]
        BY <3>2
      <4>2. Recorded(l, o)
        BY <1>2, <2>3, <4>1
      <4> QED
        BY <1>1, <2>1, <2>3, <4>1, <4>2
    <3> QED
      BY <2>5, <3>1, <3>2
  <2>7. KeptThere'
    <3> SUFFICES ASSUME NEW q \in Procs, NEW k \in KeptOf(user'[q]), ~Copies(user'[q], k[1])
                 PROVE  bin'[k[1]] = k[2]
      BY DEF KeptThere
    <3>1. q # p
      BY <2>4 DEF KeptOf
    <3> QED
      BY <1>1, <2>4, <3>1 DEF InstallInv, KeptThere
  <2>8. CopiedAlone'
    <3> SUFFICES ASSUME NEW q \in Procs, NEW x, Copies(user'[q], x)
                 PROVE  /\ \A o \in owed' : o[2] # x
                        /\ \A r \in Procs \ {q} : \A k \in KeptOf(user'[r]) : k[1] # x
      BY DEF CopiedAlone
    <3>1. q # p /\ Copies(user[q], x)
      BY <2>4 DEF Copies
    <3>2. /\ \A o \in owed : o[2] # x
          /\ \A r \in Procs \ {q} : \A k \in KeptOf(user[r]) : k[1] # x
      BY <3>1 DEF InstallInv, CopiedAlone
    <3>3. \A k \in u.kept : k[1] # x
      BY <1>1, <3>1, <3>2
    <3>4. \A r \in Procs \ {q} : \A k \in KeptOf(user'[r]) : k \in KeptOf(user[r])
      BY <2>4 DEF KeptOf
    <3> QED
      BY <2>5, <3>2, <3>3, <3>4
  <2>9. \A q \in Procs : ~Relies(user'[q])
    BY <2>2, <2>4 DEF Relies
  <2>10. Relied'
    BY <2>9 DEF Relied
  <2>11. \A q \in Procs : Shaped(user'[q])
    BY <2>4 DEF InstallInv, Shaped
  <2> QED
    BY <1>1, <1>2, <2>1, <2>4, <2>6, <2>7, <2>8, <2>10, <2>11 DEF InstallInv
<1> QED
  BY <1>3, <1>4

-----------------------------------------------------------------------------
(* rb uninstall. *)

LEMMA UninstallKeeps ==
  ASSUME InstallInv, NEW p \in Procs, Installing!Uninstall(p), UNCHANGED rules
  PROVE  InstallInv'
<1> DEFINE entries == Installing!Entries
<1>1. /\ user[p].pc = "idle" /\ UNCHANGED <<release, bin, list>>
      /\ entries \in Lists /\ (owed # {} => entries = list)
  BY Entered DEF Installing!Uninstall, Installing!Begins, Installing!files
<1>2. PICK pkg \in DOMAIN entries :
        /\ Installing!Crossing(p, [pc |-> "unlink", pkg |-> pkg, todo |-> entries[pkg],
                                   read |-> Installing!Restrict(entries, DOMAIN entries \ {pkg}),
                                   crossed |-> Installing!Meets(p)])
        /\ owed' = IF Installing!Meets(p) THEN {} ELSE {o \in owed : o[1] # pkg}
  BY DEF Installing!Uninstall
<1>3. PICK l : l = Installing!Restrict(entries, DOMAIN entries \ {pkg})
  OBVIOUS
<1>4. l \in Lists /\ \A o : o[1] # pkg /\ Recorded(entries, o) => Recorded(l, o)
  BY <1>1, <1>3, RestrictLists
<1>5. PICK todo : todo = entries[pkg]
  OBVIOUS
<1> HIDE DEF entries
<1>6. PICK v : v = [pc |-> "unlink", pkg |-> pkg, todo |-> todo, read |-> l, crossed |-> Installing!Meets(p)]
  OBVIOUS
<1>7. Remover(v) /\ v.pc = "unlink" /\ v.pkg = pkg /\ v.read = l /\ v.crossed = Installing!Meets(p)
  BY <1>6 DEF Remover
<1>8. Installing!Meets(p) \in BOOLEAN
  BY DEF Installing!Meets
<1>9. Shaped(v)
  BY <1>4, <1>7, <1>8 DEF Shaped, RemoverSound
<1>10. Relies(v) /\ ~Relies(user[p]) /\ KeptOf(v) = {} /\ \A x : ~Copies(v, x) /\ ~Copies(user[p], x)
  BY <1>1, <1>7 DEF Relies, KeptOf, Copies
<1>11. Installing!Crossing(p, v) /\ owed' \subseteq owed
  BY <1>2, <1>3, <1>5, <1>6 DEF entries
<1>12. CASE Installing!Meets(p)
  <2>1. v.crossed = TRUE /\ owed' = {}
    BY <1>2, <1>7, <1>12
  <2> QED
    BY <1>1, <1>9, <1>10, <1>11, <1>12, <2>1, BeginsToRely
<1>13. CASE ~Installing!Meets(p)
  <2>1. v.crossed = FALSE /\ \A o \in owed' : o \in owed /\ o[1] # pkg
    BY <1>2, <1>7, <1>13
  <2>2. \A o \in owed' : Recorded(v.read, o) /\ o[1] # v.pkg
    BY <1>1, <1>4, <1>7, <2>1 DEF InstallInv, OwedSound
  <2> QED
    BY <1>1, <1>9, <1>10, <1>11, <1>13, <2>1, <2>2, BeginsToRely
<1> QED
  BY <1>12, <1>13

LEMMA UnlinkKeeps ==
  ASSUME InstallInv, NEW p \in Procs, Installing!Unlink(p), UNCHANGED rules
  PROVE  InstallInv'
<1> DEFINE u == user[p]
<1>1. u.pc = "unlink" /\ UNCHANGED <<release, list>> /\ RemoverSound(u)
  BY DEF Installing!Unlink, InstallInv, Shaped
<1>2. PICK x \in u.todo : /\ bin' = [bin EXCEPT ![x] = None]
                          /\ owed' = Installing!Disowned(x)
                          /\ Installing!Disown(p, x, [u EXCEPT !.todo = @ \ {x}])
  BY DEF Installing!Unlink
<1>3. PICK v : v = [u EXCEPT !.todo = @ \ {x}]
  OBVIOUS
<1>4. Remover(v) /\ v.pc = "unlink" /\ v.pkg = u.pkg /\ v.read = u.read /\ v.crossed = u.crossed
  BY <1>1, <1>3 DEF RemoverSound, Remover
<1>5. Shaped(v)
  BY <1>1, <1>4 DEF Shaped, RemoverSound
<1>6. Relies(v) /\ Relies(u) /\ KeptOf(v) = {} /\ \A y : ~Copies(v, y)
  BY <1>1, <1>4 DEF Relies, KeptOf, Copies
<1> QED
  BY <1>1, <1>2, <1>3, <1>4, <1>5, <1>6, TakesPlace

\* The list is rewritten, or the command is killed.
LEMMA EndUserKeeps ==
  ASSUME InstallInv, NEW p \in Procs, Installing!Unlisted(p) \/ Installing!KillUser(p), UNCHANGED rules
  PROVE  InstallInv'
<1> DEFINE u == user[p]
<1>1. user' = [user EXCEPT ![p] = Installing!Quiet] /\ bin' = bin
  BY DEF Installing!Unlisted, Installing!KillUser
<1>2. (list' = Torn \/ list' \in Lists) /\ OwedSound' /\ owed' \subseteq owed
  <2>1. CASE Installing!KillUser(p)
    BY <1>1, <2>1 DEF Installing!KillUser, InstallInv, OwedSound
  <2>2. CASE Installing!Unlisted(p)
    <3>1. u.pc = "unlink" /\ list' \in Installing!Writings(p, u.read) /\ owed' = owed
          /\ RemoverSound(u) /\ Relies(u)
      BY <2>2 DEF Installing!Unlisted, InstallInv, Shaped, Relies
    <3>2. list' = Torn \/ list' \in Lists
      BY <3>1 DEF Installing!Writings, RemoverSound
    <3>3. CASE u.crossed
      <4>1. owed' = {}
        BY <3>1, <3>3 DEF InstallInv, Relied
      <4> QED
        BY <3>1, <3>2, <4>1 DEF OwedSound
    <3>4. CASE ~u.crossed
      <4>1. list' = u.read /\ list' # Torn
        BY <3>1, <3>4, TornIsNoList DEF Installing!Writings, RemoverSound
      <4>2. \A o \in owed : Recorded(u.read, o)
        BY <3>1, <3>4 DEF InstallInv, Relied
      <4>3. OwedSound'
        BY <1>1, <3>1, <4>1, <4>2 DEF InstallInv, OwedSound, Recorded
      <4> QED
        BY <3>1, <3>2, <4>3
    <3> QED
      BY <3>3, <3>4
  <2> QED
    BY <2>1, <2>2
<1> QED
  BY <1>1, <1>2, QuietIsShaped, UserThinks

-----------------------------------------------------------------------------
LEMMA NextInstalls == ASSUME InstallInv, [HomeNext]_<<vars, installed, edited>> PROVE InstallInv'
<1>1. CASE UNCHANGED <<vars, installed, edited>>
  BY <1>1, InstallsKept DEF vars
<1>2. CASE Next /\ UNCHANGED <<installed, edited>>
  BY <1>2, PartsOfNext, IndexFrame, TreeFrame, GitFrame, InstallsKept DEF vars
<1>3. CASE Editing!Next /\ UNCHANGED <<vars, installed>>
  BY <1>3, InstallsKept DEF vars
<1>4. CASE Installing!Next
  <2>1. UNCHANGED rules
    BY <1>4 DEF Installing!Next
  <2>2. PICK p \in Procs :
          \/ Installing!Install(p) \/ Installing!BuildInstall(p) \/ Installing!BuildInstallFails(p)
          \/ Installing!ReadRelease(p) \/ Installing!Copy(p) \/ Installing!Copied(p)
          \/ Installing!ReadList(p) \/ Installing!WriteList(p)
          \/ Installing!Uninstall(p) \/ Installing!Unlink(p) \/ Installing!Unlisted(p)
          \/ Installing!KillUser(p)
    BY <1>4 DEF Installing!Next
  <2> QED
    BY <2>1, <2>2, BeforeCopying, CopyKeeps, CopiedKeeps, ReadListKeeps, WriteListKeeps,
       UninstallKeeps, UnlinkKeeps, EndUserKeeps
<1> QED
  BY <1>1, <1>2, <1>3, <1>4 DEF HomeNext

\* What a completed install put into bin/ on its own is there, whole, and listed, until it is
\* uninstalled, overwritten or installed anew, or two commands are about the list at once or a write
\* of it is cut short: whatever the packages, their binaries and how many install at once, and
\* wherever an install, an uninstall or a build failed or was killed.
THEOREM InstalledStays == HomeSpec => []InstalledIsThere
<1>1. InstallInv /\ [HomeNext]_<<vars, installed, edited>> => InstallInv'
  BY NextInstalls
<1>2. InstallInv => InstalledIsThere
  BY DEF InstallInv, OwedSound, Recorded, InstalledIsThere, Installing!InstalledIsThere
<1> QED
  BY <1>1, <1>2, InitInstalls, PTL DEF HomeSpec

-----------------------------------------------------------------------------
(* Edits: what a state holds. *)

Editor(u) == u \in [pc : {u.pc}, change : {u.change}, locked : {u.locked}, wrote : {u.wrote},
                    old : {u.old}, to : {u.to}, sure : {u.sure}]
Formed(u) ==
  u.pc # "idle" => /\ Editor(u) /\ u.old \in Editing!Texts
                   /\ u.change \in Editing!RemoveDependencies \cup Editing!UpsertDependency

\* Of a command nothing came across.
Sure(u) == u.pc # "idle" /\ u.sure
Fit(l, t) == l # Torn /\ t # Torn /\ Editing!Fits(l, t)
Kept(u) ==
  /\ u.pc = "commit" => Fit(u.to, text)
  /\ u.pc \in {"load", "commit"} /\ u.wrote => Fit(lock, u.old)
  /\ u.pc \in {"read", "write", "kept", "undone"} => Fit(lock, text)
  /\ u.pc \in {"read", "write"} => ~u.wrote
  /\ u.pc \in {"write", "undone"} => text = u.old
  /\ u.pc = "undo" => Fit(lock, u.old)
EditInv ==
  /\ editor = [p \in Procs |-> editor[p]]
  /\ text = Torn \/ text \in Editing!Texts
  /\ \A p \in Procs : Formed(editor[p])
  /\ \A p, q \in Procs : Sure(editor[p]) /\ editor[q].pc # "idle" => p = q
  /\ \A p \in Procs : Sure(editor[p]) => Kept(editor[p])

LEMMA ChangedIsText ==
  ASSUME NEW t \in Editing!Texts, NEW c \in Editing!RemoveDependencies \cup Editing!UpsertDependency
  PROVE  Editing!Changed(t, c) \in Editing!Texts
<1>1. PICK D \in SUBSET Deps : t \in [D -> Lines]
  BY DEF Editing!Texts
<1>2. DOMAIN c.put \subseteq Deps /\ \A d \in DOMAIN c.put : c.put[d] \in Lines
  <2>1. CASE c \in Editing!RemoveDependencies
    BY <2>1 DEF Editing!RemoveDependencies, Editing!Nothing
  <2>2. CASE c \in Editing!UpsertDependency
    <3>1. PICK e \in Deps, l \in Lines : c = [drop |-> {}, put |-> [d \in {e} |-> l]]
      BY <2>2 DEF Editing!UpsertDependency
    <3> QED
      BY <3>1
  <2> QED
    BY <2>1, <2>2
<1> DEFINE E == (D \ c.drop) \cup DOMAIN c.put
<1>3. Editing!Changed(t, c) = [d \in E |-> IF d \in DOMAIN c.put THEN c.put[d] ELSE t[d]]
  BY <1>1 DEF Editing!Changed
<1>4. Editing!Changed(t, c) \in [E -> Lines] /\ E \in SUBSET Deps
  BY <1>1, <1>2, <1>3
<1> QED
  BY <1>4 DEF Editing!Texts

\* What a write that is cut short leaves.
LEMMA CutIsText ==
  ASSUME NEW t \in Editing!Texts, NEW f \in Editing!Cut(t)
  PROVE  f = Torn \/ f \in Editing!Texts
<1>1. PICK D \in SUBSET Deps : t \in [D -> Lines]
  BY DEF Editing!Texts
<1>2. CASE f = Torn
  BY <1>2
<1>3. ASSUME NEW E \in SUBSET DOMAIN t, f = Editing!Restrict(t, E)
      PROVE  f \in Editing!Texts
  <2>1. f = [d \in E |-> t[d]] /\ E \in SUBSET Deps
    BY <1>1, <1>3 DEF Editing!Restrict
  <2>2. f \in [E -> Lines]
    BY <1>1, <2>1
  <2> QED
    BY <2>1, <2>2 DEF Editing!Texts
<1> QED
  BY <1>2, <1>3 DEF Editing!Cut

LEMMA NothingIsText == Editing!Nothing \in Editing!Texts /\ Editing!Nothing # Torn
<1>1. Editing!Nothing \in [{} -> Lines] /\ {} \in SUBSET Deps
  BY DEF Editing!Nothing
<1> QED
  BY <1>1, HomeAssumption DEF Editing!Texts

LEMMA InitEdits == HomeInit => EditInv
<1> SUFFICES ASSUME HomeInit PROVE EditInv
  OBVIOUS
<1>1. text = Editing!Nothing /\ editor = [p \in Procs |-> [pc |-> "idle"]]
  BY DEF HomeInit, Editing!Init, Editing!Quiet
<1> QED
  BY <1>1, NothingIsText DEF EditInv, Formed, Sure

LEMMA EditsKept ==
  ASSUME EditInv, UNCHANGED edited
  PROVE  EditInv'
<1>1. UNCHANGED <<text, lock, editor>>
  BY DEF edited
<1>2. \A u : Kept(u)' <=> Kept(u)
  BY <1>1 DEF Kept
<1> QED
  BY <1>1, <1>2 DEF EditInv

\* The step of one command: those it finds others about came across them.
LEMMA EditorMoves ==
  ASSUME EditInv, NEW p \in Procs, editor[p].pc # "idle", NEW v, editor' = [editor EXCEPT ![p] = v],
         text' = Torn \/ text' \in Editing!Texts,
         Formed(v), Sure(v) => Sure(editor[p]) /\ Kept(v)'
  PROVE  EditInv'
<1>1. editor'[p] = v /\ editor' = [q \in Procs |-> editor'[q]] /\ \A q \in Procs \ {p} : editor'[q] = editor[q]
  BY DEF EditInv
<1>2. \A q \in Procs \ {p} : ~Sure(editor'[q])
  BY <1>1 DEF EditInv
<1>3. \A q \in Procs : Sure(editor'[q]) => q = p
  BY <1>2
<1>4. \A q \in Procs : Formed(editor'[q])
  BY <1>1 DEF EditInv
<1>5. \A q, r \in Procs : Sure(editor'[q]) /\ editor'[r].pc # "idle" => q = r
  BY <1>1, <1>3 DEF EditInv
<1>6. \A q \in Procs : Sure(editor'[q]) => Kept(editor[q])'
  BY <1>1, <1>3 DEF Kept
<1> QED
  BY <1>1, <1>4, <1>5, <1>6 DEF EditInv, Sure, Formed

LEMMA EditorRests ==
  ASSUME NEW v, v.pc = "idle"
  PROVE  Formed(v) /\ ~Sure(v)
BY DEF Formed, Sure

\* A command that ends, whatever it left.
LEMMA EndKeeps ==
  ASSUME EditInv, NEW p \in Procs, editor[p].pc # "idle", Editing!Ends(p),
         text' = Torn \/ text' \in Editing!Texts
  PROVE  EditInv'
<1>1. editor' = [editor EXCEPT ![p] = Editing!Quiet] /\ Editing!Quiet.pc = "idle"
  BY DEF Editing!Ends, Editing!Quiet
<1> QED
  BY <1>1, EditorMoves, EditorRests

\* A command that goes on as it was, but for where it stands.
LEMMA GoesOn ==
  ASSUME NEW u, u.pc # "idle", Formed(u), NEW pc, pc # "idle", NEW v, v = [u EXCEPT !.pc = pc]
  PROVE  /\ v.pc = pc /\ v.change = u.change /\ v.wrote = u.wrote /\ v.old = u.old /\ v.to = u.to /\ v.sure = u.sure
         /\ Formed(v) /\ (Sure(v) <=> Sure(u))
<1>1. /\ v.pc = pc /\ v.change = u.change /\ v.wrote = u.wrote /\ v.old = u.old /\ v.to = u.to /\ v.sure = u.sure
      /\ Editor(v)
  BY DEF Formed, Editor
<1> QED
  BY <1>1 DEF Formed, Sure

LEMMA BeginKeeps ==
  ASSUME EditInv, NEW p \in Procs, Editing!Begin(p)
  PROVE  EditInv'
<1>1. PICK c \in Editing!RemoveDependencies \cup Editing!UpsertDependency, locked \in BOOLEAN :
        editor' = [q \in Procs |->
            IF q = p THEN [pc |-> "load", change |-> c, locked |-> locked, wrote |-> FALSE,
                           old |-> Editing!Nothing, to |-> Editing!Nothing,
                           sure |-> \A o \in Procs \ {p} : editor[o].pc = "idle"]
            ELSE IF editor[q].pc = "idle" THEN editor[q]
            ELSE [editor[q] EXCEPT !.sure = FALSE]]
  BY DEF Editing!Begin
<1>2. UNCHANGED <<text, lock>> /\ editor[p].pc = "idle"
  BY DEF Editing!Begin
<1> DEFINE v == [pc |-> "load", change |-> c, locked |-> locked, wrote |-> FALSE,
                 old |-> Editing!Nothing, to |-> Editing!Nothing,
                 sure |-> \A o \in Procs \ {p} : editor[o].pc = "idle"]
<1>3. editor'[p] = v
  BY <1>1
<1>4. /\ v.pc = "load" /\ v.change = c /\ ~v.wrote /\ v.old = Editing!Nothing
      /\ v.sure <=> \A o \in Procs \ {p} : editor[o].pc = "idle"
      /\ Editor(v)
  BY DEF Editor
<1> HIDE DEF v
<1>5. Formed(v) /\ (Sure(v) => \A o \in Procs \ {p} : editor[o].pc = "idle")
  BY <1>4, NothingIsText DEF Formed, Sure
<1>6. \A q \in Procs \ {p} : /\ Formed(editor'[q]) /\ ~Sure(editor'[q])
                             /\ editor'[q].pc = editor[q].pc
  <2> SUFFICES ASSUME NEW q \in Procs \ {p}
               PROVE  Formed(editor'[q]) /\ ~Sure(editor'[q]) /\ editor'[q].pc = editor[q].pc
    OBVIOUS
  <2>1. Formed(editor[q])
    BY DEF EditInv
  <2>2. CASE editor[q].pc = "idle"
    BY <1>1, <2>1, <2>2 DEF Sure
  <2>3. CASE editor[q].pc # "idle"
    <3>1. editor'[q] = [editor[q] EXCEPT !.sure = FALSE]
      BY <1>1, <2>3
    <3>2. /\ editor'[q].pc = editor[q].pc /\ editor'[q].old = editor[q].old
          /\ editor'[q].change = editor[q].change /\ editor'[q].sure = FALSE /\ Editor(editor'[q])
      BY <2>1, <2>3, <3>1 DEF Formed, Editor
    <3> QED
      BY <2>1, <2>3, <3>2 DEF Formed, Sure
  <2> QED
    BY <2>2, <2>3
<1>7. Sure(v) => Kept(editor[p])'
  BY <1>3, <1>4 DEF Kept
<1> QED
  BY <1>1, <1>2, <1>3, <1>5, <1>6, <1>7 DEF EditInv, Formed, Sure

\* A hand edit, or another command, comes across all that run.
LEMMA HandEditKeeps ==
  ASSUME EditInv, Editing!HandEdit
  PROVE  EditInv'
<1>1. editor' = [q \in Procs |->
        IF editor[q].pc = "idle" THEN editor[q] ELSE [editor[q] EXCEPT !.sure = FALSE]]
  BY DEF Editing!HandEdit
<1>2. text' = Torn \/ text' \in Editing!Texts
  BY DEF Editing!HandEdit, EditInv
<1>3. \A q \in Procs : Formed(editor'[q]) /\ ~Sure(editor'[q])
  <2> SUFFICES ASSUME NEW q \in Procs PROVE Formed(editor'[q]) /\ ~Sure(editor'[q])
    OBVIOUS
  <2>1. Formed(editor[q])
    BY DEF EditInv
  <2>2. CASE editor[q].pc = "idle"
    BY <1>1, <2>1, <2>2 DEF Sure
  <2>3. CASE editor[q].pc # "idle"
    <3>1. editor'[q] = [editor[q] EXCEPT !.sure = FALSE]
      BY <1>1, <2>3
    <3>2. /\ editor'[q].pc = editor[q].pc /\ editor'[q].old = editor[q].old
          /\ editor'[q].change = editor[q].change /\ editor'[q].sure = FALSE /\ Editor(editor'[q])
      BY <2>1, <2>3, <3>1 DEF Formed, Editor
    <3> QED
      BY <2>1, <2>3, <3>2 DEF Formed, Sure
  <2> QED
    BY <2>2, <2>3
<1> QED
  BY <1>1, <1>2, <1>3 DEF EditInv, Formed, Sure

\* Loading the workspace, before and after the change.
LEMMA LoadKeeps ==
  ASSUME EditInv, NEW p \in Procs, Editing!Load(p)
  PROVE  EditInv'
<1> USE HomeAssumption
<1> DEFINE u == editor[p]
<1>1. u.pc = "load" /\ text # Torn /\ lock # Torn /\ UNCHANGED <<text, lock>>
      /\ Formed(u) /\ (Sure(u) => Kept(u)) /\ (text = Torn \/ text \in Editing!Texts)
  BY DEF Editing!Load, EditInv
<1>2. CASE Editing!Fits(lock, text)
  <2>1. editor' = [editor EXCEPT ![p].pc = Editing!Loaded(p)]
    BY <1>2 DEF Editing!Load, Editing!Go
  <2>2. PICK pc : pc = Editing!Loaded(p)
    OBVIOUS
  <2>3. pc = (IF u.wrote THEN "kept" ELSE "read")
    BY <2>2 DEF Editing!Loaded
  <2>4. PICK v : v = [u EXCEPT !.pc = pc]
    OBVIOUS
  <2>5. editor' = [editor EXCEPT ![p] = v]
    BY <2>1, <2>2, <2>4
  <2>6. v.pc = pc /\ v.wrote = u.wrote /\ Formed(v) /\ (Sure(v) <=> Sure(u))
    BY <1>1, <2>3, <2>4, GoesOn
  <2>7. Fit(lock, text)
    BY <1>1, <1>2 DEF Fit
  <2>8. Kept(v)'
    BY <1>1, <2>3, <2>6, <2>7 DEF Kept
  <2> QED
    BY <1>1, <2>5, <2>6, <2>8, EditorMoves
<1>3. CASE ~Editing!Fits(lock, text)
  <2>1. PICK new \in Editing!Relocks(lock, text) : editor' = [editor EXCEPT ![p].pc = "commit", ![p].to = new]
    BY <1>3 DEF Editing!Load
  <2>2. PICK v : v = [u EXCEPT !.pc = "commit", !.to = new]
    OBVIOUS
  <2>3. editor' = [editor EXCEPT ![p] = v]
    BY <2>1, <2>2
  <2>4. /\ v.pc = "commit" /\ v.wrote = u.wrote /\ v.old = u.old /\ v.to = new /\ v.sure = u.sure
        /\ v.change = u.change /\ Editor(v)
    BY <1>1, <2>2 DEF Formed, Editor
  <2>5. Fit(new, text)
    <3>1. PICK D \in SUBSET Deps : text \in [D -> Lines]
      BY <1>1 DEF Editing!Texts
    <3>2. new \in [D -> Editing!Versions] /\ \A d \in D : new[d] \in text[d]
      BY <2>1, <3>1 DEF Editing!Relocks
    <3>3. new \in Editing!Locks
      BY <3>2 DEF Editing!Locks
    <3> QED
      BY <1>1, <3>1, <3>2, <3>3 DEF Fit, Editing!Fits
  <2>6. Formed(v) /\ (Sure(v) <=> Sure(u))
    BY <1>1, <2>4 DEF Formed, Sure
  <2>7. Sure(u) => Kept(v)'
    BY <1>1, <2>4, <2>5 DEF Kept
  <2> QED
    BY <1>1, <2>3, <2>6, <2>7, EditorMoves
<1> QED
  BY <1>2, <1>3

\* A command that goes on to what its writes, or its failures, lead to.
LEMMA EditStepKeeps ==
  ASSUME EditInv, NEW p \in Procs, editor[p].pc # "idle",
         \/ Editing!LoadFails(p) \/ Editing!CommitLock(p) \/ Editing!CommitLockFails(p)
         \/ Editing!ReadManifest(p) \/ Editing!WriteManifest(p) \/ Editing!PutBack(p)
  PROVE  EditInv'
<1> USE HomeAssumption
<1> DEFINE u == editor[p]
<1>1. Formed(u) /\ (Sure(u) => Kept(u)) /\ (text = Torn \/ text \in Editing!Texts) /\ u.pc # "idle"
      /\ Editor(u) /\ u.old \in Editing!Texts /\ u.old # Torn
  BY DEF EditInv, Formed
<1>2. CASE Editing!LoadFails(p)
  <2>1. u.pc \in {"load", "commit"} /\ UNCHANGED <<text, lock>>
        /\ IF u.wrote THEN editor' = [editor EXCEPT ![p].pc = "undo"] ELSE Editing!Ends(p)
    BY <1>2 DEF Editing!LoadFails, Editing!Go
  <2>2. CASE ~u.wrote
    BY <1>1, <2>1, <2>2, EndKeeps
  <2>3. CASE u.wrote
    <3>1. PICK v : v = [u EXCEPT !.pc = "undo"]
      OBVIOUS
    <3>2. v.pc = "undo" /\ v.old = u.old /\ Formed(v) /\ (Sure(v) <=> Sure(u))
      BY <1>1, <3>1, GoesOn
    <3>3. Sure(u) => Kept(v)'
      BY <1>1, <2>1, <2>3, <3>2 DEF Kept
    <3>4. editor' = [editor EXCEPT ![p] = v]
      BY <2>1, <2>3, <3>1
    <3> QED
      BY <1>1, <2>1, <3>2, <3>3, <3>4, EditorMoves
  <2> QED
    BY <2>2, <2>3
<1>3. CASE Editing!CommitLock(p)
  <2>1. u.pc = "commit" /\ lock' = u.to /\ text' = text
        /\ editor' = [editor EXCEPT ![p].pc = Editing!Loaded(p), ![p].to = Editing!Nothing]
    BY <1>3 DEF Editing!CommitLock
  <2>2. PICK pc : pc = Editing!Loaded(p)
    OBVIOUS
  <2>3. pc = (IF u.wrote THEN "kept" ELSE "read")
    BY <2>2 DEF Editing!Loaded
  <2>4. PICK v : v = [u EXCEPT !.pc = pc, !.to = Editing!Nothing]
    OBVIOUS
  <2>5. editor' = [editor EXCEPT ![p] = v]
    BY <2>1, <2>2, <2>4
  <2>6. /\ v.pc = pc /\ v.wrote = u.wrote /\ v.old = u.old /\ v.change = u.change /\ v.sure = u.sure
        /\ Editor(v)
    BY <1>1, <2>4 DEF Editor
  <2>7. Formed(v) /\ (Sure(v) <=> Sure(u))
    BY <1>1, <2>3, <2>6 DEF Formed, Sure
  <2>8. Sure(u) => Fit(lock', text')
    BY <1>1, <2>1 DEF Kept
  <2>9. Sure(u) => Kept(v)'
    BY <2>1, <2>3, <2>6, <2>8 DEF Kept, Fit
  <2> QED
    BY <1>1, <2>1, <2>5, <2>7, <2>9, EditorMoves
<1>4. CASE Editing!CommitLockFails(p)
  <2>1. text' = text /\ editor' = [editor EXCEPT ![p] =
          IF u.wrote THEN [u EXCEPT !.pc = "undo", !.to = Editing!Nothing, !.sure = FALSE] ELSE Editing!Quiet]
    BY <1>4 DEF Editing!CommitLockFails
  <2>2. CASE ~u.wrote
    BY <1>1, <2>1, <2>2, EndKeeps DEF Editing!Ends
  <2>3. CASE u.wrote
    <3>1. PICK v : v = [u EXCEPT !.pc = "undo", !.to = Editing!Nothing, !.sure = FALSE]
      OBVIOUS
    <3>2. v.pc = "undo" /\ v.old = u.old /\ v.change = u.change /\ v.sure = FALSE /\ Editor(v)
      BY <1>1, <3>1 DEF Editor
    <3>3. Formed(v) /\ ~Sure(v)
      BY <1>1, <3>2 DEF Formed, Sure
    <3>4. editor' = [editor EXCEPT ![p] = v]
      BY <2>1, <2>3, <3>1
    <3> QED
      BY <1>1, <2>1, <3>3, <3>4, EditorMoves
  <2> QED
    BY <2>2, <2>3
<1>5. CASE Editing!ReadManifest(p)
  <2>1. u.pc = "read" /\ UNCHANGED <<text, lock>>
        /\ \/ text # Torn /\ editor' = [editor EXCEPT ![p].pc = "write", ![p].old = text]
           \/ Editing!Ends(p)
    BY <1>5 DEF Editing!ReadManifest
  <2>2. CASE Editing!Ends(p)
    BY <1>1, <2>1, <2>2, EndKeeps
  <2>3. CASE text # Torn /\ editor' = [editor EXCEPT ![p].pc = "write", ![p].old = text]
    <3>1. PICK v : v = [u EXCEPT !.pc = "write", !.old = text]
      OBVIOUS
    <3>2. /\ v.pc = "write" /\ v.old = text /\ v.change = u.change /\ v.wrote = u.wrote /\ v.sure = u.sure
          /\ Editor(v)
      BY <1>1, <3>1 DEF Editor
    <3>3. Formed(v) /\ (Sure(v) <=> Sure(u))
      BY <1>1, <2>3, <3>2 DEF Formed, Sure
    <3>4. Sure(u) => Kept(v)'
      BY <1>1, <2>1, <3>2 DEF Kept
    <3>5. editor' = [editor EXCEPT ![p] = v]
      BY <2>3, <3>1
    <3> QED
      BY <1>1, <2>1, <3>3, <3>4, <3>5, EditorMoves
  <2> QED
    BY <2>1, <2>2, <2>3
<1>6. CASE Editing!WriteManifest(p)
  <2>1. u.pc = "write" /\ lock' = lock /\ text' = Editing!Changed(u.old, u.change)
        /\ editor' = [editor EXCEPT ![p].pc = "load", ![p].wrote = TRUE]
    BY <1>6 DEF Editing!WriteManifest
  <2>2. text' \in Editing!Texts
    BY <1>1, <2>1, ChangedIsText DEF Formed
  <2>3. PICK v : v = [u EXCEPT !.pc = "load", !.wrote = TRUE]
    OBVIOUS
  <2>4. v.pc = "load" /\ v.old = u.old /\ v.change = u.change /\ v.wrote = TRUE /\ v.sure = u.sure /\ Editor(v)
    BY <1>1, <2>3 DEF Editor
  <2>5. Formed(v) /\ (Sure(v) <=> Sure(u))
    BY <1>1, <2>4 DEF Formed, Sure
  <2>6. Sure(u) => Fit(lock', u.old)
    BY <1>1, <2>1 DEF Kept
  <2>7. Sure(u) => Kept(v)'
    BY <2>4, <2>6 DEF Kept
  <2>8. editor' = [editor EXCEPT ![p] = v]
    BY <2>1, <2>3
  <2> QED
    BY <1>1, <2>2, <2>5, <2>7, <2>8, EditorMoves
<1>7. CASE Editing!PutBack(p)
  <2>1. u.pc = "undo" /\ lock' = lock /\ text' = u.old /\ editor' = [editor EXCEPT ![p].pc = "undone"]
    BY <1>7 DEF Editing!PutBack, Editing!Undone, Editing!Go
  <2>2. PICK v : v = [u EXCEPT !.pc = "undone"]
    OBVIOUS
  <2>3. v.pc = "undone" /\ v.old = u.old /\ Formed(v) /\ (Sure(v) <=> Sure(u))
    BY <1>1, <2>2, GoesOn
  <2>4. Sure(u) => Fit(lock', text')
    BY <1>1, <2>1 DEF Kept
  <2>5. Sure(u) => Kept(v)'
    BY <2>1, <2>3, <2>4 DEF Kept
  <2>6. editor' = [editor EXCEPT ![p] = v]
    BY <2>1, <2>2
  <2> QED
    BY <1>1, <2>1, <2>3, <2>5, <2>6, EditorMoves
<1> QED
  BY <1>2, <1>3, <1>4, <1>5, <1>6, <1>7

\* What ends a command leaves a manifest, or a torn one.
LEMMA EditEndKeeps ==
  ASSUME EditInv, NEW p \in Procs, editor[p].pc # "idle",
         \/ Editing!WriteManifestFails(p) \/ Editing!PutBackFails(p) \/ Editing!Exit(p) \/ Editing!KillEditor(p)
  PROVE  EditInv'
<1>1. Editing!Ends(p)
  BY DEF Editing!WriteManifestFails, Editing!PutBackFails, Editing!Exit, Editing!KillEditor
<1>2. \/ text' = text
      \/ editor[p].pc = "write" /\ text' \in Editing!Cut(Editing!Changed(editor[p].old, editor[p].change))
      \/ text' \in Editing!Cut(editor[p].old)
  BY DEF Editing!WriteManifestFails, Editing!PutBackFails, Editing!Exit, Editing!KillEditor
<1>3. /\ editor[p].old \in Editing!Texts
      /\ editor[p].change \in Editing!RemoveDependencies \cup Editing!UpsertDependency
  BY DEF EditInv, Formed
<1>4. Editing!Changed(editor[p].old, editor[p].change) \in Editing!Texts
  BY <1>3, ChangedIsText
<1>5. text' = Torn \/ text' \in Editing!Texts
  <2>1. CASE text' = text
    BY <2>1 DEF EditInv
  <2>2. CASE text' \in Editing!Cut(Editing!Changed(editor[p].old, editor[p].change))
    BY <1>4, <2>2, CutIsText
  <2>3. CASE text' \in Editing!Cut(editor[p].old)
    BY <1>3, <2>3, CutIsText
  <2> QED
    BY <1>2, <2>1, <2>2, <2>3
<1> QED
  BY <1>1, <1>5, EndKeeps

LEMMA NextEdits == ASSUME EditInv, [HomeNext]_<<vars, installed, edited>> PROVE EditInv'
<1>1. CASE UNCHANGED edited
  BY <1>1, EditsKept
<1>2. CASE Editing!Next
  <2>1. CASE Editing!HandEdit
    BY <2>1, HandEditKeeps
  <2>2. ASSUME NEW p \in Procs,
               \/ Editing!Begin(p) \/ Editing!LoadFails(p) \/ Editing!Load(p) \/ Editing!CommitLock(p)
               \/ Editing!CommitLockFails(p) \/ Editing!ReadManifest(p) \/ Editing!WriteManifest(p)
               \/ Editing!WriteManifestFails(p) \/ Editing!PutBack(p) \/ Editing!PutBackFails(p)
               \/ Editing!Exit(p) \/ Editing!KillEditor(p)
        PROVE  EditInv'
    <3>1. CASE Editing!Begin(p)
      BY <3>1, BeginKeeps
    <3>2. CASE Editing!Load(p)
      BY <3>2, LoadKeeps
    <3>3. CASE \/ Editing!LoadFails(p) \/ Editing!CommitLock(p) \/ Editing!CommitLockFails(p)
               \/ Editing!ReadManifest(p) \/ Editing!WriteManifest(p) \/ Editing!PutBack(p)
      <4>1. editor[p].pc # "idle"
        BY <3>3 DEF Editing!LoadFails, Editing!CommitLock, Editing!CommitLockFails,
                    Editing!ReadManifest, Editing!WriteManifest, Editing!PutBack
      <4> QED
        BY <3>3, <4>1, EditStepKeeps
    <3>4. CASE \/ Editing!WriteManifestFails(p) \/ Editing!PutBackFails(p) \/ Editing!Exit(p)
               \/ Editing!KillEditor(p)
      <4>1. editor[p].pc # "idle"
        BY <3>4 DEF Editing!WriteManifestFails, Editing!PutBackFails, Editing!Exit, Editing!KillEditor
      <4> QED
        BY <3>4, <4>1, EditEndKeeps
    <3> QED
      BY <2>2, <3>1, <3>2, <3>3, <3>4
  <2> QED
    BY <1>2, <2>1, <2>2 DEF Editing!Next
<1> QED
  BY <1>1, <1>2 DEF HomeNext

\* rb add and rb remove leave a manifest and a lock file that fit, the change made or undone,
\* whatever ran and was killed before, when nothing comes across them and their writes succeed.
THEOREM LockStaysFit == HomeSpec => []LockFits
<1>1. EditInv /\ [HomeNext]_<<vars, installed, edited>> => EditInv'
  BY NextEdits
<1>2. EditInv => LockFits
  <2> SUFFICES ASSUME EditInv, NEW p \in Procs, editor[p].pc \in {"kept", "undone"}, editor[p].sure
               PROVE  /\ text # Torn /\ lock # Torn /\ Editing!Fits(lock, text)
                      /\ editor[p].pc = "undone" => text = editor[p].old
    BY DEF LockFits, Editing!LockFits
  <2>1. Kept(editor[p])
    BY DEF EditInv, Sure
  <2> QED
    BY <2>1 DEF Kept, Fit
<1> QED
  BY <1>1, <1>2, InitEdits, PTL DEF HomeSpec

=============================================================================
