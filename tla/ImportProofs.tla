---------------------------- MODULE ImportProofs ----------------------------
(***************************************************************************)
(* Proofs about UserImport, as MCMigrations instantiates it: for any users *)
(* and numbers, any school to begin with and any uploads (see              *)
(* ImportAssumption), any number of calls and of edits beside them.        *)
(***************************************************************************)
EXTENDS MCMigrations, Counting

-----------------------------------------------------------------------------
(* Accounts, files and candidates *)

Tables == [Users -> Accounts \cup {None}]

LEMMA NoneApart == None \notin Users /\ None \notin Paths /\ None \notin Accounts
BY ImportAssumption DEF ImportAssumption

\* An account has the columns of its types.
LEMMA AccountRead ==
    ASSUME NEW T \in Tables, NEW u \in Users, T[u] # None
    PROVE  /\ T[u] \in Accounts /\ T[u].kind \in {"student", "staff"} /\ T[u].left \in BOOLEAN
           /\ T[u].roll \in Numbers \cup {None} /\ T[u].adm \in Numbers \cup {None}
           /\ T[u].phone \in Phones \cup {None} /\ T[u].photo \in Paths \cup {None} /\ T[u].section \in Sections
BY DEF Tables, Accounts

\* A parsed file: finitely many rows, each naming a user, with cells of the columns' types.
LEMMA FileRead ==
    ASSUME NEW f \in Uploads
    PROVE  /\ IsFiniteSet(Import!Rows(f)) /\ f.section # None /\ f.section \in Sections /\ f.ok \subseteq Import!Rows(f)
           /\ \A r \in Import!Rows(f) :
                /\ f.user[r] \in Users /\ f.user[r] # None
                /\ f.cells[r].roll \in Numbers \cup {None} /\ f.cells[r].adm \in Numbers \cup {None}
                /\ f.cells[r].phone \in Phones \cup {None}
           /\ DOMAIN f.user = Import!Rows(f)
<1>1. f.section \in Sections
  BY DEF Sections
<1>2. QED BY <1>1, ImportAssumption DEF ImportAssumption, Import!IsParsed

\* A row without a problem of its own is the only one with its name, and with its numbers.
LEMMA CandidateRows ==
    ASSUME NEW T, NEW f \in Uploads, NEW r \in Import!Candidates(T, f)
    PROVE  /\ r \in Import!Rows(f) /\ Import!Acceptable(T, f, r)
           /\ \A q \in Import!Rows(f) : f.user[q] = f.user[r] => q = r
           /\ \A q \in Import!Rows(f), k \in Import!Keys : 
                 f.cells[r][k] # None /\ f.cells[q][k] = f.cells[r][k] => q = r
<1>1. r \in f.ok /\ Import!Acceptable(T, f, r) /\ r \notin Import!Repeated(f, f.user)
  BY DEF Import!Candidates
<1>2. \A k \in Import!Keys : r \notin Import!Repeated(f, Import!Cell(f, k))
  BY DEF Import!Candidates
<1>3. r \in Import!Rows(f) /\ f.user[r] # None
  BY <1>1, FileRead
<1>4. \A q \in Import!Rows(f) : f.user[q] = f.user[r] => q = r
  BY <1>1, <1>3 DEF Import!Repeated
<1>5. ASSUME NEW q \in Import!Rows(f), NEW k \in Import!Keys, f.cells[r][k] # None, f.cells[q][k] = f.cells[r][k]
      PROVE  q = r
  <2>1. Import!Cell(f, k)[r] = f.cells[r][k] /\ Import!Cell(f, k)[q] = f.cells[q][k]
    BY <1>3 DEF Import!Cell
  <2>2. QED BY <1>2, <1>3, <1>5, <2>1 DEF Import!Repeated
<1>6. QED BY <1>1, <1>3, <1>4, <1>5

-----------------------------------------------------------------------------
(* The repetition of _unique_student_numbers *)

\* The fewer rows are saved, the more holders keep their numbers.
LEMMA BlockedLess ==
    ASSUME NEW T, NEW f, NEW R, NEW S, R \subseteq S, NEW r, Import!Blocked(T, f, S, r)
    PROVE  Import!Blocked(T, f, R, r)
BY DEF Import!Blocked

\* Saved is the last of the passes: the recursive function of its definition exists, and is unique.
LEMMA SavedIsLast ==
    ASSUME NEW T, NEW f \in Uploads
    PROVE  \E g : /\ IsIterate(g, Cardinality(Import!Rows(f)), Import!Candidates(T, f),
                        [S \in SUBSET Import!Rows(f) |-> Import!Pass(T, f, S)])
                  /\ \A n \in 0..Cardinality(Import!Rows(f)) : g[n] \in SUBSET Import!Candidates(T, f)
                  /\ \A n \in 0..Cardinality(Import!Rows(f)) : g[n] = IF n = 0 THEN Import!Candidates(T, f) ELSE Import!Pass(T, f, g[n - 1])
                  /\ Import!Saved(T, f) = g[Cardinality(Import!Rows(f))]
<1> DEFINE N == Cardinality(Import!Rows(f))
           C == Import!Candidates(T, f)
           G == [S \in SUBSET Import!Rows(f) |-> Import!Pass(T, f, S)]
           P(h) == h = [n \in 0..N |-> IF n = 0 THEN C ELSE Import!Pass(T, f, h[n - 1])]
           after == CHOOSE h : P(h)
<1>1. N \in Nat
  BY FileRead, FS_CardinalityType
<1>2. C \subseteq Import!Rows(f)
  BY FileRead DEF Import!Candidates
<1>3. PICK g : IsIterate(g, N, C, G)
  <2> HIDE DEF N, C, G
  <2>1. QED BY <1>1, IterateExists
<1>4. \A n \in 0..N : g[n] = IF n = 0 THEN C ELSE G[g[n - 1]]
  <2> HIDE DEF N, C, G
  <2>1. g = [n \in 0..N |-> IF n = 0 THEN C ELSE G[g[n - 1]]]
    BY <1>3 DEF IsIterate
  <2>2. QED BY <2>1
<1>5. \A n \in 0..N : g[n] \in SUBSET C
  <2> DEFINE Q == {n \in Nat : n <= N => g[n] \in SUBSET C}
  <2>1. 0 \in Q
    <3> HIDE DEF G, C, N
    <3>1. QED BY <1>1, <1>4
  <2>2. ASSUME NEW n \in Q  PROVE n + 1 \in Q
    <3>1. SUFFICES ASSUME n + 1 <= N  PROVE g[n + 1] \in SUBSET C
      BY <2>2
    <3>2. n \in 0..N /\ n + 1 \in 0..N /\ (n + 1) - 1 = n /\ n + 1 # 0 /\ g[n] \in SUBSET C
      BY <1>1, <2>2, <3>1
    <3>3. g[n + 1] = G[g[n]]
      <4> HIDE DEF C, G, N, Q
      <4>1. QED BY <1>4, <3>2
    <3>4. G[g[n]] = Import!Pass(T, f, g[n])
      BY <1>2, <3>2
    <3>5. Import!Pass(T, f, g[n]) \subseteq g[n]
      BY DEF Import!Pass
    <3>6. QED BY <3>2, <3>3, <3>4, <3>5
  <2>3. Q = Nat
    <3> HIDE DEF Q
    <3>1. Q \in SUBSET Nat
      BY DEF Q
    <3>2. QED BY <2>1, <2>2, <3>1, SetInduction
  <2>4. QED BY <1>1, <2>3
<1>6. \A n \in 0..N : g[n] = IF n = 0 THEN C ELSE Import!Pass(T, f, g[n - 1])
  <2>1. SUFFICES ASSUME NEW n \in 0..N, n # 0  PROVE g[n] = Import!Pass(T, f, g[n - 1])
    BY <1>4
  <2>2. n - 1 \in 0..N
    BY <1>1, <2>1
  <2>3. G[g[n - 1]] = Import!Pass(T, f, g[n - 1])
    BY <1>2, <1>5, <2>2
  <2>4. QED BY <1>4, <2>1, <2>3
<1>7. P(g)
  <2> HIDE DEF N, C
  <2>1. DOMAIN g = 0..N /\ g = [n \in 0..N |-> g[n]]
    <3>1. g = [n \in 0..N |-> IF n = 0 THEN C ELSE G[g[n - 1]]]
      <4> HIDE DEF G
      <4>1. QED BY <1>3 DEF IsIterate
    <3> HIDE DEF G
    <3>2. QED BY <3>1
  <2>2. [n \in 0..N |-> g[n]] = [n \in 0..N |-> IF n = 0 THEN C ELSE Import!Pass(T, f, g[n - 1])]
    BY <1>6
  <2>3. QED BY <2>1, <2>2
<1>8. P(after)
  <2> HIDE DEF P
  <2>1. QED BY <1>7
<1>9. \A n \in 0..N : after[n] = IF n = 0 THEN C ELSE Import!Pass(T, f, after[n - 1])
  <2> HIDE DEF N, C, after
  <2>1. QED BY <1>8
<1>10. \A n \in 0..N : after[n] = g[n]
  <2> DEFINE Q == {n \in Nat : n <= N => after[n] = g[n]}
  <2> HIDE DEF after, C, N
  <2>1. 0 \in Q
    BY <1>1, <1>6, <1>9
  <2>2. ASSUME NEW n \in Q  PROVE n + 1 \in Q
    <3>1. SUFFICES ASSUME n + 1 <= N  PROVE after[n + 1] = g[n + 1]
      BY <2>2
    <3>2. n \in 0..N /\ n + 1 \in 0..N /\ (n + 1) - 1 = n /\ n + 1 # 0 /\ after[n] = g[n]
      BY <1>1, <2>2, <3>1
    <3>3. QED BY <1>6, <1>9, <3>2
  <2>3. Q = Nat
    <3> HIDE DEF Q
    <3>1. Q \in SUBSET Nat
      BY DEF Q
    <3>2. QED BY <2>1, <2>2, <3>1, SetInduction
  <2>4. QED BY <1>1, <2>3
<1>11. Import!Saved(T, f) = after[N]
  <2>1. Import!Cardinality(Import!Rows(f)) = N
    BY Zenon DEF Cardinality, Import!Cardinality
  <2>2. Import!Saved(T, f) = (LET h == CHOOSE h : h = [n \in 0..Import!Cardinality(Import!Rows(f)) |->
            IF n = 0 THEN C ELSE Import!Pass(T, f, h[n - 1])] IN h[Import!Cardinality(Import!Rows(f))])
    BY Zenon DEF Import!Saved
  <2>3. QED BY <2>1, <2>2
<1>12. Import!Saved(T, f) = g[N]
  <2> HIDE DEF after, N
  <2>1. QED BY <1>1, <1>10, <1>11
<1>13. QED
  <2> HIDE DEF after, P
  <2>1. QED BY <1>3, <1>5, <1>6, <1>12
\* As many passes as rows are enough, since each drops a row or changes nothing: the rows that are left
\* can be saved together, and every set of candidates that can is among them.
LEMMA SavedRows ==
    ASSUME NEW T, NEW f \in Uploads
    PROVE  /\ Import!Saved(T, f) \subseteq Import!Candidates(T, f)
           /\ \A r \in Import!Saved(T, f) : ~Import!Blocked(T, f, Import!Saved(T, f), r)
           /\ \A S \in SUBSET Import!Candidates(T, f) :
                (\A r \in S : ~Import!Blocked(T, f, S, r)) => S \subseteq Import!Saved(T, f)
<1> DEFINE N == Cardinality(Import!Rows(f))
           C == Import!Candidates(T, f)
<1>1. PICK g : /\ \A n \in 0..N : g[n] \in SUBSET C
               /\ \A n \in 0..N : g[n] = IF n = 0 THEN C ELSE Import!Pass(T, f, g[n - 1])
               /\ Import!Saved(T, f) = g[N]
  BY SavedIsLast
<1>2. N \in Nat /\ IsFiniteSet(C) /\ Cardinality(C) <= N
  <2>1. C \subseteq Import!Rows(f)
    BY FileRead DEF Import!Candidates
  <2> HIDE DEF C
  <2>2. QED BY <2>1, FileRead, Smaller, FS_CardinalityType
<1> HIDE DEF N
<1>3. \A n \in 0..N : Import!Pass(T, f, g[n]) = g[n] \/ Cardinality(g[n]) <= N - n
  <2> HIDE DEF C
  <2> DEFINE Q == {n \in Nat : n <= N => Import!Pass(T, f, g[n]) = g[n] \/ Cardinality(g[n]) <= N - n}
  <2>1. 0 \in Q
    BY <1>1, <1>2
  <2>2. ASSUME NEW n \in Q  PROVE n + 1 \in Q
    <3>1. SUFFICES ASSUME n + 1 <= N
                   PROVE  Import!Pass(T, f, g[n + 1]) = g[n + 1] \/ Cardinality(g[n + 1]) <= N - (n + 1)
      BY <2>2
    <3>2. n \in 0..N /\ n + 1 \in 0..N /\ (n + 1) - 1 = n /\ n + 1 # 0
      BY <1>2, <2>2, <3>1
    <3>3. g[n + 1] = Import!Pass(T, f, g[n])
      BY <1>1, <3>2
    <3>4. CASE Import!Pass(T, f, g[n]) = g[n]
      BY <3>3, <3>4
    <3>5. CASE Import!Pass(T, f, g[n]) # g[n]
      <4>1. g[n + 1] \subseteq g[n] /\ g[n] \subseteq C
        BY <1>1, <3>2, <3>3 DEF Import!Pass
      <4>2. PICK r \in g[n] : r \notin g[n + 1]
        BY <3>3, <3>5, <4>1
      <4>3. IsFiniteSet(g[n]) /\ IsFiniteSet(g[n] \ {r}) /\ Cardinality(g[n] \ {r}) = Cardinality(g[n]) - 1 /\ Cardinality(g[n]) \in Nat
        BY <1>2, <4>1, <4>2, Smaller, OneMore
      <4>4. Cardinality(g[n + 1]) <= Cardinality(g[n] \ {r}) /\ Cardinality(g[n + 1]) \in Nat
        <5>1. g[n + 1] \subseteq g[n] \ {r}
          BY <4>1, <4>2
        <5>2. QED BY <4>3, <5>1, Smaller
      <4>5. Cardinality(g[n]) <= N - n
        BY <2>2, <3>2, <3>5
      <4>6. QED BY <1>2, <3>2, <4>3, <4>4, <4>5
    <3>6. QED BY <3>4, <3>5
  <2>3. Q = Nat
    <3> HIDE DEF Q
    <3>1. Q \in SUBSET Nat
      BY DEF Q
    <3>2. QED BY <2>1, <2>2, <3>1, SetInduction
  <2>4. QED BY <1>2, <2>3
<1>4. Import!Pass(T, f, g[N]) = g[N]
  <2>1. CASE Cardinality(g[N]) <= N - N
    <3>1. IsFiniteSet(g[N]) /\ Cardinality(g[N]) = 0
      <4> HIDE DEF C
      <4>1. g[N] \subseteq C
        BY <1>1, <1>2
      <4>2. QED BY <1>2, <2>1, <4>1, Smaller
    <3>2. g[N] = {}
      BY <3>1, FS_EmptySet
    <3>3. QED BY <3>2 DEF Import!Pass
  <2>2. QED BY <1>2, <1>3, <2>1
<1>5. \A r \in g[N] : ~Import!Blocked(T, f, g[N], r)
  BY <1>4 DEF Import!Pass
<1>6. ASSUME NEW S \in SUBSET C, \A r \in S : ~Import!Blocked(T, f, S, r)
      PROVE  S \subseteq g[N]
  <2> HIDE DEF C
  <2> DEFINE Q == {n \in Nat : n <= N => S \subseteq g[n]}
  <2>1. 0 \in Q
    BY <1>1, <1>2
  <2>2. ASSUME NEW n \in Q  PROVE n + 1 \in Q
    <3>1. SUFFICES ASSUME n + 1 <= N  PROVE S \subseteq g[n + 1]
      BY <2>2
    <3>2. n \in 0..N /\ n + 1 \in 0..N /\ (n + 1) - 1 = n /\ n + 1 # 0 /\ S \subseteq g[n]
      BY <1>2, <2>2, <3>1
    <3>3. g[n + 1] = Import!Pass(T, f, g[n])
      BY <1>1, <3>2
    <3>4. \A r \in S : ~Import!Blocked(T, f, g[n], r)
      BY <1>6, <3>2, BlockedLess
    <3>5. QED BY <3>2, <3>3, <3>4 DEF Import!Pass
  <2>3. Q = Nat
    <3> HIDE DEF Q
    <3>1. Q \in SUBSET Nat
      BY DEF Q
    <3>2. QED BY <2>1, <2>2, <3>1, SetInduction
  <2>4. QED BY <1>2, <2>3
<1>7. g[N] \subseteq C
  BY <1>1, <1>2
<1>8. QED BY <1>1, <1>5, <1>6, <1>7

LEMMA MostAreSaved ==
    ASSUME NEW T, NEW f \in Uploads
    PROVE  Import!Saved(T, f) =
        UNION {S \in SUBSET Import!Candidates(T, f) : \A r \in S : ~Import!Blocked(T, f, S, r)}
BY SavedRows

-----------------------------------------------------------------------------
(* What an import writes *)

\* A saved row is its user's only row, and a user who is there is a student of the section.
LEMMA SavedRow ==
    ASSUME NEW T \in Tables, NEW f \in Uploads, NEW r \in Import!Saved(T, f)
    PROVE  /\ r \in Import!Rows(f) /\ f.user[r] \in Users /\ f.user[r] \in Import!SavedUsers(T, f)
           /\ Import!RowOf(f, f.user[r]) = r
           /\ \A q \in Import!Rows(f) : f.user[q] = f.user[r] => q = r
           /\ T[f.user[r]] # None => T[f.user[r]] \in Accounts /\ T[f.user[r]].section = f.section
<1>1. r \in Import!Candidates(T, f)
  BY SavedRows
<1>2. /\ r \in Import!Rows(f) /\ Import!Acceptable(T, f, r) /\ \A q \in Import!Rows(f) : f.user[q] = f.user[r] => q = r
  BY <1>1, CandidateRows
<1>3. f.user[r] \in Users
  BY <1>2, FileRead
<1>4. Import!RowOf(f, f.user[r]) = r
  BY <1>2 DEF Import!RowOf
<1>5. T[f.user[r]] # None => T[f.user[r]] \in Accounts /\ T[f.user[r]].section = f.section
  BY <1>2, <1>3, AccountRead DEF Import!Acceptable, Import!Existing
<1>6. QED BY <1>2, <1>3, <1>4, <1>5 DEF Import!SavedUsers

LEMMA UserSaved ==
    ASSUME NEW T \in Tables, NEW f \in Uploads, NEW u \in Import!SavedUsers(T, f)
    PROVE  \E r \in Import!Saved(T, f) : f.user[r] = u /\ Import!RowOf(f, u) = r /\ u \in Users
<1>1. PICK r \in Import!Saved(T, f) : f.user[r] = u
  BY DEF Import!SavedUsers
<1>2. QED BY <1>1, SavedRow

LEMMA FinalTyped ==
    ASSUME NEW T \in Tables, NEW f \in Uploads, NEW r \in Import!Rows(f)
    PROVE  /\ Import!Final(T, f, r, "roll") \in Numbers \cup {None}
           /\ Import!Final(T, f, r, "adm") \in Numbers \cup {None}
           /\ Import!Final(T, f, r, "phone") \in Phones \cup {None}
BY FileRead, AccountRead DEF Import!Final, Import!Existing

LEMMA AccountThere == ASSUME NEW A \in Accounts  PROVE A # None
BY NoneApart

\* What an import makes of the account A of the saved row r.
IsImported(A, T, f, p, r) ==
    /\ A.kind = "student" /\ A.left = FALSE /\ A.section = f.section
    /\ f.cells[r].photo # None => A.photo = p[f.cells[r].photo]
    /\ f.cells[r].photo = None => A.photo = IF T[f.user[r]] = None THEN None ELSE T[f.user[r]].photo
    /\ \A k \in Import!Fields : A[k] = Import!Final(T, f, r, k)
    /\ A.photo \in Paths \cup {None} => A \in Accounts /\ A # None

LEMMA AppliedRow ==
    ASSUME NEW T \in Tables, NEW W, NEW f \in Uploads, NEW p, NEW r \in Import!Saved(T, f)
    PROVE  IsImported(Import!Applied(T, W, f, p)[f.user[r]], T, f, p, r)
<1> DEFINE A == Import!Applied(T, W, f, p)[f.user[r]]
<1>1. f.user[r] \in Users /\ f.user[r] \in Import!SavedUsers(T, f) /\ Import!RowOf(f, f.user[r]) = r /\ r \in Import!Rows(f)
  BY SavedRow
<1>2. A = [kind |-> "student", left |-> FALSE, section |-> f.section,
              roll |-> Import!Final(T, f, r, "roll"), adm |-> Import!Final(T, f, r, "adm"),
              phone |-> Import!Final(T, f, r, "phone"),
              photo |-> IF f.cells[r].photo # None THEN p[f.cells[r].photo]
                        ELSE IF T[f.user[r]] = None THEN None ELSE T[f.user[r]].photo]
  BY <1>1 DEF Import!Applied
<1> HIDE DEF A
<1>3. A.roll = Import!Final(T, f, r, "roll") /\ A.adm = Import!Final(T, f, r, "adm") /\ A.phone = Import!Final(T, f, r, "phone")
  BY <1>2
<1>4. \A k \in Import!Fields : A[k] = Import!Final(T, f, r, k)
  BY <1>3 DEF Import!Fields, Import!Keys
<1>5. ASSUME A.photo \in Paths \cup {None}  PROVE A \in Accounts /\ A # None
  <2>1. A \in Accounts
    BY <1>1, <1>2, <1>5, FinalTyped, FileRead DEF Accounts
  <2>2. QED BY <2>1, AccountThere
<1>6. IsImported(A, T, f, p, r)
  BY <1>2, <1>3, <1>4, <1>5 DEF IsImported
<1>7. QED BY <1>6 DEF A

LEMMA AppliedOther ==
    ASSUME NEW T, NEW W, NEW f, NEW p, NEW u \in Users, u \notin Import!SavedUsers(T, f)
    PROVE  Import!Applied(T, W, f, p)[u] = W[u]
BY DEF Import!Applied

\* An import keeps the keys, whoever of two students it writes: numbers given twice are no candidates,
\* and a number somebody keeps blocks the row that asks for it.
LEMMA SaveKeepsKeys ==
    ASSUME NEW T \in Tables, NEW f \in Uploads, NEW p, Import!Unique(T)
    PROVE  Import!Unique(Import!Applied(T, T, f, p))
<1> DEFINE W == Import!Applied(T, T, f, p)
           S == Import!Saved(T, f)
           US == Import!SavedUsers(T, f)
<1>1. \A u \in US : \E r \in S : f.user[r] = u
  BY UserSaved
<1>2. \A u \in Users \ US : W[u] = T[u]
  BY AppliedOther
<1>3. ASSUME NEW r \in S, NEW k \in Import!Keys
      PROVE  W[f.user[r]].section = f.section /\ W[f.user[r]][k] = Import!Final(T, f, r, k)
  <2>1. k \in Import!Fields
    BY DEF Import!Fields
  <2>2. IsImported(W[f.user[r]], T, f, p, r)
    BY AppliedRow
  <2> HIDE DEF W, S
  <2>3. QED BY <2>1, <2>2 DEF IsImported
\* A number of a saved row that somebody else has, in the section for a roll number.
<1>4. ASSUME NEW r \in S, NEW k \in Import!Keys, NEW v \in Users, v # f.user[r], T[v] # None,
             Import!Final(T, f, r, k) # None, T[v][k] = Import!Final(T, f, r, k), k = "roll" => T[v].section = f.section
      PROVE  \E q \in S : f.user[q] = v /\ Import!Final(T, f, q, k) # Import!Final(T, f, r, k)
  <2>1. v \in Import!Holders(T, f, k, Import!Final(T, f, r, k)) \ {f.user[r]}
    BY <1>4 DEF Import!Holders
  <2>2. ~Import!Blocked(T, f, S, r)
    BY SavedRows
  <2>3. QED BY <2>1, <2>2 DEF Import!Blocked
\* Two saved rows.
<1>5. ASSUME NEW r \in S, NEW q \in S, f.user[r] # f.user[q], NEW k \in Import!Keys,
             Import!Final(T, f, r, k) # None, f.cells[q][k] = None
      PROVE  Import!Final(T, f, q, k) # Import!Final(T, f, r, k)
  <2>1. SUFFICES ASSUME Import!Final(T, f, q, k) = Import!Final(T, f, r, k)  PROVE FALSE
    OBVIOUS
  <2>2. T[f.user[q]] # None /\ T[f.user[q]][k] = Import!Final(T, f, q, k)
    BY <1>5, <2>1 DEF Import!Final, Import!Existing
  <2>3. f.user[q] \in Users /\ T[f.user[q]].section = f.section /\ q \in Import!Rows(f)
        /\ \A o \in Import!Rows(f) : f.user[o] = f.user[q] => o = q
    BY <2>2, SavedRow
  <2>4. PICK o \in S : f.user[o] = f.user[q] /\ Import!Final(T, f, o, k) # Import!Final(T, f, r, k)
    BY <1>4, <1>5, <2>1, <2>2, <2>3
  <2>5. o \in Import!Rows(f)
    BY SavedRow
  <2>6. QED BY <2>1, <2>3, <2>4, <2>5
<1>6. ASSUME NEW r \in S, NEW q \in S, f.user[r] # f.user[q], NEW k \in Import!Keys, Import!Final(T, f, r, k) # None
      PROVE  Import!Final(T, f, q, k) # Import!Final(T, f, r, k)
  <2>1. CASE f.cells[q][k] = None
    BY <1>5, <1>6, <2>1
  <2>2. CASE f.cells[r][k] = None
    BY <1>5, <1>6, <2>2
  <2>3. CASE f.cells[q][k] # None /\ f.cells[r][k] # None
    <3>1. r # q /\ r \in Import!Candidates(T, f) /\ q \in Import!Rows(f)
      BY <1>6, SavedRow, SavedRows
    <3>2. f.cells[q][k] # f.cells[r][k]
      BY <2>3, <3>1, CandidateRows
    <3>3. QED BY <2>3, <3>2 DEF Import!Final
  <2>4. QED BY <2>1, <2>2, <2>3
<1>7. ASSUME NEW k \in Import!Keys, NEW u \in Users, NEW v \in Users,
             u # v, W[u] # None, W[v] # None, W[u][k] # None, W[u][k] = W[v][k]
      PROVE  k = "roll" /\ (W[u].section # W[v].section \/ W[u].section = None)
  <2> HIDE DEF W, S, US
  <2>1. CASE u \in US /\ v \in US
    BY <1>1, <1>3, <1>6, <1>7, <2>1
  <2>2. CASE u \in US /\ v \notin US
    <3>1. PICK r \in S : f.user[r] = u
      BY <1>1, <2>2
    <3>2. W[v] = T[v] /\ W[u].section = f.section /\ W[u][k] = Import!Final(T, f, r, k)
      BY <1>2, <1>3, <2>2, <3>1
    <3>3. \A q \in S : f.user[q] # v
      BY <2>2, SavedRow DEF S, US
    <3>4. ~(k = "roll" => T[v].section = f.section)
      BY <1>4, <1>7, <3>1, <3>2, <3>3
    <3>5. QED BY <3>2, <3>4
  <2>3. CASE u \notin US /\ v \in US
    <3>1. PICK r \in S : f.user[r] = v
      BY <1>1, <2>3
    <3>2. W[u] = T[u] /\ W[v].section = f.section /\ W[v][k] = Import!Final(T, f, r, k)
      BY <1>2, <1>3, <2>3, <3>1
    <3>3. \A q \in S : f.user[q] # u
      BY <2>3, SavedRow DEF S, US
    <3>4. ~(k = "roll" => T[u].section = f.section)
      BY <1>4, <1>7, <3>1, <3>2, <3>3
    <3>5. QED BY <3>2, <3>4
  <2>4. CASE u \notin US /\ v \notin US
    BY <1>2, <1>7, <2>4 DEF Import!Unique
  <2>5. QED BY <2>1, <2>2, <2>3, <2>4
<1>8. QED BY <1>7 DEF Import!Unique

\* Planned again on what it wrote, a file without photos saves the rows it saved, and changes nothing.
LEMMA SaveIsRepeatable ==
    ASSUME NEW T \in Tables, NEW f \in Uploads, NEW p, Import!Unique(T), \A r \in Import!Rows(f) : f.cells[r].photo = None
    PROVE  \A r \in Import!Saved(T, f) : Import!Signature(Import!Applied(T, T, f, p), f)[r][1] = "unchanged"
<1> DEFINE W == Import!Applied(T, T, f, p)
           S == Import!Saved(T, f)
<1>1. Import!Unique(W)
  BY SaveKeepsKeys
<1>2. ASSUME NEW r \in S
      PROVE  /\ r \in Import!Rows(f) /\ f.user[r] \in Users
             /\ W[f.user[r]] # None /\ W[f.user[r]].kind = "student" /\ ~W[f.user[r]].left /\ W[f.user[r]].section = f.section
             /\ \A k \in Import!Fields : W[f.user[r]][k] = Import!Final(T, f, r, k)
             /\ \A k \in Import!Fields : Import!Final(W, f, r, k) = Import!Final(T, f, r, k)
             /\ \A k \in Import!Fields : f.cells[r][k] # None => f.cells[r][k] = W[f.user[r]][k]
  <2>1. r \in Import!Rows(f) /\ f.user[r] \in Users
    BY SavedRow
  <2>0. IsImported(W[f.user[r]], T, f, p, r)
    BY AppliedRow
  <2> HIDE DEF W
  <2>2. W[f.user[r]].photo \in Paths \cup {None}
    BY <2>0, <2>1, AccountRead DEF IsImported
  <2>3. /\ W[f.user[r]] # None /\ W[f.user[r]].kind = "student" /\ ~W[f.user[r]].left /\ W[f.user[r]].section = f.section
        /\ \A k \in Import!Fields : W[f.user[r]][k] = Import!Final(T, f, r, k)
    BY <2>0, <2>2 DEF IsImported
  <2>4. \A k \in Import!Fields : Import!Final(W, f, r, k) = Import!Final(T, f, r, k)
    BY <2>3 DEF Import!Final, Import!Existing
  <2>5. \A k \in Import!Fields : f.cells[r][k] # None => f.cells[r][k] = W[f.user[r]][k]
    BY <2>3 DEF Import!Final
  <2>6. QED BY <2>1, <2>3, <2>4, <2>5
<1>3. S \subseteq Import!Candidates(W, f)
  <2>1. ASSUME NEW r \in S  PROVE r \in Import!Candidates(W, f)
    <3>1. r \in Import!Candidates(T, f)
      BY SavedRows
    <3>2. Import!Acceptable(W, f, r)
      BY <1>2 DEF Import!Acceptable, Import!Existing
    <3>3. QED BY <3>1, <3>2 DEF Import!Candidates
  <2>2. QED BY <2>1
<1>4. \A r \in S : ~Import!Blocked(W, f, S, r)
  <2>1. SUFFICES ASSUME NEW r \in S, NEW k \in Import!Keys,
                        NEW u \in Import!Holders(W, f, k, Import!Final(W, f, r, k)) \ {f.user[r]}
                 PROVE  FALSE
    BY DEF Import!Blocked
  <2>2. k \in Import!Fields
    BY DEF Import!Fields
  <2>3. /\ u \in Users /\ u # f.user[r] /\ W[u] # None /\ W[u][k] = W[f.user[r]][k] /\ W[u][k] # None
        /\ k = "roll" => W[u].section = f.section
    BY <1>2, <2>2 DEF Import!Holders
  <2>4. k = "roll" /\ (W[u].section # W[f.user[r]].section \/ W[u].section = None)
    BY <1>1, <1>2, <2>3 DEF Import!Unique
  <2>5. QED BY <1>2, <2>3, <2>4, FileRead
<1>5. ASSUME NEW r \in S  PROVE Import!Signature(W, f)[r][1] = "unchanged"
  <2>1. r \in Import!Saved(W, f)
    BY <1>3, <1>4, SavedRows
  <2>2. Import!Existing(W, f, r) # None
    BY <1>2 DEF Import!Existing
  <2>3. Import!Changes(W, f, r) = {}
    BY <1>2 DEF Import!Changes, Import!Existing
  <2> HIDE DEF W, S
  <2>4. Import!Signature(W, f)[r] = <<"unchanged", {}>>
    BY <1>2, <2>1, <2>2, <2>3 DEF Import!Signature
  <2>5. QED BY <2>4
<1>6. QED BY <1>5

-----------------------------------------------------------------------------
(* Photos *)

\* The rows a plan writes are saved, and those with a photo are written.
LEMMA WritingRows ==
    ASSUME NEW T, NEW f \in Uploads, NEW r \in Import!Rows(f)
    PROVE  /\ r \in Import!Writing(T, f) => r \in Import!Saved(T, f)
           /\ r \in Import!Saved(T, f) /\ f.cells[r].photo # None => r \in Import!Writing(T, f)
<1> DEFINE said == Import!Signature(T, f)[r]
<1>1. said = IF r \notin Import!Saved(T, f) THEN <<"error", {}>>
             ELSE IF Import!Existing(T, f, r) = None THEN <<"create", {}>>
             ELSE <<IF Import!Changes(T, f, r) = {} THEN "unchanged" ELSE "update", Import!Changes(T, f, r)>>
  BY DEF Import!Signature
<1>2. r \in Import!Writing(T, f) <=> said[1] \in {"create", "update"}
  BY DEF Import!Writing
<1>3. f.cells[r].photo # None => Import!Changes(T, f, r) # {}
  BY DEF Import!Changes
<1> HIDE DEF said
<1>4. QED BY <1>1, <1>2, <1>3

LEMMA SameWriting ==
    ASSUME NEW T, NEW W, NEW f, Import!Signature(T, f) = Import!Signature(W, f)
    PROVE  Import!Writing(T, f) = Import!Writing(W, f)
BY DEF Import!Writing

\* Photos of the accounts T, and what the call c has stored.
Kept(T) == {T[u].photo : u \in {v \in Users : T[v] # None /\ T[v].photo # None}}
Stores(c) == {c.photos[n] : n \in DOMAIN c.photos}

\* No photo belongs to two accounts, to two calls or to both; the files are the photos that belong to
\* somebody.
PhotosOK(T, F, c) ==
    /\ \A u, v \in Users : T[u] # None /\ T[v] # None /\ T[u].photo # None /\ T[u].photo = T[v].photo => u = v
    /\ \A i \in Calls : \A m, n \in DOMAIN c[i].photos : c[i].photos[m] = c[i].photos[n] => m = n
    /\ \A i, j \in Calls : i # j => Stores(c[i]) \cap Stores(c[j]) = {}
    /\ \A i \in Calls : Stores(c[i]) \cap Kept(T) = {}
    /\ F = Kept(T) \cup UNION {Stores(c[i]) : i \in Calls}
    /\ F \subseteq Paths

\* New names for the photos of a call that had none.
LEMMA PlanPhotos ==
    ASSUME NEW T, NEW F, NEW c, PhotosOK(T, F, c), NEW i \in Calls, Stores(c[i]) = {},
           NEW p, \A n \in DOMAIN p : p[n] \in Paths \ F, \A m, n \in DOMAIN p : p[m] = p[n] => m = n,
           NEW d, \A j \in Calls \ {i} : d[j] = c[j], d[i].photos = p
    PROVE  PhotosOK(T, F \cup {p[n] : n \in DOMAIN p}, d)
<1>1. Stores(d[i]) = {p[n] : n \in DOMAIN p} /\ \A j \in Calls \ {i} : Stores(d[j]) = Stores(c[j])
  BY DEF Stores
<1> DEFINE fresh == {p[n] : n \in DOMAIN p}
<1>2. fresh \cap F = {} /\ fresh \subseteq Paths
  OBVIOUS
<1> HIDE DEF fresh
<1>3. \A j \in Calls : Stores(d[j]) \subseteq IF j = i THEN fresh ELSE Stores(c[j])
  BY <1>1 DEF fresh
<1>4. F \cup fresh = Kept(T) \cup UNION {Stores(d[j]) : j \in Calls}
  BY <1>1 DEF PhotosOK, fresh
<1>5. \A j \in Calls : \A m, n \in DOMAIN d[j].photos : d[j].photos[m] = d[j].photos[n] => m = n
  BY DEF PhotosOK
<1>6. \A j, k \in Calls : j # k => Stores(d[j]) \cap Stores(d[k]) = {}
  BY <1>2, <1>3 DEF PhotosOK
<1>7. \A j \in Calls : Stores(d[j]) \cap Kept(T) = {}
  BY <1>2, <1>3 DEF PhotosOK
<1>8. PhotosOK(T, F \cup fresh, d)
  BY <1>2, <1>4, <1>5, <1>6, <1>7 DEF PhotosOK
<1>9. QED BY <1>8 DEF fresh

\* A call that ends without saving takes its photos away.
LEMMA ConflictPhotos ==
    ASSUME NEW T, NEW F, NEW c, PhotosOK(T, F, c), NEW i \in Calls,
           NEW d, \A j \in Calls \ {i} : d[j] = c[j], d[i].photos = <<>>
    PROVE  PhotosOK(T, F \ Stores(c[i]), d)
<1>1. Stores(d[i]) = {} /\ \A j \in Calls \ {i} : Stores(d[j]) = Stores(c[j])
  BY DEF Stores
<1>2. F \ Stores(c[i]) = Kept(T) \cup UNION {Stores(d[j]) : j \in Calls}
  BY <1>1 DEF PhotosOK
<1>3. \A j \in Calls : \A m, n \in DOMAIN d[j].photos : d[j].photos[m] = d[j].photos[n] => m = n
  BY DEF PhotosOK
<1>4. QED BY <1>1, <1>2, <1>3 DEF PhotosOK

\* Edits that leave photos alone.
LEMMA SamePhotos ==
    ASSUME NEW T, NEW F, NEW c, PhotosOK(T, F, c), NEW W,
           \A u \in Users : (W[u] = None <=> T[u] = None) /\ (T[u] # None => W[u].photo = T[u].photo)
    PROVE  PhotosOK(W, F, c)
<1>1. Kept(W) = Kept(T)
  BY DEF Kept
<1>2. QED BY <1>1 DEF PhotosOK

\* A new photo for one account, whose old one is deleted.
LEMMA NewPhoto ==
    ASSUME NEW T, NEW F, NEW c, PhotosOK(T, F, c), NEW u \in Users, T[u] # None, NEW q \in Paths \ F,
           NEW W, \A v \in Users \ {u} : W[v] = T[v], W[u] # None, W[u].photo = q
    PROVE  PhotosOK(W, (F \cup {q}) \ {T[u].photo}, c)
<1>1. q # None /\ q \notin Kept(T) /\ Kept(T) \subseteq F /\ \A i \in Calls : q \notin Stores(c[i])
  BY NoneApart DEF PhotosOK
<1>2. Kept(W) = (Kept(T) \cup {q}) \ {T[u].photo}
  <2>1. \A z : z \in Kept(W) => z \in (Kept(T) \cup {q}) \ {T[u].photo}
    <3>1. SUFFICES ASSUME NEW v \in Users, W[v] # None, W[v].photo # None
                   PROVE  W[v].photo \in (Kept(T) \cup {q}) \ {T[u].photo}
      BY DEF Kept
    <3>2. CASE v = u
      <4>1. T[u].photo # q
        BY <1>1 DEF Kept
      <4>2. QED BY <3>2, <4>1
    <3>3. CASE v # u
      <4>1. W[v] = T[v] /\ T[v].photo # T[u].photo
        BY <3>1, <3>3 DEF PhotosOK
      <4>2. QED BY <3>1, <4>1 DEF Kept
    <3>4. QED BY <3>2, <3>3
  <2>2. \A z : z \in (Kept(T) \cup {q}) \ {T[u].photo} => z \in Kept(W)
    BY <1>1 DEF Kept
  <2>3. QED BY <2>1, <2>2
<1>3. \A i \in Calls : Stores(c[i]) \cap Kept(W) = {}
  BY <1>1, <1>2 DEF PhotosOK
<1>4. \A i \in Calls : T[u].photo \notin Stores(c[i])
  <2>1. CASE T[u].photo = None
    <3>1. \A i \in Calls : Stores(c[i]) \subseteq Paths
      BY DEF PhotosOK
    <3>2. QED BY <2>1, <3>1, NoneApart
  <2>2. CASE T[u].photo # None
    <3>1. T[u].photo \in Kept(T)
      BY <2>2 DEF Kept
    <3>2. QED BY <3>1 DEF PhotosOK
  <2>3. QED BY <2>1, <2>2
<1>5. (F \cup {q}) \ {T[u].photo} = Kept(W) \cup UNION {Stores(c[i]) : i \in Calls}
  BY <1>2, <1>4 DEF PhotosOK
<1>6. \A v, w \in Users : W[v] # None /\ W[w] # None /\ W[v].photo # None /\ W[v].photo = W[w].photo => v = w
  <2>1. \A v \in Users \ {u} : W[v] # None => W[v].photo # q
    BY <1>1 DEF Kept
  <2>2. QED BY <2>1 DEF PhotosOK
<1>7. QED BY <1>3, <1>5, <1>6 DEF PhotosOK

\* No photo is given to two rows.
NoShared(f) == Import!Repeated(f, Import!Cell(f, "photo")) = {}

LEMMA OneRow ==
    ASSUME NEW f, NoShared(f), NEW r \in Import!Rows(f), NEW q \in Import!Rows(f),
           f.cells[r].photo # None, f.cells[q].photo = f.cells[r].photo
    PROVE  q = r
<1>1. Import!Cell(f, "photo")[r] = f.cells[r].photo /\ Import!Cell(f, "photo")[q] = f.cells[q].photo
  BY DEF Import!Cell
<1>2. r \notin Import!Repeated(f, Import!Cell(f, "photo"))
  BY DEF NoShared
<1>3. QED BY <1>1, <1>2 DEF Import!Repeated

\* The photo an account has once the plan is written: p of its row's cell, else the one it had.
LEMMA SavedPhoto ==
    ASSUME NEW T \in Tables, NEW f \in Uploads, NEW p \in [Import!PhotosOf(f, Import!Writing(T, f)) -> Paths],
           NEW u \in Users
    PROVE  LET W == Import!Applied(T, T, f, p) IN
           /\ W \in Tables
           /\ T[u] # None => W[u] # None
           /\ \/ /\ W[u].photo = IF T[u] = None THEN None ELSE T[u].photo
                 /\ \A r \in Import!Writing(T, f) : f.user[r] = u => f.cells[r].photo = None
                 /\ W[u] # None
              \/ /\ W[u] = T[u] /\ \A r \in Import!Writing(T, f) : f.user[r] # u
              \/ \E r \in Import!Writing(T, f) :
                    /\ f.user[r] = u /\ f.cells[r].photo # None /\ f.cells[r].photo \in DOMAIN p
                    /\ W[u] # None /\ W[u].photo = p[f.cells[r].photo]
                    /\ \A q \in Import!Rows(f) : f.user[q] = u => q = r
<1> DEFINE W == Import!Applied(T, T, f, p)
           S == Import!Saved(T, f)
<1>1. \A r \in Import!Writing(T, f) : r \in S /\ r \in Import!Rows(f)
  BY WritingRows DEF Import!Writing
<1>2. ASSUME NEW r \in S
      PROVE  /\ f.user[r] \in Users /\ W[f.user[r]] \in Accounts /\ W[f.user[r]] # None
             /\ f.cells[r].photo # None =>
                  r \in Import!Writing(T, f) /\ f.cells[r].photo \in DOMAIN p /\ W[f.user[r]].photo = p[f.cells[r].photo]
             /\ f.cells[r].photo = None => W[f.user[r]].photo = IF T[f.user[r]] = None THEN None ELSE T[f.user[r]].photo
  <2>1. IsImported(W[f.user[r]], T, f, p, r)
    BY AppliedRow
  <2>2. r \in Import!Rows(f) /\ f.user[r] \in Users
    BY SavedRow
  <2>3. f.cells[r].photo # None => r \in Import!Writing(T, f) /\ f.cells[r].photo \in DOMAIN p
    BY <2>2, WritingRows DEF Import!PhotosOf
  <2>4. f.cells[r].photo # None => p[f.cells[r].photo] \in Paths
    BY <2>3
  <2> HIDE DEF W, S
  <2>5. W[f.user[r]].photo \in Paths \cup {None}
    BY <2>1, <2>2, <2>4, AccountRead DEF IsImported
  <2>6. QED BY <2>1, <2>2, <2>3, <2>5 DEF IsImported
<1>3. \A r \in S : \A q \in Import!Rows(f) : f.user[q] = f.user[r] => q = r
  BY SavedRow
<1>4. \A v \in Users : (\A r \in S : f.user[r] # v) => W[v] = T[v]
  <2>1. \A v \in Users : (\A r \in S : f.user[r] # v) => v \notin Import!SavedUsers(T, f)
    BY DEF Import!SavedUsers
  <2>2. QED BY <2>1, AppliedOther
<1>5. W \in Tables
  <2>1. \A v \in Users : W[v] \in Accounts \cup {None}
    <3> SUFFICES ASSUME NEW v \in Users  PROVE W[v] \in Accounts \cup {None}
      OBVIOUS
    <3>1. CASE \E r \in S : f.user[r] = v
      <4> HIDE DEF W, S
      <4>1. QED BY <1>2, <3>1
    <3>2. CASE \A r \in S : f.user[r] # v
      <4>1. W[v] = T[v]
        BY <1>4, <3>2
      <4>2. QED BY <4>1 DEF Tables
    <3>3. QED BY <3>1, <3>2
  <2>2. W = [v \in Users |-> W[v]]
    BY DEF Import!Applied
  <2> HIDE DEF W
  <2>3. QED BY <2>1, <2>2 DEF Tables
<1> HIDE DEF W, S
<1>6. CASE \A r \in S : f.user[r] # u
  <2>1. W[u] = T[u] /\ \A r \in Import!Writing(T, f) : f.user[r] # u
    BY <1>1, <1>4, <1>6
  <2>2. QED BY <1>5, <2>1 DEF W
<1>7. CASE \E r \in S : f.user[r] = u
  <2>1. PICK r \in S : f.user[r] = u
    BY <1>7
  <2>2. W[u] # None
    BY <1>2, <2>1
  <2>3. CASE f.cells[r].photo = None
    <3>1. W[u].photo = IF T[u] = None THEN None ELSE T[u].photo
      BY <1>2, <2>1, <2>3
    <3>2. \A q \in Import!Writing(T, f) : f.user[q] = u => f.cells[q].photo = None
      BY <1>1, <1>3, <2>1, <2>3
    <3>3. QED BY <1>5, <2>2, <3>1, <3>2 DEF W
  <2>4. CASE f.cells[r].photo # None
    <3>1. /\ r \in Import!Writing(T, f) /\ f.cells[r].photo \in DOMAIN p /\ W[u].photo = p[f.cells[r].photo]
          /\ \A q \in Import!Rows(f) : f.user[q] = u => q = r
      BY <1>2, <1>3, <2>1, <2>4
    <3>2. QED BY <1>5, <2>1, <2>2, <2>4, <3>1 DEF W
  <2>5. QED BY <2>3, <2>4
<1>8. QED BY <1>6, <1>7

\* Saving: the call's photos become the accounts', and the photos they replace are deleted.
LEMMA SavePhotos ==
    ASSUME NEW T \in Tables, NEW f \in Uploads, NoShared(f), NEW F, NEW c, PhotosOK(T, F, c), NEW i \in Calls,
           c[i].photos \in [Import!PhotosOf(f, Import!Writing(T, f)) -> Paths],
           NEW d, \A j \in Calls \ {i} : d[j] = c[j], d[i].photos = <<>>
    PROVE  PhotosOK(Import!Applied(T, T, f, c[i].photos), F \ Import!Replaced(T, f), d)
<1> DEFINE p == c[i].photos
           W == Import!Applied(T, T, f, p)
           R == Import!Replaced(T, f)
           old(u) == IF T[u] = None THEN None ELSE T[u].photo
           from(u, r) == /\ f.user[r] = u /\ f.cells[r].photo # None /\ f.cells[r].photo \in DOMAIN p
                         /\ W[u].photo = p[f.cells[r].photo]
                         /\ \A q \in Import!Rows(f) : f.user[q] = u => q = r
           given(u) == \E r \in Import!Writing(T, f) : from(u, r)
           kept(u) == /\ W[u] # None => W[u].photo = old(u)
                      /\ \A r \in Import!Writing(T, f) : f.user[r] = u => f.cells[r].photo = None
<1>1. \A u \in Users : /\ given(u) \/ kept(u)
                       /\ T[u] # None => W[u] # None
                       /\ given(u) => W[u] # None
  <2> SUFFICES ASSUME NEW u \in Users
               PROVE  (given(u) \/ kept(u)) /\ (T[u] # None => W[u] # None) /\ (given(u) => W[u] # None)
    OBVIOUS
  <2>1. /\ T[u] # None => W[u] # None
        /\ \/ /\ W[u].photo = IF T[u] = None THEN None ELSE T[u].photo
              /\ \A r \in Import!Writing(T, f) : f.user[r] = u => f.cells[r].photo = None
              /\ W[u] # None
           \/ /\ W[u] = T[u] /\ \A r \in Import!Writing(T, f) : f.user[r] # u
           \/ \E r \in Import!Writing(T, f) :
                 /\ f.user[r] = u /\ f.cells[r].photo # None /\ f.cells[r].photo \in DOMAIN p
                 /\ W[u] # None /\ W[u].photo = p[f.cells[r].photo]
                 /\ \A q \in Import!Rows(f) : f.user[q] = u => q = r
    BY SavedPhoto
  <2> HIDE DEF W, p
  <2>2. QED BY <2>1
<1>2. \A r \in Import!Writing(T, f) : r \in Import!Rows(f) /\ f.user[r] \in Users /\ f.user[r] # None
  BY FileRead DEF Import!Writing
<1>3. \A z : z \in R <=> \E r \in Import!Writing(T, f) : f.cells[r].photo # None /\ T[f.user[r]] # None /\ z = T[f.user[r]].photo
  BY <1>2 DEF Import!Replaced
<1>4. /\ \A m, n \in DOMAIN p : p[m] = p[n] => m = n
      /\ Stores(c[i]) = {p[n] : n \in DOMAIN p} /\ DOMAIN p = Import!PhotosOf(f, Import!Writing(T, f))
      /\ \A n \in DOMAIN p : p[n] \in Paths /\ p[n] # None
  BY NoneApart DEF PhotosOK, Stores
<1>5. Stores(d[i]) = {} /\ \A j \in Calls \ {i} : Stores(d[j]) = Stores(c[j])
  BY DEF Stores
<1>6. \A j \in Calls : \A m, n \in DOMAIN d[j].photos : d[j].photos[m] = d[j].photos[n] => m = n
  BY DEF PhotosOK
<1> HIDE DEF W, R, p
<1>7. \A n \in DOMAIN p : p[n] \in Stores(c[i]) /\ p[n] \notin Kept(T) /\ p[n] \in F
  BY <1>4 DEF PhotosOK
<1>8. \A u \in Users : old(u) # None => old(u) \in Kept(T)
  BY DEF Kept
\* The photos the accounts end with.
<1>9. Kept(W) \subseteq (Kept(T) \cup Stores(c[i])) \ R
  <2>1. SUFFICES ASSUME NEW u \in Users, W[u] # None, W[u].photo # None
                 PROVE  W[u].photo \in (Kept(T) \cup Stores(c[i])) \ R
    BY DEF Kept
  <2>2. CASE given(u)
    <3>1. PICK r \in Import!Writing(T, f) : from(u, r)
      BY <2>2
    <3>2. W[u].photo \in Stores(c[i]) /\ W[u].photo \notin Kept(T)
      BY <1>7, <3>1
    <3>3. W[u].photo \notin R
      BY <1>2, <1>3, <2>1, <3>2 DEF Kept
    <3>4. QED BY <3>2, <3>3
  <2>3. CASE kept(u)
    <3>1. T[u] # None /\ W[u].photo = T[u].photo /\ W[u].photo \in Kept(T)
      BY <1>8, <2>1, <2>3
    <3>2. W[u].photo \notin R
      <4>1. SUFFICES ASSUME NEW r \in Import!Writing(T, f), f.cells[r].photo # None, T[f.user[r]] # None, T[u].photo = T[f.user[r]].photo
                     PROVE  FALSE
        BY <1>3, <3>1
      <4>2. f.user[r] = u
        BY <1>2, <2>1, <3>1, <4>1 DEF PhotosOK
      <4>3. QED BY <2>3, <4>1, <4>2
    <3>3. QED BY <3>1, <3>2
  <2>4. QED BY <1>1, <2>2, <2>3
<1>10. (Kept(T) \ R) \cup Stores(c[i]) \subseteq Kept(W)
  <2>1. ASSUME NEW u \in Users, T[u] # None, T[u].photo # None, T[u].photo \notin R  PROVE T[u].photo \in Kept(W)
    <3>1. CASE given(u)
      BY <1>3, <2>1, <3>1
    <3>2. CASE kept(u)
      <4>1. W[u] # None /\ W[u].photo = T[u].photo
        BY <1>1, <2>1, <3>2
      <4>2. QED BY <2>1, <4>1 DEF Kept
    <3>3. QED BY <1>1, <3>1, <3>2
  <2>2. ASSUME NEW n \in DOMAIN p  PROVE p[n] \in Kept(W)
    <3>1. PICK r \in Import!Writing(T, f) : f.cells[r].photo = n /\ n # None
      BY <1>4, <2>2 DEF Import!PhotosOf
    <3>2. given(f.user[r])
      BY <1>1, <1>2, <3>1
    <3>3. PICK q \in Import!Writing(T, f) : from(f.user[r], q)
      BY <3>2
    <3>4. q = r /\ W[f.user[r]].photo = p[n] /\ W[f.user[r]] # None
      BY <1>1, <1>2, <3>1, <3>2, <3>3
    <3>5. QED BY <1>2, <1>4, <2>2, <3>4 DEF Kept
  <2>3. QED BY <1>4, <2>1, <2>2 DEF Kept
<1>11. \A u, v \in Users : W[u] # None /\ W[v] # None /\ W[u].photo # None /\ W[u].photo = W[v].photo => u = v
  <2>1. SUFFICES ASSUME NEW u \in Users, NEW v \in Users, W[u] # None, W[v] # None, W[u].photo # None, W[u].photo = W[v].photo
                 PROVE  u = v
    OBVIOUS
  <2>2. CASE given(u) /\ given(v)
    <3>1. PICK r \in Import!Writing(T, f) : from(u, r)
      BY <2>2
    <3>2. PICK q \in Import!Writing(T, f) : from(v, q)
      BY <2>2
    <3>3. f.cells[r].photo = f.cells[q].photo
      BY <1>4, <2>1, <3>1, <3>2
    <3>4. r = q
      BY <1>2, <3>1, <3>3, OneRow
    <3>5. QED BY <3>1, <3>2, <3>4
  <2>3. CASE given(u) /\ kept(v)
    BY <1>7, <1>8, <2>1, <2>3
  <2>4. CASE kept(u) /\ given(v)
    BY <1>7, <1>8, <2>1, <2>4
  <2>5. CASE kept(u) /\ kept(v)
    BY <2>1, <2>5 DEF PhotosOK
  <2>6. QED BY <1>1, <2>2, <2>3, <2>4, <2>5
<1>12. R \subseteq Kept(T) \cup {None}
  BY <1>2, <1>3 DEF Kept
<1>13. \A j \in Calls \ {i} : Stores(d[j]) \cap Kept(W) = {}
  <2>1. \A j \in Calls \ {i} : Stores(c[j]) \cap (Kept(T) \cup Stores(c[i])) = {}
    BY DEF PhotosOK
  <2>2. QED BY <1>5, <1>9, <2>1
<1>14. \A j \in Calls : Stores(c[j]) \cap R = {}
  <2>1. \A j \in Calls : Stores(c[j]) \subseteq Paths /\ Stores(c[j]) \cap Kept(T) = {}
    BY DEF PhotosOK
  <2>2. QED BY <1>12, <2>1, NoneApart

<1>15. F \ R = Kept(W) \cup UNION {Stores(d[j]) : j \in Calls}
  <2> DEFINE M == UNION {Stores(c[j]) : j \in Calls}
             L == UNION {Stores(d[j]) : j \in Calls}
  <2>1. F = Kept(T) \cup M
    BY DEF PhotosOK
  <2>2. Kept(W) = (Kept(T) \ R) \cup Stores(c[i])
    <3>1. Stores(c[i]) \cap R = {}
      BY <1>14
    <3>2. QED BY <1>9, <1>10, <3>1
  <2>3. M = Stores(c[i]) \cup L
    BY <1>5
  <2>4. \A z \in M : z \notin R
    BY <1>14
  <2> HIDE DEF M, L
  <2>5. F \ R = Kept(W) \cup L
    BY <2>1, <2>2, <2>3, <2>4
  <2>6. QED BY <2>5 DEF L
<1>16. \A j, k \in Calls : j # k => Stores(d[j]) \cap Stores(d[k]) = {}
  BY <1>5 DEF PhotosOK
<1>17. PhotosOK(W, F \ R, d)
  <2>1. F \ R \subseteq Paths
    BY DEF PhotosOK
  <2>2. QED BY <1>5, <1>6, <1>11, <1>13, <1>15, <1>16, <2>1 DEF PhotosOK
<1>18. QED BY <1>17 DEF W, R, p

-----------------------------------------------------------------------------
(* The invariant *)

\* A call under way has stored the photos of the rows its preview writes.
CallOK(f, c) ==
    /\ c.runs \in BOOLEAN
    /\ c.runs => c.photos \in [Import!PhotosOf(f, Import!Writing(c.seen, f)) -> Paths]
    /\ ~c.runs => c = Import!Idle
\* A form has read a student who is still there.
FormOK(T, m) == m # None =>
    /\ m.user \in Users /\ T[m.user] # None /\ m.rest \in Accounts /\ m.field \in Import!Fields
    /\ m.value \in IF m.field = "phone" THEN Phones \cup {None} ELSE Numbers \cup {None}
\* What an import leaves is typed and keeps the keys; the photos agree with the files unless rows share one.
ImportInv ==
    /\ upload \in Uploads /\ account \in Tables /\ Import!Unique(account)
    /\ call = [i \in Calls |-> call[i]] /\ \A i \in Calls : CallOK(upload, call[i])
    /\ FormOK(account, form)
    /\ NoShared(upload) => PhotosOK(account, files, call)

LEMMA IdleCall == Stores(Import!Idle) = {} /\ Import!Idle.photos = <<>> /\ Import!Idle.runs = FALSE /\ CallOK(None, Import!Idle)
                  /\ \A f : CallOK(f, Import!Idle)
BY DEF Stores, CallOK, Import!Idle

LEMMA FormStays ==
    ASSUME NEW T, NEW W, NEW m, FormOK(T, m), \A u \in Users : T[u] # None => W[u] # None
    PROVE  FormOK(W, m)
BY DEF FormOK

LEMMA InvInit == Import!Init => ImportInv
<1> SUFFICES ASSUME Import!Init  PROVE ImportInv
  OBVIOUS
<1> USE DEF Import!Init
<1>1. upload \in Uploads /\ account \in Tables /\ Import!Unique(account) /\ \A u \in Users : account[u] # None => account[u].photo = None
  BY ImportAssumption DEF ImportAssumption, Tables
<1>2. call = [i \in Calls |-> call[i]] /\ \A i \in Calls : call[i] = Import!Idle
  OBVIOUS
<1>3. \A i \in Calls : CallOK(upload, call[i]) /\ Stores(call[i]) = {} /\ call[i].photos = <<>>
  BY <1>2, IdleCall
<1>4. FormOK(account, form)
  BY DEF FormOK
<1>5. PhotosOK(account, files, call)
  <2>1. Kept(account) = {}
    BY <1>1 DEF Kept
  <2>2. files = Kept(account) \cup UNION {Stores(call[i]) : i \in Calls}
    BY <1>3, <2>1
  <2>3. QED BY <1>1, <1>3, <2>1, <2>2 DEF PhotosOK
<1>6. QED BY <1>1, <1>2, <1>3, <1>4, <1>5 DEF ImportInv

-----------------------------------------------------------------------------
(* Every step keeps the invariant *)

LEMMA PlanKeeps ==
    ASSUME ImportInv, NEW i \in Calls, Import!Plan(i)
    PROVE  ImportInv'
<1>1. PICK p \in [Import!PhotosOf(upload, Import!Writing(account, upload)) -> Import!NewPaths] :
        /\ \A m, n \in DOMAIN p : p[m] = p[n] => m = n
        /\ call' = [call EXCEPT ![i] = [runs |-> TRUE, seen |-> account, photos |-> p]]
        /\ files' = files \cup {p[n] : n \in DOMAIN p}
  BY DEF Import!Plan
<1>2. UNCHANGED <<upload, account, form>> /\ ~call[i].runs
  BY DEF Import!Plan
<1>3. /\ call[i] = Import!Idle /\ call = [j \in Calls |-> call[j]] /\ \A j \in Calls : CallOK(upload, call[j])
  BY <1>2 DEF ImportInv, CallOK
<1>4. /\ call' = [j \in Calls |-> call'[j]]
      /\ call'[i] = [runs |-> TRUE, seen |-> account, photos |-> p] /\ \A j \in Calls \ {i} : call'[j] = call[j]
  BY <1>1, <1>3
<1>5. \A n \in DOMAIN p : p[n] \in Paths \ files
  BY DEF Import!NewPaths
<1>6. CallOK(upload, call'[i])
  <2>1. p \in [Import!PhotosOf(upload, Import!Writing(account, upload)) -> Paths]
    BY <1>5
  <2>2. call'[i].runs = TRUE /\ call'[i].seen = account /\ call'[i].photos = p
    BY <1>4
  <2>3. QED BY <2>1, <2>2 DEF CallOK
<1>7. \A j \in Calls : CallOK(upload, call'[j])
  BY <1>3, <1>4, <1>6
<1>8. ASSUME NoShared(upload)  PROVE PhotosOK(account, files', call')
  <2>1. PhotosOK(account, files, call) /\ Stores(call[i]) = {} /\ call'[i].photos = p
    BY <1>3, <1>4, <1>8, IdleCall DEF ImportInv
  <2>2. QED BY <1>1, <1>4, <1>5, <2>1, PlanPhotos
<1>9. QED BY <1>2, <1>4, <1>7, <1>8 DEF ImportInv

LEMMA CallEnds ==
    ASSUME ImportInv, NEW i \in Calls, call' = [call EXCEPT ![i] = Import!Idle]
    PROVE  /\ call' = [j \in Calls |-> call'[j]] /\ call'[i] = Import!Idle /\ call'[i].photos = <<>>
           /\ \A j \in Calls \ {i} : call'[j] = call[j]
           /\ \A j \in Calls : CallOK(upload, call'[j])
<1>1. call = [j \in Calls |-> call[j]] /\ \A j \in Calls : CallOK(upload, call[j])
  BY DEF ImportInv
<1>2. call' = [j \in Calls |-> call'[j]] /\ call'[i] = Import!Idle /\ \A j \in Calls \ {i} : call'[j] = call[j]
  BY <1>1
<1>3. CallOK(upload, call'[i]) /\ call'[i].photos = <<>>
  BY <1>2, IdleCall
<1>4. QED BY <1>1, <1>2, <1>3

LEMMA ConflictKeeps ==
    ASSUME ImportInv, NEW i \in Calls, Import!Conflict(i)
    PROVE  ImportInv'
<1>1. /\ call' = [call EXCEPT ![i] = Import!Idle] /\ UNCHANGED <<upload, account, form>>
      /\ files' = files \ Stores(call[i])
  BY DEF Import!Conflict, Import!Stored, Stores
<1>2. /\ call' = [j \in Calls |-> call'[j]] /\ call'[i].photos = <<>> /\ \A j \in Calls \ {i} : call'[j] = call[j]
      /\ \A j \in Calls : CallOK(upload, call'[j])
  BY <1>1, CallEnds
<1>3. NoShared(upload) => PhotosOK(account, files', call')
  BY <1>1, <1>2, ConflictPhotos DEF ImportInv
<1>4. QED BY <1>1, <1>2, <1>3 DEF ImportInv

LEMMA SaveKeeps ==
    ASSUME ImportInv, NEW i \in Calls, Import!Save(i)
    PROVE  ImportInv'
<1>1. /\ call' = [call EXCEPT ![i] = Import!Idle] /\ UNCHANGED <<upload, form>> /\ call[i].runs
      /\ account' = Import!Applied(account, account, upload, call[i].photos)
      /\ files' = files \ Import!Replaced(account, upload)
      /\ Import!Writing(account, upload) = Import!Writing(call[i].seen, upload)
  BY SameWriting DEF Import!Save
<1>2. /\ call' = [j \in Calls |-> call'[j]] /\ call'[i].photos = <<>> /\ \A j \in Calls \ {i} : call'[j] = call[j]
      /\ \A j \in Calls : CallOK(upload, call'[j])
  BY <1>1, CallEnds
<1>3. upload \in Uploads /\ account \in Tables /\ Import!Unique(account)
  BY DEF ImportInv
<1>4. call[i].photos \in [Import!PhotosOf(upload, Import!Writing(account, upload)) -> Paths]
  BY <1>1 DEF ImportInv, CallOK
<1>5. account' \in Tables /\ \A u \in Users : account[u] # None => account'[u] # None
  <2>1. ASSUME NEW u \in Users  PROVE account[u] # None => account'[u] # None
    BY <1>1, <1>3, <1>4, SavedPhoto
  <2>2. CASE Users = {}
    <3>1. account' = [u \in Users |-> account'[u]]
      BY <1>1 DEF Import!Applied
    <3>2. QED BY <2>2, <3>1 DEF Tables
  <2>3. CASE Users # {}
    BY <1>1, <1>3, <1>4, <2>3, SavedPhoto
  <2>4. QED BY <2>1, <2>2, <2>3
<1>6. Import!Unique(account')
  BY <1>1, <1>3, SaveKeepsKeys
<1>7. FormOK(account', form)
  BY <1>5, FormStays DEF ImportInv
<1>8. NoShared(upload) => PhotosOK(account', files', call')
  BY <1>1, <1>2, <1>3, <1>4, SavePhotos DEF ImportInv
<1>9. QED BY <1>1, <1>2, <1>3, <1>5, <1>6, <1>7, <1>8 DEF ImportInv

LEMMA NoneSection == None \in Sections
BY DEF Sections

\* One account gets the columns A.
IsEdited(T, W, u, A) ==
    /\ W \in Tables /\ W[u] = A /\ A # None /\ \A v \in Users \ {u} : W[v] = T[v]
    /\ \A v \in Users : T[v] # None => W[v] # None
    /\ A.photo = T[u].photo =>
        \A v \in Users : (W[v] = None <=> T[v] = None) /\ (T[v] # None => W[v].photo = T[v].photo)

LEMMA OneEdited ==
    ASSUME NEW T \in Tables, NEW u \in Users, T[u] # None, NEW A \in Accounts
    PROVE  IsEdited(T, [T EXCEPT ![u] = A], u, A)
<1> DEFINE W == [T EXCEPT ![u] = A]
<1>1. W \in Tables /\ W[u] = A /\ \A v \in Users \ {u} : W[v] = T[v]
  BY DEF Tables
<1>2. A # None
  BY AccountThere
<1> HIDE DEF W
<1>3. IsEdited(T, W, u, A)
  BY <1>1, <1>2 DEF IsEdited
<1>4. QED BY <1>3 DEF W

LEMMA EditKeeps ==
    ASSUME ImportInv, NEW u \in Users, account[u] # None, NEW A \in Accounts, A.photo = account[u].photo,
           account' = [account EXCEPT ![u] = A], Import!Unique(account'),
           UNCHANGED <<upload, files, call>>, form' = form \/ form' = None
    PROVE  ImportInv'
<1>1. account \in Tables
  BY DEF ImportInv
<1>2. /\ account' \in Tables /\ \A v \in Users : account[v] # None => account'[v] # None
      /\ \A v \in Users : (account'[v] = None <=> account[v] = None) /\ (account[v] # None => account'[v].photo = account[v].photo)
  <2>1. IsEdited(account, [account EXCEPT ![u] = A], u, A)
    BY <1>1, OneEdited
  <2>2. QED BY <2>1 DEF IsEdited
<1>3. FormOK(account', form')
  <2>1. FormOK(account', form)
    <3>1. FormOK(account, form)
      BY DEF ImportInv
    <3>2. QED BY <1>2, <3>1 DEF FormOK
  <2>2. QED BY <2>1 DEF FormOK
<1>4. NoShared(upload) => PhotosOK(account', files, call)
  BY <1>2, SamePhotos DEF ImportInv
<1>5. QED BY <1>2, <1>3, <1>4 DEF ImportInv

LEMMA LeaveKeeps ==
    ASSUME ImportInv, NEW u \in Users, Import!Leave(u)
    PROVE  ImportInv'
<1>1. /\ account[u] # None /\ account' = [account EXCEPT ![u].left = TRUE, ![u].section = None]
      /\ UNCHANGED <<upload, files, call, form>>
  BY DEF Import!Leave
<1>2. account \in Tables /\ Import!Unique(account)
  BY DEF ImportInv
<1> DEFINE A == [account[u] EXCEPT !.left = TRUE, !.section = None]
<1>3. /\ account[u] \in Accounts /\ A \in Accounts /\ A.section = None /\ A.photo = account[u].photo
      /\ A.roll = account[u].roll /\ A.adm = account[u].adm
  <2>1. account[u] \in Accounts
    BY <1>1, <1>2, AccountRead
  <2>2. None \in Sections
    BY NoneSection
  <2>3. QED BY <2>1, <2>2 DEF Accounts
<1>4. account' = [account EXCEPT ![u] = A]
  BY <1>1, <1>2 DEF Tables
<1> HIDE DEF A
<1>5. account'[u] = A /\ \A v \in Users \ {u} : account'[v] = account[v]
  <2>1. IsEdited(account, [account EXCEPT ![u] = A], u, A)
    BY <1>1, <1>2, <1>3, <1>4, OneEdited
  <2>2. QED BY <1>4, <2>1 DEF IsEdited
<1>6. \A k \in Import!Keys : account'[u][k] = account[u][k]
  BY <1>3, <1>5 DEF Import!Keys
<1>7. ASSUME NEW k \in Import!Keys, NEW v \in Users, NEW w \in Users, v # w, account'[v] # None, account'[w] # None,
             account'[v][k] # None, account'[v][k] = account'[w][k]
      PROVE  k = "roll" /\ (account'[v].section # account'[w].section \/ account'[v].section = None)
  <2>1. account[v] # None /\ account[w] # None /\ account'[v][k] = account[v][k] /\ account'[w][k] = account[w][k]
    BY <1>1, <1>5, <1>6, <1>7
  <2>2. k = "roll" /\ (account[v].section # account[w].section \/ account[v].section = None)
    BY <1>2, <1>7, <2>1 DEF Import!Unique
  <2>3. account'[u].section = None
    BY <1>3, <1>5
  <2>4. CASE v = u
    BY <2>2, <2>3, <2>4
  <2>5. CASE w = u
    BY <1>5, <1>7, <2>2, <2>3, <2>5
  <2>6. CASE v # u /\ w # u
    BY <1>5, <2>2, <2>6
  <2>7. QED BY <2>4, <2>5, <2>6
<1>8. Import!Unique(account')
  BY <1>7 DEF Import!Unique
<1>9. QED BY <1>1, <1>3, <1>4, <1>8, EditKeeps

LEMMA StaffKeeps ==
    ASSUME ImportInv, NEW u \in Users, Import!UpdateStaff(u)
    PROVE  ImportInv'
<1>1. PICK v \in Phones \cup {None} : account' = [account EXCEPT ![u].phone = v]
  BY DEF Import!UpdateStaff
<1>2. account[u] # None /\ UNCHANGED <<upload, files, call, form>>
  BY DEF Import!UpdateStaff
<1>3. account \in Tables /\ Import!Unique(account)
  BY DEF ImportInv
<1> DEFINE A == [account[u] EXCEPT !.phone = v]
<1>4. /\ A \in Accounts /\ A.section = account[u].section /\ A.photo = account[u].photo
      /\ A.roll = account[u].roll /\ A.adm = account[u].adm
  <2>1. account[u] \in Accounts
    BY <1>2, <1>3, AccountRead
  <2>2. QED BY <2>1 DEF Accounts
<1>5. account' = [account EXCEPT ![u] = A]
  BY <1>1, <1>3 DEF Tables
<1> HIDE DEF A
<1>6. account'[u] = A /\ \A w \in Users \ {u} : account'[w] = account[w]
  <2>1. IsEdited(account, [account EXCEPT ![u] = A], u, A)
    BY <1>2, <1>3, <1>4, <1>5, OneEdited
  <2>2. QED BY <1>5, <2>1 DEF IsEdited
<1>7. \A k \in Import!Keys : account'[u][k] = account[u][k]
  BY <1>4, <1>6 DEF Import!Keys
<1>8. Import!Unique(account')
  BY <1>2, <1>3, <1>4, <1>6, <1>7 DEF Import!Unique
<1>9. QED BY <1>2, <1>4, <1>5, <1>8, EditKeeps

LEMMA PhotoKeeps ==
    ASSUME ImportInv, NEW u \in Users, Import!UploadPhoto(u)
    PROVE  ImportInv'
<1>1. PICK q \in Paths \ files : /\ account' = [account EXCEPT ![u].photo = q]
                                  /\ files' = (files \cup {q}) \ {account[u].photo}
  BY DEF Import!UploadPhoto, Import!NewPaths
<1>2. account[u] # None /\ UNCHANGED <<upload, call, form>>
  BY DEF Import!UploadPhoto
<1>3. account \in Tables /\ Import!Unique(account)
  BY DEF ImportInv
<1> DEFINE A == [account[u] EXCEPT !.photo = q]
<1>4. /\ A \in Accounts /\ A.section = account[u].section /\ A.photo = q
      /\ A.roll = account[u].roll /\ A.adm = account[u].adm
  <2>1. account[u] \in Accounts
    BY <1>2, <1>3, AccountRead
  <2>2. QED BY <2>1 DEF Accounts
<1>5. account' = [account EXCEPT ![u] = A]
  BY <1>1, <1>3 DEF Tables
<1> HIDE DEF A
<1>6. /\ account'[u] = A /\ A # None /\ \A w \in Users \ {u} : account'[w] = account[w]
      /\ account' \in Tables /\ \A v \in Users : account[v] # None => account'[v] # None
  <2>1. IsEdited(account, [account EXCEPT ![u] = A], u, A)
    BY <1>2, <1>3, <1>4, <1>5, OneEdited
  <2>2. QED BY <1>5, <2>1 DEF IsEdited
<1>7. \A k \in Import!Keys : account'[u][k] = account[u][k]
  BY <1>4, <1>6 DEF Import!Keys
<1>8. Import!Unique(account')
  BY <1>2, <1>3, <1>4, <1>6, <1>7 DEF Import!Unique
<1>9. NoShared(upload) => PhotosOK(account', files', call)
  <2>1. SUFFICES ASSUME NoShared(upload)  PROVE PhotosOK(account', files', call)
    OBVIOUS
  <2>2. PhotosOK(account, files, call)
    BY <2>1 DEF ImportInv
  <2>3. account'[u] # None /\ account'[u].photo = q
    BY <1>4, <1>6
  <2>4. PhotosOK(account', (files \cup {q}) \ {account[u].photo}, call)
    BY <1>2, <1>6, <2>2, <2>3, NewPhoto
  <2>5. QED BY <1>1, <2>4
<1>10. FormOK(account', form)
  BY <1>6, FormStays DEF ImportInv
<1>11. QED BY <1>2, <1>6, <1>8, <1>9, <1>10 DEF ImportInv

LEMMA OpenKeeps ==
    ASSUME ImportInv, NEW u \in Users, Import!OpenForm(u)
    PROVE  ImportInv'
<1>1. PICK k \in Import!Fields : \E v \in IF k = "phone" THEN Phones ELSE Numbers \cup {None} :
        form' = [user |-> u, field |-> k, value |-> v, rest |-> account[u]]
  BY DEF Import!OpenForm
<1>2. PICK v \in IF k = "phone" THEN Phones ELSE Numbers \cup {None} :
        form' = [user |-> u, field |-> k, value |-> v, rest |-> account[u]]
  BY <1>1
<1>3. account[u] # None /\ UNCHANGED <<upload, account, files, call>>
  BY DEF Import!OpenForm
<1>4. account[u] \in Accounts
  BY <1>3, AccountRead DEF ImportInv
<1>5. FormOK(account, form')
  <2>1. form'.user = u /\ form'.field = k /\ form'.value = v /\ form'.rest = account[u]
    BY <1>2
  <2>2. v \in IF k = "phone" THEN Phones \cup {None} ELSE Numbers \cup {None}
    BY <1>2
  <2>3. QED BY <1>3, <1>4, <2>1, <2>2 DEF FormOK
<1>6. QED BY <1>3, <1>5 DEF ImportInv

LEMMA SaveFormKeeps ==
    ASSUME ImportInv, Import!SaveForm
    PROVE  ImportInv'
<1>1. /\ form # None /\ account' = [account EXCEPT ![form.user] = Import!Written(form)] /\ Import!Unique(account')
      /\ form' = None /\ UNCHANGED <<upload, files, call>>
  BY DEF Import!SaveForm
<1>2. account \in Tables /\ FormOK(account, form)
  BY DEF ImportInv
<1>3. /\ form.user \in Users /\ account[form.user] # None /\ form.rest \in Accounts /\ form.field \in Import!Fields
      /\ form.value \in IF form.field = "phone" THEN Phones \cup {None} ELSE Numbers \cup {None}
  BY <1>1, <1>2 DEF FormOK
<1>4. account[form.user].left \in BOOLEAN /\ account[form.user].photo \in Paths \cup {None}
  BY <1>2, <1>3, AccountRead
<1>5. Import!Written(form) \in Accounts /\ Import!Written(form).photo = account[form.user].photo
  <2> DEFINE B == [form.rest EXCEPT ![form.field] = form.value]
  <2>1. B \in Accounts
    <3>1. CASE form.field = "phone"
      BY <1>3, <3>1 DEF Accounts
    <3>2. CASE form.field = "roll"
      BY <1>3, <3>2 DEF Accounts
    <3>3. CASE form.field = "adm"
      BY <1>3, <3>3 DEF Accounts
    <3>4. QED BY <1>3, <3>1, <3>2, <3>3 DEF Import!Fields, Import!Keys
  <2>2. Import!Written(form) = [B EXCEPT !.left = account[form.user].left, !.photo = account[form.user].photo]
    BY DEF Import!Written
  <2> HIDE DEF B
  <2>3. QED BY <1>4, <2>1, <2>2 DEF Accounts
<1>6. QED BY <1>1, <1>3, <1>5, EditKeeps

LEMMA RefuseKeeps ==
    ASSUME ImportInv, Import!RefuseForm
    PROVE  ImportInv'
<1>1. form' = None /\ UNCHANGED <<upload, account, files, call>>
  BY DEF Import!RefuseForm
<1>2. QED BY <1>1 DEF ImportInv, FormOK

-----------------------------------------------------------------------------
(* The theorems *)

\* A behaviour of MCMigrations is a migration, or imports.
ImportOK == part = "import" => ImportInv

LEMMA StepKeeps == ImportOK /\ [StartNext]_<<part, vars, imports>> => ImportOK'
<1> SUFFICES ASSUME ImportOK, [StartNext]_<<part, vars, imports>>, part' = "import"  PROVE ImportInv'
  BY DEF ImportOK
<1>1. CASE part = "migration" /\ Next /\ UNCHANGED <<part, imports>>
  BY <1>1
<1>2. CASE part = "import" /\ Import!Next /\ UNCHANGED <<part, vars>>
  <2>1. ImportInv
    BY <1>2 DEF ImportOK
  <2>2. CASE \E i \in Calls : Import!Plan(i) \/ Import!Save(i) \/ Import!Conflict(i)
    BY <2>1, <2>2, PlanKeeps, SaveKeeps, ConflictKeeps
  <2>3. CASE Import!SaveForm \/ Import!RefuseForm
    BY <2>1, <2>3, SaveFormKeeps, RefuseKeeps
  <2>4. CASE \E u \in Users : Import!OpenForm(u) \/ Import!Leave(u) \/ Import!UpdateStaff(u) \/ Import!UploadPhoto(u)
    BY <2>1, <2>4, OpenKeeps, LeaveKeeps, StaffKeeps, PhotoKeeps
  <2>5. QED BY <1>2, <2>2, <2>3, <2>4 DEF Import!Next
<1>3. CASE UNCHANGED <<part, vars, imports>>
  <2>1. ImportInv /\ UNCHANGED <<upload, account, files, call, form>>
    BY <1>3 DEF ImportOK, imports
  <2>2. QED BY <2>1 DEF ImportInv
<1>4. QED BY <1>1, <1>2, <1>3 DEF StartNext

LEMMA StartOK == StartInit => ImportOK
BY InvInit DEF StartInit, ImportOK

LEMMA Holds == ImportOK => ImportsHold
<1> SUFFICES ASSUME ImportOK, part = "import"
             PROVE  /\ Import!NumbersStayUnique /\ Import!PlanSavesAllItCan /\ Import!ReuploadIsUnchanged
                    /\ Import!PhotosAreKept
  BY DEF ImportsHold
<1>1. ImportInv /\ upload \in Uploads /\ account \in Tables /\ Import!Unique(account)
  BY DEF ImportOK, ImportInv
<1>2. Import!NumbersStayUnique
  BY <1>1 DEF Import!NumbersStayUnique
<1>3. Import!PlanSavesAllItCan
  BY <1>1, MostAreSaved DEF Import!PlanSavesAllItCan
<1>4. Import!ReuploadIsUnchanged
  <2>1. SUFFICES ASSUME Import!PhotosOf(upload, Import!Rows(upload)) = {}
                 PROVE  \A r \in Import!Saved(account, upload) :
                    Import!Signature(Import!Applied(account, account, upload, <<>>), upload)[r][1] = "unchanged"
    BY DEF Import!ReuploadIsUnchanged
  <2>2. \A r \in Import!Rows(upload) : upload.cells[r].photo = None
    BY <2>1 DEF Import!PhotosOf
  <2>3. QED BY <1>1, <2>2, SaveIsRepeatable
<1>5. Import!PhotosAreKept
  <2>1. SUFFICES ASSUME NoShared(upload)
                 PROVE  files = Kept(account) \cup UNION {Import!Stored(i) : i \in Calls}
    BY DEF Import!PhotosAreKept, NoShared, Kept
  <2>2. files = Kept(account) \cup UNION {Stores(call[i]) : i \in Calls}
    BY <1>1, <2>1 DEF ImportInv, PhotosOK
  <2>3. \A i \in Calls : Import!Stored(i) = Stores(call[i])
    BY DEF Import!Stored, Stores
  <2>4. QED BY <2>2, <2>3
<1>6. QED BY <1>2, <1>3, <1>4, <1>5

\* planner.py:341, planner.py:12, service.py:15, service.py:181: an import leaves every number to one
\* student, saves the most rows that can be saved together, shows them unchanged when it is repeated,
\* and leaves no photo without a file and no file without a photo.  For any file and any school.
THEOREM ImportsAlwaysHold == StartSpec => []ImportsHold
<1>1. StartSpec => []ImportOK
  BY StartOK, StepKeeps, PTL DEF StartSpec
<1>2. QED BY <1>1, Holds, PTL

\* Only a save writes accounts as a call ends, and it writes what the cells say.
LEMMA BlanksKeep ==
    ASSUME ImportInv, Import!Next, NEW i \in Calls, call[i].runs, ~call'[i].runs, NEW u \in Users, account[u] # None,
           NEW k \in Import!Fields, \A r \in Import!Rows(upload) : upload.user[r] = u => upload.cells[r][k] = None
    PROVE  account'[u][k] = account[u][k]
<1>0. call = [j \in Calls |-> call[j]] /\ account \in Tables /\ upload \in Uploads
  BY DEF ImportInv
<1>1. ASSUME NEW j \in Calls, Import!Plan(j)  PROVE FALSE
  <2>1. PICK p : call' = [call EXCEPT ![j] = [runs |-> TRUE, seen |-> account, photos |-> p]]
    BY <1>1 DEF Import!Plan
  <2>2. j = i
    BY <1>0, <2>1
  <2>3. QED BY <1>0, <2>1, <2>2
<1>2. ASSUME NEW j \in Calls, Import!Conflict(j)  PROVE account'[u][k] = account[u][k]
  BY <1>2 DEF Import!Conflict
<1>3. ASSUME NEW j \in Calls, Import!Save(j)  PROVE account'[u][k] = account[u][k]
  <2>1. account' = Import!Applied(account, account, upload, call[j].photos)
    BY <1>3 DEF Import!Save
  <2>2. CASE u \notin Import!SavedUsers(account, upload)
    BY <2>1, <2>2, AppliedOther
  <2>3. CASE u \in Import!SavedUsers(account, upload)
    <3>1. PICK r \in Import!Saved(account, upload) : upload.user[r] = u
      BY <2>3 DEF Import!SavedUsers
    <3>2. IsImported(account'[u], account, upload, call[j].photos, r) /\ r \in Import!Rows(upload)
      BY <1>0, <2>1, <3>1, AppliedRow, SavedRow
    <3>3. account'[u][k] = Import!Final(account, upload, r, k)
      BY <3>2 DEF IsImported
    <3>4. QED BY <3>1, <3>2, <3>3 DEF Import!Final, Import!Existing
  <2>4. QED BY <2>2, <2>3
<1>4. ASSUME call' = call  PROVE FALSE
  BY <1>4
<1>5. ~Import!SaveForm /\ ~Import!RefuseForm
  BY <1>4 DEF Import!SaveForm, Import!RefuseForm
<1>6. \A v \in Users : ~(Import!OpenForm(v) \/ Import!Leave(v) \/ Import!UpdateStaff(v) \/ Import!UploadPhoto(v))
  BY <1>4 DEF Import!OpenForm, Import!Leave, Import!UpdateStaff, Import!UploadPhoto
<1>7. QED BY <1>1, <1>2, <1>3, <1>5, <1>6 DEF Import!Next

\* service.py:13: when an import ends, what its blank cells stand for, and the users it does not name,
\* have what they had the moment before, edits since the preview included.
THEOREM BlankCellsAlwaysKeep == StartSpec => BlankCellsKeep
<1> DEFINE A == \A i \in Calls : call[i].runs /\ ~call'[i].runs =>
                    \A u \in Users : account[u] # None =>
                        \A k \in Import!Fields :
                            (\A r \in Import!Rows(upload) : upload.user[r] = u => upload.cells[r][k] = None)
                                => account'[u][k] = account[u][k]
<1>1. StartSpec => []ImportOK
  BY StartOK, StepKeeps, PTL DEF StartSpec
<1>2. ImportOK /\ [StartNext]_<<part, vars, imports>> => [A]_(Import!vars)
  <2>1. SUFFICES ASSUME ImportOK, [StartNext]_<<part, vars, imports>>  PROVE [A]_(Import!vars)
    OBVIOUS
  <2>2. CASE part = "migration" /\ Next /\ UNCHANGED <<part, imports>>
    BY <2>2 DEF imports, Import!vars
  <2>3. CASE UNCHANGED <<part, vars, imports>>
    BY <2>3 DEF imports, Import!vars
  <2>4. CASE part = "import" /\ Import!Next /\ UNCHANGED <<part, vars>>
    <3>1. ImportInv /\ Import!Next
      BY <2>1, <2>4 DEF ImportOK
    <3>2. A
      BY <3>1, BlanksKeep
    <3>3. QED BY <3>2
  <2>5. QED BY <2>1, <2>2, <2>3, <2>4 DEF StartNext
<1>3. QED BY <1>1, <1>2, PTL DEF StartSpec, BlankCellsKeep, Import!BlankCellsKeep
=============================================================================
