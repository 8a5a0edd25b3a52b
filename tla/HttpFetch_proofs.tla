-------------------------- MODULE HttpFetch_proofs --------------------------
(***************************************************************************)
(* Proofs about HttpFetch: for any fetches, origins, isolation keys and    *)
(* caps of the pools, no two fetches share an HTTP/1.1 connection or what  *)
(* is left on it, and a connection that failed is not offered again.       *)
(***************************************************************************)
EXTENDS HttpFetch, FiniteSetTheorems, TLAPS

-----------------------------------------------------------------------------
(* The strengthening.                                                      *)

OnHttp2 == {"h2reuse", "h2cold", "h2body"}
Bodies == {"h1reuseBody", "h1coldBody", "h1body"}
Cold == {"h2cold", "h1cold", "h1coldBody"}

\* States in which a fetch has opened no connection yet.
Before == {"new", "dial", "h2reuse", "h1reuse", "h1reuseBody"}

IdleConns == {c \in Conns : Idle(c)}
UsedKeys == {k \in Keys : POOL[k] # << >>}
Http2Keys == {k \in Keys : HTTP2_POOL[k] # NoConn}

\* Who holds a connection, by its state.
Holds ==
    \A f \in Fetches :
        /\ pc[f] \in {"new", "dial"} \cup Ended => conn[f] = NoConn
        /\ pc[f] \in OnHttp1 \cup OnHttp2 => conn[f] \in Conns
        /\ pc[f] \in Cold => conn[f] = f

\* The connection a fetch has not opened is nowhere.
Unopened ==
    \A f \in Fetches : pc[f] \in Before =>
        /\ \A g \in Fetches : conn[g] # f
        /\ \A k \in Keys : HTTP2_POOL[k] # f
        /\ f \notin IdleConns

\* An HTTP/1.1 connection is used once, by a fetch or by the pool.
Owned ==
    \A f, g \in Fetches :
        /\ pc[f] \in OnHttp1 \cup {"decoding"} /\ conn[f] # NoConn /\ conn[g] = conn[f] => f = g
        /\ conn[f] \notin IdleConns

\* A pooled HTTP/2 client serves HTTP/2 alone.
Http2Apart ==
    \A k \in Keys : HTTP2_POOL[k] # NoConn =>
        /\ HTTP2_POOL[k] \notin IdleConns
        /\ \A f \in Fetches : conn[f] = HTTP2_POOL[k] => pc[f] \in OnHttp2

\* No place of the pool repeats another.
PoolDistinct ==
    \A k, l \in Keys : \A i \in 1..Len(POOL[k]), j \in 1..Len(POOL[l]) :
        POOL[k][i] = POOL[l][j] => k = l /\ i = j

\* Everything is kept and used under the key it was opened for.
Keyed ==
    /\ \A k \in Keys : \A i \in 1..Len(POOL[k]) : PoolKey(POOL[k][i]) = k
    /\ \A k \in Keys : HTTP2_POOL[k] # NoConn => PoolKey(HTTP2_POOL[k]) = k
    /\ \A f \in Fetches : conn[f] # NoConn => PoolKey(conn[f]) = PoolKey(f)

\* What is left on a connection.
Answers ==
    /\ \A f \in Fetches :
        /\ pc[f] \in OnHttp1 => unread[conn[f]] \in {<< >>, <<f>>}
        /\ pc[f] \in Bodies => unread[conn[f]] = <<f>>
        /\ pc[f] = "decoding" /\ conn[f] # NoConn => unread[conn[f]] = << >>
    /\ \A c \in IdleConns : unread[c] = << >>

Finite == IsFiniteSet(UsedKeys) /\ IsFiniteSet(Http2Keys)

\* The inductive invariant.
HttpInv ==
    /\ TypeOK /\ Holds /\ Unopened /\ Owned /\ Http2Apart
    /\ PoolDistinct /\ Keyed /\ Answers /\ Finite

-----------------------------------------------------------------------------
(* Who uses what, from one step to the next.                               *)

\* What a step of fetch f does to the use of connections: f goes to state p
\* with connection c, the pools lose connections, and at most one connection
\* changes hands.
Moves(f, p, c) ==
    /\ pc' = [pc EXCEPT ![f] = p]
    /\ conn' = [conn EXCEPT ![f] = c]
    /\ p \in {"new", "dial"} \cup Ended => c = NoConn
    /\ p \in OnHttp1 \cup OnHttp2 => c \in Conns
    /\ p \in Cold => c = f
    /\ p \in Before => pc[f] \in Before

\* The connection f keeps, drops, opens, takes from the pool or shares.
Keeps(f, p, c) ==
    /\ c = conn[f] /\ c # NoConn
    /\ p \in OnHttp2 <=> pc[f] \in OnHttp2
Opens(f, p, c) == c = f /\ pc[f] = "dial" /\ p \notin Before
Takes(f, p, c) == c \in IdleConns /\ c \notin IdleConns' /\ p \notin OnHttp2
Shares(f, p, c) == p \in OnHttp2 /\ \E k \in Keys : c = HTTP2_POOL[k]

\* What becomes idle is what f gives back.
IdleFrom(f, c) ==
    \A x \in IdleConns' :
        x \in IdleConns \/ (c = NoConn /\ x = conn[f] /\ pc[f] \in OnHttp1 \cup {"decoding"})

\* What becomes an HTTP/2 client is what f opened.
Http2From(f, p, c) ==
    \A k \in Keys :
        \/ HTTP2_POOL'[k] \in {HTTP2_POOL[k], NoConn}
        \/ HTTP2_POOL'[k] = f /\ c = f /\ p \in OnHttp2 /\ pc[f] = "dial"

\* The states a fetch can be in, and what they say of its connection.
LEMMA States ==
    ASSUME TypeOK, Holds, NEW f \in Fetches
    PROVE  /\ pc[f] \in Before \cup OnHttp1 \cup OnHttp2 \cup {"decoding"} \cup Ended
           /\ conn[f] # NoConn => pc[f] \in OnHttp1 \cup OnHttp2 \cup {"decoding"}
           /\ conn[f] \in Conns \/ conn[f] = NoConn
BY ZenonT(30) DEF TypeOK, Holds, Before, OnHttp1, OnHttp2, Ended, Awaiting, Streaming, ConnOrNone

\* A step of one fetch leaves every connection with one owner.
LEMMA OwnersKept ==
    ASSUME TypeOK, Holds, Unopened, Owned, Http2Apart, NEW f \in Fetches, NEW p, NEW c \in ConnOrNone,
           Moves(f, p, c), IdleFrom(f, c), Http2From(f, p, c),
           c = NoConn \/ Keeps(f, p, c) \/ Opens(f, p, c) \/ Takes(f, p, c) \/ Shares(f, p, c)
    PROVE  Holds' /\ Unopened' /\ Owned' /\ Http2Apart'
<1>1. /\ \A g \in Fetches : g # f => pc'[g] = pc[g] /\ conn'[g] = conn[g]
      /\ pc'[f] = p /\ conn'[f] = c
  BY ZenonT(30) DEF Moves, TypeOK
<1>2. f # NoConn /\ NoConn \notin Conns /\ IdleConns \subseteq Conns /\ IdleConns' \subseteq Conns /\ Conns = Fetches
  BY ConstantsAssumption, ZenonT(30) DEF Conns, IdleConns
<1>3. Holds'
  BY <1>1, ZenonT(30) DEF Holds, Moves
<1>4. Unopened'
  BY <1>1, <1>2, SMTT(30), Z3T(30) DEF Unopened, Moves, IdleFrom, Http2From, Keeps, Opens, Takes, Shares
<1>5. ASSUME NEW g \in Fetches, g # f, conn[g] # NoConn, c = conn[g]
      PROVE  pc[g] \in OnHttp2 /\ p \in OnHttp2
  <2>1. pc[g] \in OnHttp1 \cup OnHttp2 \cup {"decoding"} /\ conn[g] \notin IdleConns
    BY <1>5, States, ZenonT(30) DEF Owned
  <2>2. CASE Keeps(f, p, c)
    <3>1. pc[f] \in OnHttp1 \cup OnHttp2 \cup {"decoding"}
      BY <2>2, States, ZenonT(30) DEF Keeps
    <3> QED BY <1>5, <2>1, <2>2, <3>1, ZenonT(30) DEF Keeps, Owned
  <2>3. CASE Opens(f, p, c)
    BY <1>5, <2>3, ZenonT(30) DEF Opens, Unopened, Before
  <2>4. CASE Takes(f, p, c)
    BY <1>5, <2>1, <2>4, ZenonT(30) DEF Takes
  <2>5. CASE Shares(f, p, c)
    BY <1>5, <2>5, ZenonT(30) DEF Shares, Http2Apart
  <2> QED BY <1>5, <2>2, <2>3, <2>4, <2>5, ZenonT(30)
<1>6. c \notin IdleConns'
  BY <1>2, SMTT(30), Z3T(30) DEF Keeps, Opens, Takes, Shares, Owned, Unopened, Before, Http2Apart, IdleFrom
<1>7. Owned'
  <2> SUFFICES ASSUME NEW g \in Fetches, NEW h \in Fetches
               PROVE  /\ pc'[g] \in OnHttp1 \cup {"decoding"} /\ conn'[g] # NoConn /\ conn'[h] = conn'[g] => g = h
                      /\ conn'[g] \notin IdleConns'
    BY ZenonT(30) DEF Owned
  <2>1. conn'[g] \notin IdleConns'
    BY <1>1, <1>2, <1>6, SMTT(30) DEF IdleFrom, Owned
  <2>2. ASSUME pc'[g] \in OnHttp1 \cup {"decoding"}, conn'[g] # NoConn, conn'[h] = conn'[g], g # h
        PROVE  FALSE
    <3>1. pc'[g] \notin OnHttp2
      BY <2>2, ZenonT(30) DEF OnHttp1, OnHttp2
    <3> QED BY <1>1, <1>5, <2>2, <3>1, ZenonT(30) DEF Owned
  <2> QED BY <2>1, <2>2, ZenonT(30)
<1>8. Http2Apart'
  <2> SUFFICES ASSUME NEW k \in Keys, HTTP2_POOL'[k] # NoConn
               PROVE  /\ HTTP2_POOL'[k] \notin IdleConns'
                      /\ \A g \in Fetches : conn'[g] = HTTP2_POOL'[k] => pc'[g] \in OnHttp2
    BY ZenonT(30) DEF Http2Apart
  <2>1. CASE HTTP2_POOL'[k] = HTTP2_POOL[k]
    BY <1>1, <1>2, <2>1, SMTT(30) DEF Http2Apart, IdleFrom, Keeps, Opens, Takes, Shares, Unopened, Before, OnHttp1, OnHttp2
  <2>2. CASE HTTP2_POOL'[k] = f /\ c = f /\ p \in OnHttp2 /\ pc[f] = "dial"
    BY <1>1, <1>2, <1>6, <2>2, ZenonT(30) DEF Unopened, Before
  <2> QED BY <2>1, <2>2, ZenonT(30) DEF Http2From
<1> QED BY <1>3, <1>4, <1>7, <1>8, ZenonT(30)

\* A step of one fetch leaves every response with the fetch it answers.
LEMMA AnswersKept ==
    ASSUME TypeOK, Holds, Owned, Owned', Answers, NEW f \in Fetches, NEW p, NEW c \in ConnOrNone,
           Moves(f, p, c), IdleFrom(f, c),
           \A x \in Conns : x # conn[f] /\ x # c => unread'[x] = unread[x],
           p \in OnHttp1 => unread'[c] \in {<< >>, <<f>>},
           p \in Bodies => unread'[c] = <<f>>,
           p = "decoding" /\ c # NoConn => unread'[c] = << >>,
           conn[f] \in IdleConns' => unread'[conn[f]] = << >>
    PROVE  Answers'
<1>1. /\ \A g \in Fetches : g # f => pc'[g] = pc[g] /\ conn'[g] = conn[g]
      /\ pc'[f] = p /\ conn'[f] = c
  BY ZenonT(30) DEF Moves, TypeOK
<1>2. f # NoConn /\ NoConn \notin Conns /\ IdleConns' \subseteq Conns /\ Conns = Fetches
  BY ConstantsAssumption, ZenonT(30) DEF Conns, IdleConns
<1>3. ASSUME NEW g \in Fetches, g # f, pc[g] \in OnHttp1 \cup {"decoding"}, conn[g] # NoConn
      PROVE  unread'[conn[g]] = unread[conn[g]]
  <2>1. conn[g] \in Conns
    BY <1>3, States, ZenonT(30)
  <2>2. conn[g] # conn[f] /\ conn[g] # c
    BY <1>1, <1>3, SMTT(30), Z3T(30) DEF Owned
  <2> QED BY <2>1, <2>2, ZenonT(30)
<1>4. \A g \in Fetches : pc[g] \in OnHttp1 => conn[g] # NoConn
  BY <1>2, ZenonT(30) DEF Holds
<1>5. Bodies \subseteq OnHttp1
  BY ZenonT(30) DEF Bodies, OnHttp1
<1>6. ASSUME NEW x \in IdleConns'
      PROVE  unread'[x] = << >>
  <2>1. CASE x = conn[f]
    BY <2>1, <1>6, ZenonT(30)
  <2>2. CASE x # conn[f]
    <3>1. x \in IdleConns /\ x \in Conns /\ x # c
      BY <1>1, <1>2, <1>6, <2>2, ZenonT(30) DEF IdleFrom, Owned
    <3> QED BY <2>2, <3>1, ZenonT(30) DEF Answers
  <2> QED BY <2>1, <2>2, ZenonT(30)
<1> QED BY <1>1, <1>3, <1>4, <1>5, <1>6, SMTT(30), Z3T(30) DEF Answers

-----------------------------------------------------------------------------
(* The pools.                                                              *)

\* t is s, or s without its first or its last connection, or nothing.
Part(s, t) ==
    \E d \in {0, 1} : Len(t) + d <= Len(s) /\ \A i \in 1..Len(t) : t[i] = s[i + d]

\* The keys a map of the pool uses, and what is true of such a map.
Used(m, empty) == {k \in Keys : m[k] # empty}

PoolOK(m) ==
    /\ m \in [Keys -> Seq(Conns)]
    /\ \A k \in Keys : Len(m[k]) <= MAX_IDLE_PER_KEY
    /\ \A k \in Keys : \A i \in 1..Len(m[k]) : PoolKey(m[k][i]) = k
    /\ \A k, l \in Keys : \A i \in 1..Len(m[k]), j \in 1..Len(m[l]) : m[k][i] = m[l][j] => k = l /\ i = j
    /\ IsFiniteSet(Used(m, << >>)) /\ Cardinality(Used(m, << >>)) <= MAX_POOL_KEYS

Http2OK(m) ==
    /\ m \in [Keys -> ConnOrNone]
    /\ \A k \in Keys : m[k] # NoConn => PoolKey(m[k]) = k
    /\ IsFiniteSet(Used(m, NoConn)) /\ Cardinality(Used(m, NoConn)) <= MAX_POOL_KEYS

\* What take and put leave of a queue.
LEMMA Parts ==
    ASSUME NEW S, NEW s \in Seq(S)
    PROVE  /\ Part(s, s) /\ Part(s, << >>) /\ << >> \in Seq(S)
           /\ s # << >> => /\ Front(s) \in Seq(S) /\ Part(s, Front(s))
                           /\ Tail(s) \in Seq(S) /\ Part(s, Tail(s))
                           /\ Last(s) = s[Len(s)] /\ Len(Front(s)) = Len(s) - 1 /\ Len(s) \in 1..Len(s)
                           /\ Len(Tail(s)) = Len(s) - 1
                           /\ \A i \in 1..Len(Front(s)) : Front(s)[i] = s[i]
<1>1. Part(s, s)
  BY SMTT(30) DEF Part
<1>2. Part(s, << >>) /\ << >> \in Seq(S)
  BY SMTT(30) DEF Part
<1>3. ASSUME s # << >>
      PROVE  /\ Front(s) \in Seq(S) /\ Len(Front(s)) = Len(s) - 1 /\ Len(s) \in 1..Len(s)
             /\ \A i \in 1..Len(Front(s)) : Front(s)[i] = s[i]
  BY <1>3, SMTT(30), Z3T(30) DEF Front
<1>4. ASSUME s # << >>
      PROVE  Part(s, Front(s))
  BY <1>3, <1>4, SMTT(30) DEF Part
<1>5. ASSUME s # << >>
      PROVE  /\ Tail(s) \in Seq(S) /\ Len(Tail(s)) = Len(s) - 1
             /\ \A i \in 1..Len(Tail(s)) : Tail(s)[i] = s[i + 1]
  BY <1>5, SMTT(30)
<1>6. ASSUME s # << >>
      PROVE  Part(s, Tail(s))
  BY <1>5, <1>6, SMTT(30) DEF Part
<1> QED BY <1>1, <1>2, <1>3, <1>4, <1>5, <1>6, ZenonT(30) DEF Last

\* A map with fewer keys is within the cap.
LEMMA FewerKeys ==
    ASSUME NEW A, NEW B, IsFiniteSet(A), B \subseteq A, Cardinality(A) <= MAX_POOL_KEYS
    PROVE  IsFiniteSet(B) /\ Cardinality(B) <= MAX_POOL_KEYS
<1>1. IsFiniteSet(B) /\ Cardinality(B) <= Cardinality(A)
  BY FS_Subset, ZenonT(30)
<1>2. Cardinality(A) \in Nat /\ Cardinality(B) \in Nat
  BY <1>1, FS_CardinalityType, ZenonT(30)
<1> QED BY <1>1, <1>2, ConstantsAssumption, SMTT(30)

\* Connections may leave a pool in any way.
LEMMA Shrunk ==
    ASSUME NEW m, PoolOK(m), NEW q \in [Keys -> Seq(Conns)], \A k \in Keys : Part(m[k], q[k])
    PROVE  /\ PoolOK(q)
           /\ \A k \in Keys : \A i \in 1..Len(q[k]) : \E j \in 1..Len(m[k]) : q[k][i] = m[k][j]
<1>1. \A k \in Keys : Len(m[k]) \in Nat /\ Len(q[k]) \in Nat /\ Len(q[k]) <= Len(m[k])
  BY SMTT(30), Z3T(30) DEF PoolOK, Part
<1>2. ASSUME NEW k \in Keys
      PROVE  \E d \in {0, 1} : \A i \in 1..Len(q[k]) : i + d \in 1..Len(m[k]) /\ q[k][i] = m[k][i + d]
  <2>1. PICK d \in {0, 1} : Len(q[k]) + d <= Len(m[k]) /\ \A i \in 1..Len(q[k]) : q[k][i] = m[k][i + d]
    BY ZenonT(30) DEF Part
  <2>2. \A i \in 1..Len(q[k]) : i + d \in 1..Len(m[k])
    BY <1>1, <2>1, SMTT(30), Z3T(30)
  <2> QED BY <2>1, <2>2, ZenonT(30)
<1>3. \A k \in Keys : \A i \in 1..Len(q[k]) : \E j \in 1..Len(m[k]) : q[k][i] = m[k][j]
  BY <1>2, ZenonT(30)
<1>4. \A k \in Keys : Len(q[k]) <= MAX_IDLE_PER_KEY
  BY <1>1, ConstantsAssumption, SMTT(30) DEF PoolOK
<1>5. \A k \in Keys : \A i \in 1..Len(q[k]) : PoolKey(q[k][i]) = k
  BY <1>3, SMTT(30), Z3T(30) DEF PoolOK
<1>6. ASSUME NEW k \in Keys, NEW l \in Keys, NEW i \in 1..Len(q[k]), NEW j \in 1..Len(q[l]), q[k][i] = q[l][j]
      PROVE  k = l /\ i = j
  <2>1. PICK d \in {0, 1} : \A n \in 1..Len(q[k]) : n + d \in 1..Len(m[k]) /\ q[k][n] = m[k][n + d]
    BY <1>2, ZenonT(30)
  <2>2. k = l
    BY <1>3, <1>6, SMTT(30), Z3T(30) DEF PoolOK
  <2>3. i + d = j + d
    BY <1>6, <2>1, <2>2, SMTT(30), Z3T(30) DEF PoolOK
  <2> QED BY <2>2, <2>3, SMTT(30), Z3T(30)
<1>7. \A k \in Keys : q[k] # << >> => m[k] # << >>
  <2> SUFFICES ASSUME NEW k \in Keys, m[k] = << >> PROVE q[k] = << >>
    BY ZenonT(30)
  <2>1. Len(q[k]) = 0
    BY <1>1, SMTT(30)
  <2> QED BY <2>1, SMTT(30)
<1>8. IsFiniteSet(Used(q, << >>)) /\ Cardinality(Used(q, << >>)) <= MAX_POOL_KEYS
  <2>1. Used(q, << >>) \subseteq Used(m, << >>)
    BY <1>7, ZenonT(30) DEF Used
  <2> QED BY <2>1, FewerKeys, ZenonT(30) DEF PoolOK
<1> QED BY <1>3, <1>4, <1>5, <1>6, <1>8, ZenonT(30) DEF PoolOK

\* Room makes room for key k and adds nothing.
LEMMA RoomMade ==
    ASSUME NEW m, NEW empty, NEW S, m \in [Keys -> S], empty \in S, NEW k \in Keys,
           IsFiniteSet(Used(m, empty)), Cardinality(Used(m, empty)) <= MAX_POOL_KEYS,
           NEW p \in Room(m, empty, k)
    PROVE  /\ p \in [Keys -> S] /\ \A x \in Keys : p[x] \in {m[x], empty}
           /\ IsFiniteSet(Used(p, empty) \cup {k})
           /\ Cardinality(Used(p, empty) \cup {k}) <= MAX_POOL_KEYS
<1> DEFINE U == Used(m, empty)
<1>1. CASE k \notin U /\ Cardinality(U) >= MAX_POOL_KEYS
  <2>1. PICK x \in U : p = [m EXCEPT ![x] = empty]
    BY <1>1, ZenonT(30) DEF Room, Used
  <2>2. x \in Keys /\ Used(p, empty) = U \ {x} /\ k \notin U \ {x}
    BY <1>1, <2>1, ZenonT(30) DEF Used
  <2>3. IsFiniteSet(U \ {x}) /\ Cardinality(U \ {x}) = Cardinality(U) - 1
    BY FS_RemoveElement, ZenonT(30)
  <2>4. IsFiniteSet(Used(p, empty) \cup {k}) /\ Cardinality(Used(p, empty) \cup {k}) = Cardinality(U \ {x}) + 1
    BY <2>2, <2>3, FS_AddElement, ZenonT(30)
  <2>5. Cardinality(U) \in Nat
    BY FS_CardinalityType, ZenonT(30)
  <2> QED BY <2>1, <2>2, <2>3, <2>4, <2>5, ConstantsAssumption, SMTT(30), Z3T(30)
<1>2. CASE k \in U
  <2>1. p = m /\ Used(p, empty) \cup {k} = U
    BY <1>2, ZenonT(30) DEF Room, Used
  <2> QED BY <2>1, ZenonT(30)
<1>3. CASE k \notin U /\ ~(Cardinality(U) >= MAX_POOL_KEYS)
  <2>1. p = m
    BY <1>3, ZenonT(30) DEF Room, Used
  <2>2. IsFiniteSet(U \cup {k}) /\ Cardinality(U \cup {k}) = Cardinality(U) + 1 /\ Cardinality(U) \in Nat
    BY <1>3, FS_AddElement, FS_CardinalityType, ZenonT(30)
  <2> QED BY <1>3, <2>1, <2>2, ConstantsAssumption, SMTT(30), Z3T(30)
<1> QED BY <1>1, <1>2, <1>3, ZenonT(30)

\* So may the connections of the pool itself.
LEMMA PoolShrinks ==
    ASSUME PoolOK(POOL), POOL' \in [Keys -> Seq(Conns)], \A k \in Keys : Part(POOL[k], POOL'[k])
    PROVE  PoolOK(POOL') /\ IdleConns' \subseteq IdleConns
<1>1. /\ PoolOK(POOL')
      /\ \A k \in Keys : \A i \in 1..Len(POOL'[k]) : \E j \in 1..Len(POOL[k]) : POOL'[k][i] = POOL[k][j]
  BY Shrunk, SMTT(30), Z3T(30)
<1> QED BY <1>1, SMTT(30), Z3T(30) DEF IdleConns, Idle

\* The last idle connection of a key leaves the pool.
LEMMA TakeKept ==
    ASSUME PoolOK(POOL), NEW k \in Keys, POOL[k] # << >>, POOL' = [POOL EXCEPT ![k] = Front(@)]
    PROVE  /\ PoolOK(POOL') /\ IdleConns' \subseteq IdleConns
           /\ Last(POOL[k]) \in IdleConns /\ Last(POOL[k]) \notin IdleConns'
           /\ PoolKey(Last(POOL[k])) = k
<1>1. POOL \in [Keys -> Seq(Conns)] /\ POOL[k] \in Seq(Conns)
  BY ZenonT(30) DEF PoolOK
<1>2. /\ Front(POOL[k]) \in Seq(Conns) /\ Part(POOL[k], Front(POOL[k]))
      /\ Last(POOL[k]) = POOL[k][Len(POOL[k])] /\ Len(Front(POOL[k])) = Len(POOL[k]) - 1
      /\ Len(POOL[k]) \in 1..Len(POOL[k])
      /\ \A i \in 1..Len(Front(POOL[k])) : Front(POOL[k])[i] = POOL[k][i]
  BY <1>1, Parts, ZenonT(30)
<1>3. POOL' \in [Keys -> Seq(Conns)] /\ \A x \in Keys : POOL'[x] = IF x = k THEN Front(POOL[k]) ELSE POOL[x]
  BY <1>1, <1>2, ZenonT(30)
<1>4. \A x \in Keys : Part(POOL[x], POOL'[x])
  BY <1>1, <1>2, <1>3, Parts, ZenonT(30)
<1>5. PoolOK(POOL') /\ IdleConns' \subseteq IdleConns
  BY <1>3, <1>4, PoolShrinks, ZenonT(30)
<1>7. Last(POOL[k]) \in IdleConns
  <2>1. POOL[k][Len(POOL[k])] \in Conns
    BY <1>1, <1>2, SMTT(30), Z3T(30)
  <2> QED BY <1>2, <2>1, ZenonT(30) DEF IdleConns, Idle
<1>8. Last(POOL[k]) \notin IdleConns'
  <2> SUFFICES ASSUME NEW x \in Keys, NEW i \in 1..Len(POOL'[x]), POOL'[x][i] = POOL[k][Len(POOL[k])]
               PROVE  FALSE
    BY <1>2, ZenonT(30) DEF IdleConns, Idle
  <2>1. CASE x # k
    BY <1>2, <1>3, <2>1, ZenonT(30) DEF PoolOK
  <2>2. CASE x = k
    <3>1. i \in 1..(Len(POOL[k]) - 1) /\ POOL[k][i] = POOL[k][Len(POOL[k])]
      BY <1>2, <1>3, <2>2, ZenonT(30)
    <3>2. i \in 1..Len(POOL[k]) /\ i # Len(POOL[k])
      BY <1>1, <3>1, SMTT(30), Z3T(30)
    <3> QED BY <1>2, <3>1, <3>2, SMTT(30), Z3T(30) DEF PoolOK
  <2> QED BY <2>1, <2>2, ZenonT(30)
<1>9. PoolKey(Last(POOL[k])) = k
  BY <1>2, ZenonT(30) DEF PoolOK
<1> QED BY <1>5, <1>7, <1>8, <1>9, ZenonT(30)

\* A connection that is not idle enters the pool under its own key.
LEMMA PutKept ==
    ASSUME PoolOK(POOL), NEW c \in Conns, c \notin IdleConns, put(PoolKey(c), c), PoolKey(c) \in Keys
    PROVE  PoolOK(POOL') /\ IdleConns' \subseteq IdleConns \cup {c}
<1> DEFINE k == PoolKey(c)
<1>1. PICK p \in Room(POOL, << >>, k) :
          POOL' = [p EXCEPT ![k] = Append(IF Len(@) >= MAX_IDLE_PER_KEY THEN Tail(@) ELSE @, c)]
  BY ZenonT(30) DEF put
<1> DEFINE b == IF Len(p[k]) >= MAX_IDLE_PER_KEY THEN Tail(p[k]) ELSE p[k]
           q == [p EXCEPT ![k] = b]
<1>2. /\ p \in [Keys -> Seq(Conns)] /\ \A x \in Keys : p[x] \in {POOL[x], << >>}
      /\ IsFiniteSet(Used(p, << >>) \cup {k})
      /\ Cardinality(Used(p, << >>) \cup {k}) <= MAX_POOL_KEYS
  <2>1. POOL \in [Keys -> Seq(Conns)] /\ << >> \in Seq(Conns) /\ k \in Keys
        /\ IsFiniteSet(Used(POOL, << >>)) /\ Cardinality(Used(POOL, << >>)) <= MAX_POOL_KEYS
    BY SMTT(30), Z3T(30) DEF PoolOK
  <2> HIDE DEF k
  <2> QED BY <1>1, <2>1, RoomMade, ZenonT(30)
<1>3. p[k] \in Seq(Conns) /\ Len(p[k]) \in Nat /\ Len(p[k]) <= MAX_IDLE_PER_KEY
  BY <1>2, ConstantsAssumption, SMTT(30), Z3T(30) DEF PoolOK
<1>4. b \in Seq(Conns) /\ Part(p[k], b) /\ Len(b) \in Nat /\ Len(b) + 1 <= MAX_IDLE_PER_KEY
  <2>1. CASE Len(p[k]) >= MAX_IDLE_PER_KEY
    <3>1. p[k] # << >>
      BY <1>3, <2>1, ConstantsAssumption, SMTT(30), Z3T(30)
    <3>2. Tail(p[k]) \in Seq(Conns) /\ Part(p[k], Tail(p[k])) /\ Len(Tail(p[k])) = Len(p[k]) - 1
      BY <1>3, <3>1, Parts, ZenonT(30)
    <3>3. Len(Tail(p[k])) \in Nat /\ Len(Tail(p[k])) + 1 <= MAX_IDLE_PER_KEY
      BY <1>3, <3>1, <3>2, SMTT(30)
    <3> QED BY <2>1, <3>2, <3>3, ZenonT(30)
  <2>2. CASE ~(Len(p[k]) >= MAX_IDLE_PER_KEY)
    <3>1. Len(p[k]) + 1 <= MAX_IDLE_PER_KEY
      BY <1>3, <2>2, ConstantsAssumption, SMTT(30)
    <3>2. Part(p[k], p[k])
      BY <1>3, Parts, ZenonT(30)
    <3> QED BY <1>3, <2>2, <3>1, <3>2, ZenonT(30)
  <2> QED BY <2>1, <2>2, ZenonT(30)
<1>5. q \in [Keys -> Seq(Conns)] /\ \A x \in Keys : q[x] = IF x = k THEN b ELSE p[x]
  BY <1>2, <1>4, ZenonT(30)
<1>6. POOL' = [q EXCEPT ![k] = Append(b, c)]
  BY <1>1, <1>2, ZenonT(30)
<1> HIDE DEF b, q, k
<1>7. k \in Keys /\ PoolKey(c) = k
  BY ZenonT(30) DEF k
<1>8. PoolOK(q) /\ \A x \in Keys : \A i \in 1..Len(q[x]) : \E j \in 1..Len(POOL[x]) : q[x][i] = POOL[x][j]
  <2>1. \A x \in Keys : Part(POOL[x], q[x])
    <3> SUFFICES ASSUME NEW x \in Keys PROVE Part(POOL[x], q[x])
      BY ZenonT(30)
    <3>0. POOL[x] \in Seq(Conns)
      BY ZenonT(30) DEF PoolOK
    <3>1. CASE p[x] = POOL[x]
      BY <3>0, <3>1, <1>4, <1>5, Parts, ZenonT(30)
    <3>2. CASE p[x] = << >>
      <4>1. Len(q[x]) = 0
        BY <1>4, <1>5, <3>2, SMTT(30), Z3T(30) DEF Part
      <4>2. q[x] = << >>
        BY <1>5, <4>1, SMTT(30), Z3T(30)
      <4> QED BY <3>0, <4>2, Parts, ZenonT(30)
    <3> QED BY <1>2, <3>1, <3>2, ZenonT(30)
  <2> QED BY <1>5, <2>1, Shrunk, SMTT(30), Z3T(30)
<1>9. /\ POOL' \in [Keys -> Seq(Conns)] /\ POOL'[k] = Append(b, c) /\ q[k] = b
      /\ \A x \in Keys \ {k} : POOL'[x] = q[x]
  BY <1>4, <1>5, <1>6, <1>7, SMTT(30), Z3T(30)
<1>10. /\ Len(POOL'[k]) = Len(b) + 1 /\ POOL'[k][Len(b) + 1] = c
       /\ \A i \in 1..Len(b) : POOL'[k][i] = q[k][i]
  BY <1>4, <1>9, SMTT(30)
<1>11. \A x \in Keys : \A i \in 1..Len(POOL'[x]) :
           \/ i \in 1..Len(q[x]) /\ POOL'[x][i] = q[x][i]
           \/ x = k /\ i = Len(b) + 1 /\ POOL'[x][i] = c
  <2> SUFFICES ASSUME NEW x \in Keys, NEW i \in 1..Len(POOL'[x])
               PROVE  \/ i \in 1..Len(q[x]) /\ POOL'[x][i] = q[x][i]
                      \/ x = k /\ i = Len(b) + 1 /\ POOL'[x][i] = c
    BY ZenonT(30)
  <2>1. CASE x # k
    BY <1>9, <2>1, ZenonT(30)
  <2>2. CASE x = k
    <3>1. i \in 1..(Len(b) + 1)
      BY <1>10, <2>2, ZenonT(30)
    <3>2. i \in 1..Len(b) \/ i = Len(b) + 1
      BY <1>4, <3>1, SMTT(30), Z3T(30)
    <3> QED BY <1>9, <1>10, <2>2, <3>2, ZenonT(30)
  <2> QED BY <2>1, <2>2, ZenonT(30)
<1>12. \A x \in Keys : \A i \in 1..Len(q[x]) : q[x][i] # c
  BY <1>8, SMTT(30), Z3T(30) DEF IdleConns, Idle
<1>13. \A x \in Keys : Len(POOL'[x]) <= MAX_IDLE_PER_KEY
  BY <1>4, <1>8, <1>9, <1>10, ZenonT(30) DEF PoolOK
<1>14. \A x \in Keys : \A i \in 1..Len(POOL'[x]) : PoolKey(POOL'[x][i]) = x
  BY <1>7, <1>8, <1>11, ZenonT(30) DEF PoolOK
<1>15. \A x, y \in Keys : \A i \in 1..Len(POOL'[x]), j \in 1..Len(POOL'[y]) :
           POOL'[x][i] = POOL'[y][j] => x = y /\ i = j
  <2> SUFFICES ASSUME NEW x \in Keys, NEW y \in Keys, NEW i \in 1..Len(POOL'[x]), NEW j \in 1..Len(POOL'[y]),
                      POOL'[x][i] = POOL'[y][j]
               PROVE  x = y /\ i = j
    BY ZenonT(30)
  <2>1. /\ \/ i \in 1..Len(q[x]) /\ POOL'[x][i] = q[x][i]
           \/ x = k /\ i = Len(b) + 1 /\ POOL'[x][i] = c
        /\ \/ j \in 1..Len(q[y]) /\ POOL'[y][j] = q[y][j]
           \/ y = k /\ j = Len(b) + 1 /\ POOL'[y][j] = c
    BY <1>11, ZenonT(30)
  <2>2. i \in 1..Len(q[x]) /\ j \in 1..Len(q[y]) /\ q[x][i] = q[y][j] => x = y /\ i = j
    BY <1>8, SMTT(30), Z3T(30) DEF PoolOK
  <2> QED BY <1>12, <2>1, <2>2, ZenonT(30)
<1>16. IsFiniteSet(Used(POOL', << >>)) /\ Cardinality(Used(POOL', << >>)) <= MAX_POOL_KEYS
  <2>1. \A x \in Keys \ {k} : q[x] = p[x]
    BY <1>5, ZenonT(30)
  <2>2. Used(POOL', << >>) \subseteq Used(p, << >>) \cup {k}
    BY <1>9, <2>1, ZenonT(30) DEF Used
  <2> QED BY <1>2, <2>2, FewerKeys, ZenonT(30)
<1>17. PoolOK(POOL')
  BY <1>9, <1>13, <1>14, <1>15, <1>16, ZenonT(30) DEF PoolOK
<1>18. IdleConns' \subseteq IdleConns \cup {c}
  <2> SUFFICES ASSUME NEW x \in Keys, NEW i \in 1..Len(POOL'[x]), POOL'[x][i] \in Conns, POOL'[x][i] # c
               PROVE  POOL'[x][i] \in IdleConns
    BY SMTT(30), Z3T(30) DEF IdleConns, Idle
  <2>1. i \in 1..Len(q[x]) /\ POOL'[x][i] = q[x][i]
    BY <1>11, ZenonT(30)
  <2>2. PICK j \in 1..Len(POOL[x]) : q[x][i] = POOL[x][j]
    BY <1>8, <2>1, ZenonT(30)
  <2> QED BY <2>1, <2>2, ZenonT(30) DEF IdleConns, Idle
<1> QED BY <1>17, <1>18, ZenonT(30)

\* A client enters the HTTP/2 pool under its own key.
LEMMA PutHttp2Kept ==
    ASSUME Http2OK(HTTP2_POOL), NEW c \in Conns, PoolKey(c) \in Keys, put_http2(PoolKey(c), c)
    PROVE  /\ Http2OK(HTTP2_POOL')
           /\ \A x \in Keys : HTTP2_POOL'[x] \in {HTTP2_POOL[x], NoConn, c}
<1> DEFINE k == PoolKey(c)
<1>1. PICK p \in Room(HTTP2_POOL, NoConn, k) : HTTP2_POOL' = [p EXCEPT ![k] = c]
  BY ZenonT(30) DEF put_http2
<1>2. k \in Keys /\ PoolKey(c) = k /\ c \in ConnOrNone
  BY ZenonT(30) DEF ConnOrNone
<1> HIDE DEF k
<1>3. /\ p \in [Keys -> ConnOrNone] /\ \A x \in Keys : p[x] \in {HTTP2_POOL[x], NoConn}
      /\ IsFiniteSet(Used(p, NoConn) \cup {k})
      /\ Cardinality(Used(p, NoConn) \cup {k}) <= MAX_POOL_KEYS
  <2>1. /\ HTTP2_POOL \in [Keys -> ConnOrNone] /\ NoConn \in ConnOrNone
        /\ IsFiniteSet(Used(HTTP2_POOL, NoConn)) /\ Cardinality(Used(HTTP2_POOL, NoConn)) <= MAX_POOL_KEYS
    BY ZenonT(30) DEF Http2OK, ConnOrNone
  <2> QED BY <1>1, <1>2, <2>1, RoomMade, ZenonT(30)
<1>4. HTTP2_POOL' \in [Keys -> ConnOrNone] /\ \A x \in Keys : HTTP2_POOL'[x] = IF x = k THEN c ELSE p[x]
  BY <1>1, <1>2, <1>3, ZenonT(30)
<1>5. \A x \in Keys : HTTP2_POOL'[x] # NoConn => PoolKey(HTTP2_POOL'[x]) = x
  BY <1>2, <1>3, <1>4, ZenonT(30) DEF Http2OK
<1>6. IsFiniteSet(Used(HTTP2_POOL', NoConn)) /\ Cardinality(Used(HTTP2_POOL', NoConn)) <= MAX_POOL_KEYS
  <2>1. Used(HTTP2_POOL', NoConn) \subseteq Used(p, NoConn) \cup {k}
    BY <1>4, ZenonT(30) DEF Used
  <2> QED BY <1>3, <2>1, FewerKeys, ZenonT(30)
<1> QED BY <1>3, <1>4, <1>5, <1>6, ZenonT(30) DEF Http2OK

\* Clients may leave the HTTP/2 pool.
LEMMA Http2Shrinks ==
    ASSUME Http2OK(HTTP2_POOL), HTTP2_POOL' \in [Keys -> ConnOrNone],
           \A x \in Keys : HTTP2_POOL'[x] \in {HTTP2_POOL[x], NoConn}
    PROVE  Http2OK(HTTP2_POOL')
<1>1. Used(HTTP2_POOL', NoConn) \subseteq Used(HTTP2_POOL, NoConn)
  BY ZenonT(30) DEF Used
<1>2. IsFiniteSet(Used(HTTP2_POOL', NoConn)) /\ Cardinality(Used(HTTP2_POOL', NoConn)) <= MAX_POOL_KEYS
  BY <1>1, FewerKeys, ZenonT(30) DEF Http2OK
<1> QED BY <1>2, ZenonT(30) DEF Http2OK

-----------------------------------------------------------------------------
(* One step.                                                               *)

PCs == {"new", "dial"} \cup Awaiting \cup Streaming \cup Ended

\* The variables only the guards of the dial and of the body read.
FlagsOK ==
    /\ reopened \in [Fetches -> BOOLEAN] /\ retried \in [Fetches -> BOOLEAN]
    /\ keepalive \in [Fetches -> BOOLEAN] /\ coded \in [Fetches -> BOOLEAN]

\* The invariant, part by part.
LEMMA InvParts ==
    HttpInv =>
        /\ pc \in [Fetches -> PCs] /\ conn \in [Fetches -> ConnOrNone] /\ FlagsOK
        /\ unread \in [Conns -> Seq(Fetches)]
        /\ PoolOK(POOL) /\ Http2OK(HTTP2_POOL)
        /\ Holds /\ Unopened /\ Owned /\ Http2Apart /\ Answers
        /\ \A f \in Fetches : conn[f] # NoConn => PoolKey(conn[f]) = PoolKey(f)
<1>1. Used(POOL, << >>) = UsedKeys /\ Used(HTTP2_POOL, NoConn) = Http2Keys
  BY ZenonT(30) DEF Used, UsedKeys, Http2Keys
<1> QED BY <1>1, ZenonT(30) DEF HttpInv, TypeOK, Keyed, Finite, FlagsOK, PoolOK, Http2OK, PCs, PoolDistinct, UsedKeys, Http2Keys

\* A fetch's key is a key.
LEMMA KeyType ==
    ASSUME NEW f \in Fetches
    PROVE  PoolKey(f) \in Keys /\ f \in Conns /\ f \in ConnOrNone /\ NoConn \in ConnOrNone /\ NoConn \notin Conns
BY ConstantsAssumption, ZenonT(30) DEF PoolKey, Keys, Conns, ConnOrNone

\* What a step of f to state p with connection c must do to keep the invariant.
LEMMA StepKept ==
    ASSUME HttpInv, NEW f \in Fetches, NEW p \in PCs, NEW c \in ConnOrNone,
           Moves(f, p, c), IdleFrom(f, c), Http2From(f, p, c),
           c = NoConn \/ Keeps(f, p, c) \/ Opens(f, p, c) \/ Takes(f, p, c) \/ Shares(f, p, c),
           c # NoConn => PoolKey(c) = PoolKey(f),
           FlagsOK', PoolOK(POOL'), Http2OK(HTTP2_POOL'),
           unread' \in [Conns -> Seq(Fetches)],
           \A x \in Conns : x # conn[f] /\ x # c => unread'[x] = unread[x],
           p \in OnHttp1 => unread'[c] \in {<< >>, <<f>>},
           p \in Bodies => unread'[c] = <<f>>,
           p = "decoding" /\ c # NoConn => unread'[c] = << >>,
           conn[f] \in IdleConns' => unread'[conn[f]] = << >>
    PROVE  HttpInv'
<1>1. Holds' /\ Unopened' /\ Owned' /\ Http2Apart'
  BY OwnersKept, ZenonT(30) DEF HttpInv
<1>2. Answers'
  BY <1>1, AnswersKept, ZenonT(30) DEF HttpInv
<1>3. pc' \in [Fetches -> PCs] /\ conn' \in [Fetches -> ConnOrNone]
  BY ZenonT(30) DEF HttpInv, TypeOK, PCs, Moves
<1>4. \A g \in Fetches : conn'[g] # NoConn => PoolKey(conn'[g]) = PoolKey(g)
  BY ZenonT(30) DEF HttpInv, Keyed, Moves, TypeOK
<1>5. Used(POOL', << >>) = UsedKeys' /\ Used(HTTP2_POOL', NoConn) = Http2Keys'
  BY ZenonT(30) DEF Used, UsedKeys, Http2Keys
<1>6. TypeOK'
  BY <1>3, <1>5, ZenonT(30) DEF TypeOK, FlagsOK, PoolOK, Http2OK, PCs, UsedKeys, Http2Keys
<1>7. PoolDistinct' /\ Keyed' /\ Finite'
  BY <1>4, <1>5, ZenonT(30) DEF PoolOK, Http2OK, PoolDistinct, Keyed, Finite
<1> QED BY <1>1, <1>2, <1>6, <1>7, ZenonT(30) DEF HttpInv

\* Steps that leave the pools alone.
LEMMA PoolsAlone ==
    ASSUME HttpInv
    PROVE  /\ UNCHANGED POOL => PoolOK(POOL') /\ IdleConns' = IdleConns
           /\ UNCHANGED HTTP2_POOL => Http2OK(HTTP2_POOL')
BY InvParts, ZenonT(30) DEF IdleConns, Idle

\* What the invariant says of the connection of one fetch.
LEMMA OneFetch ==
    ASSUME HttpInv, NEW f \in Fetches
    PROVE  /\ conn[f] \in ConnOrNone /\ PoolKey(f) \in Keys /\ f \in Conns /\ f # NoConn
           /\ f \in ConnOrNone /\ NoConn \in ConnOrNone /\ NoConn \notin Conns
           /\ conn[f] \notin IdleConns
           /\ conn[f] # NoConn => PoolKey(conn[f]) = PoolKey(f) /\ conn[f] \in Conns
           /\ pc[f] \in OnHttp1 \cup OnHttp2 => conn[f] \in Conns
           /\ pc[f] \in {"new", "dial"} \cup Ended => conn[f] = NoConn
           /\ pc[f] \in PCs
<1>1. PoolKey(f) \in Keys /\ f \in Conns /\ f \in ConnOrNone /\ NoConn \in ConnOrNone /\ NoConn \notin Conns
  BY KeyType, ZenonT(30)
<1>2. conn[f] \notin IdleConns
  BY ZenonT(30) DEF HttpInv, Owned
<1> QED BY <1>1, <1>2, SMTT(30), Z3T(30) DEF HttpInv, Holds, Keyed, TypeOK, PCs, ConnOrNone

\* A fetch drops its connection, and what is left on it.
LEMMA DropStep ==
    ASSUME HttpInv, NEW f \in Fetches, NEW p \in {"dial"} \cup Ended, p = "dial" => pc[f] \in Before,
           pc' = [pc EXCEPT ![f] = p], DropConn(f), UNCHANGED poolVars, FlagsOK'
    PROVE  HttpInv'
<1>1. /\ PoolOK(POOL') /\ Http2OK(HTTP2_POOL') /\ IdleConns' = IdleConns /\ UNCHANGED HTTP2_POOL
  BY PoolsAlone, ZenonT(30) DEF poolVars
<1>2. Moves(f, p, NoConn) /\ IdleFrom(f, NoConn) /\ Http2From(f, p, NoConn)
  <2>1. conn' = [conn EXCEPT ![f] = NoConn]
    BY ZenonT(30) DEF DropConn
  <2>2. p \notin OnHttp1 \cup OnHttp2 /\ p \notin Cold /\ (p \in Before => p = "dial")
    BY ZenonT(30) DEF Ended, OnHttp1, OnHttp2, Cold, Before
  <2>3. Moves(f, p, NoConn)
    BY <2>1, <2>2, ZenonT(30) DEF Moves
  <2> QED BY <1>1, <2>3, ZenonT(30) DEF IdleFrom, Http2From
<1>3. /\ unread' \in [Conns -> Seq(Fetches)]
      /\ \A x \in Conns : x # conn[f] => unread'[x] = unread[x]
  BY SMTT(30), Z3T(30) DEF DropConn, HttpInv, TypeOK
<1>4. conn[f] \notin IdleConns' /\ NoConn \in ConnOrNone
  BY <1>1, OneFetch, ZenonT(30)
<1>5. p \notin OnHttp1 /\ p \notin Bodies /\ p # "decoding" /\ p \in PCs
  BY ZenonT(30) DEF OnHttp1, Bodies, Ended, PCs
<1> QED BY <1>1, <1>2, <1>3, <1>4, <1>5, StepKept, ZenonT(30)

\* A reused HTTP/1.1 connection fails: the fetch dials.
LEMMA H1ReuseFailsStep ==
    ASSUME HttpInv, NEW f \in Fetches, H1ReuseFails(f)
    PROVE  HttpInv'
<1>1. FlagsOK'
  BY ZenonT(30) DEF H1ReuseFails, HttpInv, TypeOK, FlagsOK, dialVars
<1> QED BY <1>1, DropStep, ZenonT(30) DEF H1ReuseFails, Before

\* The connection of its own fails a fetch.
LEMMA ColdFailsStep ==
    ASSUME HttpInv, NEW f \in Fetches, ColdFails(f)
    PROVE  HttpInv'
<1>1. FlagsOK'
  BY ZenonT(30) DEF ColdFails, HttpInv, TypeOK, FlagsOK, dialVars
<1> QED BY <1>1, DropStep, ZenonT(30) DEF ColdFails, Ended

\* A body fails or is cancelled.
LEMMA AbandonStep ==
    ASSUME HttpInv, NEW f \in Fetches, NEW end \in Ended, Abandon(f, end)
    PROVE  HttpInv'
<1>1. FlagsOK'
  BY ZenonT(30) DEF Abandon, HttpInv, TypeOK, FlagsOK, dialVars
<1>2. end # "dial"
  BY ZenonT(30) DEF Ended
<1> QED BY <1>1, <1>2, DropStep, ZenonT(30) DEF Abandon

\* A fetch keeps its connection, or lets it go with nothing left on it, and
\* the connections do nothing.
LEMMA QuietStep ==
    ASSUME HttpInv, NEW f \in Fetches, NEW p \in PCs, NEW c \in {NoConn, conn[f]},
           pc' = [pc EXCEPT ![f] = p], conn' = [conn EXCEPT ![f] = c],
           p \in {"new", "dial"} \cup Ended => c = NoConn,
           p \in OnHttp1 \cup OnHttp2 => c # NoConn /\ c = conn[f],
           p \in Cold => c = f, p \in Before => pc[f] \in Before,
           c # NoConn => (p \in OnHttp2 <=> pc[f] \in OnHttp2),
           p \in OnHttp1 => unread[c] \in {<< >>, <<f>>},
           p \in Bodies => unread[c] = <<f>>,
           p = "decoding" => c = NoConn,
           UNCHANGED unread, FlagsOK', PoolOK(POOL'), Http2OK(HTTP2_POOL'),
           IdleConns' \subseteq IdleConns,
           \A k \in Keys : HTTP2_POOL'[k] \in {HTTP2_POOL[k], NoConn}
    PROVE  HttpInv'
<1>1. /\ conn[f] \in ConnOrNone /\ conn[f] \notin IdleConns' /\ NoConn \in ConnOrNone
      /\ c \in ConnOrNone /\ (c # NoConn => c \in Conns /\ c = conn[f] /\ PoolKey(c) = PoolKey(f))
  BY OneFetch, ZenonT(30)
<1>2. Moves(f, p, c) /\ IdleFrom(f, c) /\ Http2From(f, p, c)
  <2>1. Moves(f, p, c)
    BY <1>1, ZenonT(30) DEF Moves
  <2>2. IdleFrom(f, c)
    BY ZenonT(30) DEF IdleFrom
  <2>3. Http2From(f, p, c)
    BY ZenonT(30) DEF Http2From
  <2> QED BY <2>1, <2>2, <2>3, ZenonT(30)
<1>3. c = NoConn \/ Keeps(f, p, c)
  BY ZenonT(30) DEF Keeps
<1>4. unread' \in [Conns -> Seq(Fetches)] /\ unread' = unread
  BY ZenonT(30) DEF HttpInv, TypeOK
<1> QED BY <1>1, <1>2, <1>3, <1>4, StepKept, ZenonT(30)

\* The dial reopens the session and empties the pools.
LEMMA DialReopensStep ==
    ASSUME HttpInv, NEW f \in Fetches, DialReopens(f)
    PROVE  HttpInv'
<1>1. /\ pc[f] = "dial" /\ conn[f] = NoConn /\ pc[f] \in PCs /\ pc[f] \in Before
      /\ pc' = [pc EXCEPT ![f] = pc[f]] /\ conn' = [conn EXCEPT ![f] = NoConn]
  BY OneFetch, ZenonT(30) DEF DialReopens, HttpInv, TypeOK, PCs, Before
<1>2. FlagsOK' /\ UNCHANGED unread
  BY ZenonT(30) DEF DialReopens, HttpInv, TypeOK, FlagsOK, bodyVars
<1>3. PoolOK(POOL') /\ IdleConns' \subseteq IdleConns
  <2>1. POOL' = [k \in Keys |-> << >>] /\ POOL \in [Keys -> Seq(Conns)] /\ PoolOK(POOL)
    BY InvParts, ZenonT(30) DEF DialReopens, PoolOK
  <2>2. POOL' \in [Keys -> Seq(Conns)]
    BY <2>1, SMTT(30), Z3T(30)
  <2>3. \A k \in Keys : POOL'[k] = << >> /\ POOL[k] \in Seq(Conns)
    BY <2>1, ZenonT(30)
  <2>4. \A k \in Keys : Part(POOL[k], POOL'[k])
    BY <2>3, Parts, ZenonT(30)
  <2> QED BY <2>1, <2>2, <2>4, PoolShrinks, ZenonT(30)
<1>4. Http2OK(HTTP2_POOL') /\ \A k \in Keys : HTTP2_POOL'[k] \in {HTTP2_POOL[k], NoConn}
  <2>1. HTTP2_POOL' = [k \in Keys |-> NoConn] /\ Http2OK(HTTP2_POOL) /\ NoConn \in ConnOrNone
    BY InvParts, OneFetch, ZenonT(30) DEF DialReopens
  <2>2. HTTP2_POOL' \in [Keys -> ConnOrNone] /\ \A k \in Keys : HTTP2_POOL'[k] \in {HTTP2_POOL[k], NoConn}
    BY <2>1, ZenonT(30)
  <2> QED BY <2>1, <2>2, Http2Shrinks, ZenonT(30)
<1>5. "dial" \notin OnHttp1 \cup OnHttp2 /\ "dial" \notin Cold /\ "dial" \notin Bodies /\ "dial" # "decoding"
  BY ZenonT(30) DEF OnHttp1, OnHttp2, Cold, Bodies
<1> QED BY <1>1, <1>2, <1>3, <1>4, <1>5, QuietStep, ZenonT(30)

\* The TLS handshake is repeated.
LEMMA TlsRetriesStep ==
    ASSUME HttpInv, NEW f \in Fetches, TlsRetries(f)
    PROVE  HttpInv'
<1>1. /\ pc[f] = "dial" /\ conn[f] = NoConn /\ pc[f] \in PCs /\ pc[f] \in Before
      /\ pc' = [pc EXCEPT ![f] = pc[f]] /\ conn' = [conn EXCEPT ![f] = NoConn]
  BY OneFetch, ZenonT(30) DEF TlsRetries, HttpInv, TypeOK, PCs, Before
<1>2. FlagsOK' /\ UNCHANGED unread /\ UNCHANGED POOL /\ UNCHANGED HTTP2_POOL
  BY ZenonT(30) DEF TlsRetries, HttpInv, TypeOK, FlagsOK, bodyVars, poolVars
<1>3. PoolOK(POOL') /\ IdleConns' = IdleConns /\ Http2OK(HTTP2_POOL')
  BY <1>2, PoolsAlone, ZenonT(30)
<1>4. "dial" \notin OnHttp1 \cup OnHttp2 /\ "dial" \notin Cold /\ "dial" \notin Bodies /\ "dial" # "decoding"
  BY ZenonT(30) DEF OnHttp1, OnHttp2, Cold, Bodies
<1> QED BY <1>1, <1>2, <1>3, <1>4, QuietStep, ZenonT(30)

\* The dial rejects the fetch.
LEMMA DialFailsStep ==
    ASSUME HttpInv, NEW f \in Fetches, DialFails(f)
    PROVE  HttpInv'
<1>1. /\ pc[f] = "dial" /\ conn[f] = NoConn
      /\ pc' = [pc EXCEPT ![f] = "failed"] /\ conn' = [conn EXCEPT ![f] = NoConn]
  BY OneFetch, ZenonT(30) DEF DialFails, HttpInv, TypeOK
<1>2. FlagsOK' /\ UNCHANGED unread /\ UNCHANGED POOL /\ UNCHANGED HTTP2_POOL
  BY ZenonT(30) DEF DialFails, DialDone, HttpInv, TypeOK, FlagsOK, bodyVars, poolVars
<1>3. PoolOK(POOL') /\ IdleConns' = IdleConns /\ Http2OK(HTTP2_POOL')
  BY <1>2, PoolsAlone, ZenonT(30)
<1>4. /\ "failed" \notin OnHttp1 \cup OnHttp2 /\ "failed" \notin Cold /\ "failed" \notin Bodies
      /\ "failed" # "decoding" /\ "failed" \notin Before /\ "failed" \in PCs
  BY ZenonT(30) DEF OnHttp1, OnHttp2, Cold, Bodies, Before, PCs, Ended
<1> QED BY <1>1, <1>2, <1>3, <1>4, QuietStep, ZenonT(30)

\* An HTTP/2 response arrives.
LEMMA Http2AnswersStep ==
    ASSUME HttpInv, NEW f \in Fetches, Http2Answers(f)
    PROVE  HttpInv'
<1>1. pc[f] \in OnHttp2 /\ conn[f] \in Conns /\ conn[f] # NoConn
  BY OneFetch, SMTT(30), Z3T(30) DEF Http2Answers, OnHttp2
<1>2. FlagsOK' /\ UNCHANGED unread /\ UNCHANGED POOL /\ UNCHANGED HTTP2_POOL
  BY ZenonT(30) DEF Http2Answers, HttpInv, TypeOK, FlagsOK, dialVars, poolVars
<1>3. PoolOK(POOL') /\ IdleConns' = IdleConns /\ Http2OK(HTTP2_POOL')
  BY <1>2, PoolsAlone, ZenonT(30)
<1>4. CASE pc' = [pc EXCEPT ![f] = "ok"] /\ conn' = [conn EXCEPT ![f] = NoConn]
  <2>1. /\ "ok" \notin OnHttp1 \cup OnHttp2 /\ "ok" \notin Cold /\ "ok" \notin Bodies
        /\ "ok" # "decoding" /\ "ok" \notin Before /\ "ok" \in PCs
    BY ZenonT(30) DEF OnHttp1, OnHttp2, Cold, Bodies, Before, PCs, Ended
  <2> QED BY <1>1, <1>2, <1>3, <1>4, <2>1, QuietStep, ZenonT(30)
<1>5. CASE pc' = [pc EXCEPT ![f] = "h2body"] /\ UNCHANGED conn
  <2>1. conn' = [conn EXCEPT ![f] = conn[f]]
    BY <1>5, ZenonT(30) DEF HttpInv, TypeOK
  <2>2. /\ "h2body" \notin OnHttp1 /\ "h2body" \in OnHttp2 /\ "h2body" \notin Cold /\ "h2body" \notin Bodies
        /\ "h2body" # "decoding" /\ "h2body" \notin Before /\ "h2body" \in PCs
        /\ "h2body" \notin {"new", "dial"} \cup Ended
    BY ZenonT(30) DEF OnHttp1, OnHttp2, Cold, Bodies, Before, PCs, Ended, Streaming
  <2> QED BY <1>1, <1>2, <1>3, <1>5, <2>1, <2>2, QuietStep, ZenonT(30)
<1> QED BY <1>4, <1>5, ZenonT(30) DEF Http2Answers

\* An HTTP/2 body ends, and lets its client go.
LEMMA Http2BodyEndsStep ==
    ASSUME HttpInv, NEW f \in Fetches, Http2BodyEnds(f)
    PROVE  HttpInv'
<1>1. PICK p \in {"ok", "decoding"} : pc' = [pc EXCEPT ![f] = p]
  BY ZenonT(30) DEF Http2BodyEnds
<1>2. FlagsOK' /\ UNCHANGED unread /\ UNCHANGED POOL /\ UNCHANGED HTTP2_POOL
  BY ZenonT(30) DEF Http2BodyEnds, HttpInv, TypeOK, FlagsOK, dialVars, bodyVars, poolVars
<1>3. PoolOK(POOL') /\ IdleConns' = IdleConns /\ Http2OK(HTTP2_POOL')
  BY <1>2, PoolsAlone, ZenonT(30)
<1>4. /\ p \notin OnHttp1 \cup OnHttp2 /\ p \notin Cold /\ p \notin Bodies /\ p \notin Before /\ p \in PCs
  BY ZenonT(30) DEF OnHttp1, OnHttp2, Cold, Bodies, Before, PCs, Ended, Streaming
<1>5. conn' = [conn EXCEPT ![f] = NoConn]
  BY ZenonT(30) DEF Http2BodyEnds
<1> QED BY <1>1, <1>2, <1>3, <1>4, <1>5, QuietStep, ZenonT(30)

\* The head of an HTTP/1.1 response arrives.
LEMMA Http1HeadStep ==
    ASSUME HttpInv, NEW f \in Fetches, Http1Head(f)
    PROVE  HttpInv'
<1>1. /\ pc[f] \in OnHttp1 /\ pc[f] \notin OnHttp2 /\ conn[f] \in Conns /\ conn[f] # NoConn
      /\ unread[conn[f]] = <<f>>
  <2>1. pc[f] \in OnHttp1 /\ pc[f] \notin OnHttp2 /\ unread[conn[f]] # << >>
    BY ZenonT(30) DEF Http1Head, OnHttp1, OnHttp2
  <2> QED BY <2>1, OneFetch, ZenonT(30) DEF HttpInv, Answers
<1>2. FlagsOK' /\ UNCHANGED unread /\ UNCHANGED POOL /\ UNCHANGED HTTP2_POOL
  BY ZenonT(30) DEF Http1Head, HttpInv, TypeOK, FlagsOK, dialVars, poolVars
<1>3. PoolOK(POOL') /\ IdleConns' = IdleConns /\ Http2OK(HTTP2_POOL')
  BY <1>2, PoolsAlone, ZenonT(30)
<1>4. PICK p \in Bodies : /\ pc' = [pc EXCEPT ![f] = p]
                          /\ p = "h1reuseBody" => pc[f] = "h1reuse"
                          /\ p = "h1coldBody" => pc[f] = "h1cold"
  BY ZenonT(30) DEF Http1Head, Bodies, HttpInv, TypeOK
<1>5. conn' = [conn EXCEPT ![f] = conn[f]]
  BY ZenonT(30) DEF Http1Head, HttpInv, TypeOK
<1>6. /\ p \in OnHttp1 /\ p \notin OnHttp2 /\ p # "decoding" /\ p \in PCs
      /\ p \notin {"new", "dial"} \cup Ended
      /\ p \in Before => pc[f] \in Before
      /\ p \in Cold => pc[f] \in Cold
  BY <1>4, ZenonT(30) DEF OnHttp1, OnHttp2, Cold, Bodies, Before, PCs, Ended, Streaming, Awaiting
<1>7. p \in Cold => conn[f] = f
  BY <1>6, ZenonT(30) DEF HttpInv, Holds
<1> QED BY <1>1, <1>2, <1>3, <1>4, <1>5, <1>6, <1>7, QuietStep, ZenonT(30)

\* A connection is opened: for HTTP/2 it is cached at once.
LEMMA OpenHttp2Step ==
    ASSUME HttpInv, NEW f \in Fetches, OpenHttp2(f)
    PROVE  HttpInv'
<1>1. /\ pc[f] = "dial" /\ conn[f] = NoConn /\ f \in Conns /\ f # NoConn /\ f \in ConnOrNone
      /\ PoolKey(f) \in Keys /\ NoConn \notin Conns
  BY OneFetch, ZenonT(30) DEF OpenHttp2
<1>2. FlagsOK' /\ UNCHANGED unread /\ UNCHANGED POOL
  BY ZenonT(30) DEF OpenHttp2, DialDone, HttpInv, TypeOK, FlagsOK, bodyVars
<1>3. PoolOK(POOL') /\ IdleConns' = IdleConns
  BY <1>2, PoolsAlone, ZenonT(30)
<1>4. /\ Http2OK(HTTP2_POOL')
      /\ \A x \in Keys : HTTP2_POOL'[x] \in {HTTP2_POOL[x], NoConn, f}
  BY <1>1, InvParts, PutHttp2Kept, ZenonT(30) DEF OpenHttp2
<1>5. /\ "h2cold" \notin OnHttp1 /\ "h2cold" \in OnHttp2 /\ "h2cold" \notin Bodies
      /\ "h2cold" # "decoding" /\ "h2cold" \notin Before /\ "h2cold" \in PCs
      /\ "h2cold" \notin {"new", "dial"} \cup Ended
  BY ZenonT(30) DEF OnHttp1, OnHttp2, Bodies, Before, PCs, Ended, Awaiting
<1>6. Moves(f, "h2cold", f) /\ Opens(f, "h2cold", f)
  BY <1>1, <1>5, ZenonT(30) DEF OpenHttp2, Moves, Opens
<1>7. IdleFrom(f, f)
  BY <1>3, ZenonT(30) DEF IdleFrom
<1>8. Http2From(f, "h2cold", f)
  BY <1>1, <1>4, <1>5, ZenonT(30) DEF Http2From
<1>9. unread' \in [Conns -> Seq(Fetches)] /\ unread' = unread /\ conn[f] \notin IdleConns'
  BY <1>1, <1>2, ZenonT(30) DEF HttpInv, TypeOK, IdleConns
<1> QED BY <1>1, <1>2, <1>3, <1>4, <1>5, <1>6, <1>7, <1>8, <1>9, StepKept, ZenonT(30)

\* For HTTP/1.1 the new connection has its first request.
LEMMA OpenHttp1Step ==
    ASSUME HttpInv, NEW f \in Fetches, OpenHttp1(f)
    PROVE  HttpInv'
<1>1. /\ pc[f] = "dial" /\ conn[f] = NoConn /\ f \in Conns /\ f # NoConn /\ f \in ConnOrNone
      /\ NoConn \notin Conns
  BY OneFetch, ZenonT(30) DEF OpenHttp1
<1>2. FlagsOK' /\ UNCHANGED POOL /\ UNCHANGED HTTP2_POOL
  BY ZenonT(30) DEF OpenHttp1, DialDone, HttpInv, TypeOK, FlagsOK, bodyVars, poolVars
<1>3. PoolOK(POOL') /\ Http2OK(HTTP2_POOL') /\ IdleConns' = IdleConns
  BY <1>2, PoolsAlone, ZenonT(30)
<1>4. /\ "h1cold" \in OnHttp1 /\ "h1cold" \notin OnHttp2 /\ "h1cold" \notin Bodies
      /\ "h1cold" # "decoding" /\ "h1cold" \notin Before /\ "h1cold" \in PCs
      /\ "h1cold" \notin {"new", "dial"} \cup Ended
  BY ZenonT(30) DEF OnHttp1, OnHttp2, Bodies, Before, PCs, Ended, Awaiting
<1>5. Moves(f, "h1cold", f) /\ Opens(f, "h1cold", f)
  BY <1>1, <1>4, ZenonT(30) DEF OpenHttp1, Moves, Opens
<1>6. IdleFrom(f, f)
  BY <1>3, ZenonT(30) DEF IdleFrom
<1>7. Http2From(f, "h1cold", f)
  BY <1>2, ZenonT(30) DEF Http2From
<1>8. /\ unread' \in [Conns -> Seq(Fetches)] /\ unread'[f] = <<f>>
      /\ \A x \in Conns : x # f => unread'[x] = unread[x]
  BY <1>1, SMTT(30), Z3T(30) DEF HttpInv, TypeOK, OpenHttp1
<1>9. conn[f] \notin IdleConns'
  BY <1>1, ZenonT(30) DEF IdleConns
<1> QED BY <1>1, <1>2, <1>3, <1>4, <1>5, <1>6, <1>7, <1>8, <1>9, StepKept, ZenonT(30)

\* A fetch goes to an idle connection or to the dial.
LEMMA WarmStep ==
    ASSUME HttpInv, NEW f \in Fetches, pc[f] \in {"new", "h2reuse"}, WarmOrDial(f), FlagsOK',
           Http2OK(HTTP2_POOL'), \A k \in Keys : HTTP2_POOL'[k] \in {HTTP2_POOL[k], NoConn}
    PROVE  HttpInv'
<1>1. /\ PoolKey(f) \in Keys /\ NoConn \notin Conns /\ pc[f] \in Before /\ conn[f] \notin IdleConns
      /\ PoolOK(POOL)
  BY OneFetch, InvParts, ZenonT(30) DEF Before
<1>2. CASE POOL[PoolKey(f)] = << >>
  <2>1. /\ pc' = [pc EXCEPT ![f] = "dial"] /\ conn' = [conn EXCEPT ![f] = NoConn]
        /\ UNCHANGED POOL /\ UNCHANGED unread
    BY <1>2, ZenonT(30) DEF WarmOrDial, take
  <2>2. PoolOK(POOL') /\ IdleConns' = IdleConns
    BY <2>1, PoolsAlone, ZenonT(30)
  <2>3. /\ "dial" \notin OnHttp1 \cup OnHttp2 /\ "dial" \notin Cold /\ "dial" \notin Bodies
        /\ "dial" # "decoding" /\ "dial" \in PCs
    BY ZenonT(30) DEF OnHttp1, OnHttp2, Cold, Bodies, PCs
  <2> QED BY <1>1, <2>1, <2>2, <2>3, QuietStep, ZenonT(30)
<1>3. CASE POOL[PoolKey(f)] # << >>
  <2> DEFINE c == Last(POOL[PoolKey(f)])
  <2>1. /\ pc' = [pc EXCEPT ![f] = "h1reuse"] /\ conn' = [conn EXCEPT ![f] = c]
        /\ POOL' = [POOL EXCEPT ![PoolKey(f)] = Front(@)]
        /\ unread' = [unread EXCEPT ![c] = Append(@, f)] \/ unread' = unread
    BY <1>3, ZenonT(30) DEF WarmOrDial, take
  <2>2. /\ PoolOK(POOL') /\ IdleConns' \subseteq IdleConns
        /\ c \in IdleConns /\ c \notin IdleConns' /\ PoolKey(c) = PoolKey(f)
    BY <1>1, <1>3, <2>1, TakeKept, ZenonT(30)
  <2> HIDE DEF c
  <2>3. c \in Conns /\ c \in ConnOrNone /\ unread[c] = << >> /\ conn[f] \notin IdleConns'
    BY <1>1, <2>2, ZenonT(30) DEF IdleConns, ConnOrNone, HttpInv, Answers
  <2>4. /\ unread' \in [Conns -> Seq(Fetches)] /\ unread'[c] \in {<< >>, <<f>>}
        /\ \A x \in Conns : x # c => unread'[x] = unread[x]
    <3>1. unread \in [Conns -> Seq(Fetches)] /\ <<f>> \in Seq(Fetches) /\ Append(unread[c], f) = <<f>>
      BY <2>3, SMTT(30), Z3T(30) DEF HttpInv, TypeOK
    <3>2. unread' = [unread EXCEPT ![c] = <<f>>] \/ unread' = unread
      BY <2>1, <3>1, ZenonT(30)
    <3> QED BY <2>3, <3>1, <3>2, ZenonT(30)
  <2>5. /\ "h1reuse" \in OnHttp1 /\ "h1reuse" \notin OnHttp2 /\ "h1reuse" \notin Bodies
        /\ "h1reuse" # "decoding" /\ "h1reuse" \notin Cold /\ "h1reuse" \in PCs
        /\ "h1reuse" \notin {"new", "dial"} \cup Ended
    BY ZenonT(30) DEF OnHttp1, OnHttp2, Bodies, Cold, PCs, Ended, Awaiting
  <2>6. Moves(f, "h1reuse", c) /\ Takes(f, "h1reuse", c)
    BY <1>1, <2>1, <2>2, <2>3, <2>5, ZenonT(30) DEF Moves, Takes
  <2>7. IdleFrom(f, c)
    BY <2>2, ZenonT(30) DEF IdleFrom
  <2>8. Http2From(f, "h1reuse", c)
    BY ZenonT(30) DEF Http2From
  <2> QED BY <2>2, <2>3, <2>4, <2>5, <2>6, <2>7, <2>8, StepKept, ZenonT(30)
<1> QED BY <1>2, <1>3, ZenonT(30)

\* A fetch shares the HTTP/2 client of its key, or goes on.
LEMMA StartStep ==
    ASSUME HttpInv, NEW f \in Fetches, Start(f)
    PROVE  HttpInv'
<1>1. /\ pc[f] = "new" /\ PoolKey(f) \in Keys /\ NoConn \notin Conns /\ conn[f] = NoConn
      /\ pc[f] \in Before
  BY OneFetch, ZenonT(30) DEF Start, Before
<1>2. FlagsOK' /\ UNCHANGED HTTP2_POOL
  BY ZenonT(30) DEF Start, HttpInv, TypeOK, FlagsOK, dialVars, bodyVars
<1>3. Http2OK(HTTP2_POOL')
  BY <1>2, PoolsAlone, ZenonT(30)
<1>4. CASE HTTP2_POOL[PoolKey(f)] = NoConn
  BY <1>1, <1>2, <1>3, <1>4, WarmStep, ZenonT(30) DEF Start
<1>5. CASE HTTP2_POOL[PoolKey(f)] # NoConn
  <2> DEFINE c == HTTP2_POOL[PoolKey(f)]
  <2>1. /\ pc' = [pc EXCEPT ![f] = "h2reuse"] /\ conn' = [conn EXCEPT ![f] = c]
        /\ UNCHANGED POOL /\ UNCHANGED unread
    BY <1>5, ZenonT(30) DEF Start
  <2>2. PoolOK(POOL') /\ IdleConns' = IdleConns
    BY <2>1, PoolsAlone, ZenonT(30)
  <2>3. /\ c \in ConnOrNone /\ c \in Conns /\ PoolKey(c) = PoolKey(f)
        /\ \E k \in Keys : c = HTTP2_POOL[k]
    BY <1>1, <1>5, InvParts, ZenonT(30) DEF Http2OK, ConnOrNone
  <2> HIDE DEF c
  <2>4. /\ "h2reuse" \notin OnHttp1 /\ "h2reuse" \in OnHttp2 /\ "h2reuse" \notin Bodies
        /\ "h2reuse" # "decoding" /\ "h2reuse" \notin Cold /\ "h2reuse" \in PCs
        /\ "h2reuse" \notin {"new", "dial"} \cup Ended
    BY ZenonT(30) DEF OnHttp1, OnHttp2, Bodies, Cold, PCs, Ended, Awaiting
  <2>5. Moves(f, "h2reuse", c) /\ Shares(f, "h2reuse", c)
    BY <1>1, <2>1, <2>3, <2>4, ZenonT(30) DEF Moves, Shares
  <2>6. IdleFrom(f, c)
    BY <2>2, ZenonT(30) DEF IdleFrom
  <2>7. Http2From(f, "h2reuse", c)
    BY <1>2, ZenonT(30) DEF Http2From
  <2>8. unread' \in [Conns -> Seq(Fetches)] /\ unread' = unread /\ conn[f] \notin IdleConns'
    BY <1>1, <2>1, ZenonT(30) DEF HttpInv, TypeOK, IdleConns
  <2> QED BY <1>2, <1>3, <2>2, <2>3, <2>4, <2>5, <2>6, <2>7, <2>8, StepKept, ZenonT(30)
<1> QED BY <1>4, <1>5, ZenonT(30)

\* The shared client fails: it is evicted, and the fetch goes on.
LEMMA H2ReuseFailsStep ==
    ASSUME HttpInv, NEW f \in Fetches, H2ReuseFails(f)
    PROVE  HttpInv'
<1>1. FlagsOK' /\ HTTP2_POOL' = [HTTP2_POOL EXCEPT ![PoolKey(f)] = NoConn]
  BY ZenonT(30) DEF H2ReuseFails, remove_http2, HttpInv, TypeOK, FlagsOK, dialVars, bodyVars
<1>2. Http2OK(HTTP2_POOL) /\ HTTP2_POOL \in [Keys -> ConnOrNone] /\ NoConn \in ConnOrNone
  BY InvParts, OneFetch, ZenonT(30) DEF Http2OK
<1>3. HTTP2_POOL' \in [Keys -> ConnOrNone] /\ \A k \in Keys : HTTP2_POOL'[k] \in {HTTP2_POOL[k], NoConn}
  BY <1>1, <1>2, ZenonT(30)
<1>4. Http2OK(HTTP2_POOL')
  BY <1>2, <1>3, Http2Shrinks, ZenonT(30)
<1> QED BY <1>1, <1>3, <1>4, WarmStep, ZenonT(30) DEF H2ReuseFails

\* A body is complete, and its connection goes back to the pool if it may.
LEMMA CompleteStep ==
    ASSUME HttpInv, NEW f \in Fetches, pc[f] \in OnHttp1 \cup {"decoding"}, NEW d \in BOOLEAN, Complete(f, d),
           d => conn[f] # NoConn, UNCHANGED <<dialVars, HTTP2_POOL>>,
           unread' \in [Conns -> Seq(Fetches)],
           \A x \in Conns : x # conn[f] => unread'[x] = unread[x],
           conn[f] \in Conns => unread'[conn[f]] = << >>
    PROVE  HttpInv'
<1>1. /\ PoolKey(f) \in Keys /\ NoConn \notin Conns /\ NoConn \in ConnOrNone /\ conn[f] \notin IdleConns
      /\ conn[f] # NoConn => PoolKey(conn[f]) = PoolKey(f) /\ conn[f] \in Conns
      /\ PoolOK(POOL)
  BY OneFetch, InvParts, ZenonT(30)
<1>2. FlagsOK' /\ UNCHANGED HTTP2_POOL
  BY ZenonT(30) DEF Complete, HttpInv, TypeOK, FlagsOK, dialVars
<1>3. Http2OK(HTTP2_POOL')
  BY <1>2, PoolsAlone, ZenonT(30)
<1>4. PoolOK(POOL') /\ IdleConns' \subseteq IdleConns \cup {conn[f]}
  <2>1. CASE d
    <3>1. conn[f] \in Conns /\ PoolKey(conn[f]) \in Keys /\ put(PoolKey(conn[f]), conn[f])
      BY <1>1, <2>1, ZenonT(30) DEF Complete
    <3> QED BY <1>1, <3>1, PutKept, ZenonT(30)
  <2>2. CASE ~d
    BY <2>2, PoolsAlone, ZenonT(30) DEF Complete
  <2> QED BY <2>1, <2>2, ZenonT(30)
<1>5. /\ "ok" \notin OnHttp1 \cup OnHttp2 /\ "ok" \notin Cold /\ "ok" \notin Bodies
      /\ "ok" # "decoding" /\ "ok" \notin Before /\ "ok" \in PCs
  BY ZenonT(30) DEF OnHttp1, OnHttp2, Cold, Bodies, Before, PCs, Ended
<1>6. Moves(f, "ok", NoConn)
  BY <1>5, ZenonT(30) DEF Complete, Moves
<1>7. IdleFrom(f, NoConn)
  BY <1>4, ZenonT(30) DEF IdleFrom
<1>8. Http2From(f, "ok", NoConn)
  BY <1>2, ZenonT(30) DEF Http2From
<1>9. conn[f] \in IdleConns' => unread'[conn[f]] = << >>
  BY ZenonT(30) DEF IdleConns
<1> QED BY <1>1, <1>2, <1>3, <1>4, <1>5, <1>6, <1>7, <1>8, <1>9, StepKept, ZenonT(30)

\* The decoder completes a body.
LEMMA DecoderEndsStep ==
    ASSUME HttpInv, NEW f \in Fetches, DecoderEnds(f)
    PROVE  HttpInv'
<1>1. /\ pc[f] \in OnHttp1 \cup {"decoding"} /\ Complete(f, conn[f] # NoConn) /\ unread' = unread
      /\ UNCHANGED <<dialVars, HTTP2_POOL>>
  BY ZenonT(30) DEF DecoderEnds
<1>2. unread' \in [Conns -> Seq(Fetches)]
  BY <1>1, ZenonT(30) DEF HttpInv, TypeOK
<1>3. conn[f] \in Conns => unread'[conn[f]] = << >>
  BY <1>1, OneFetch, ZenonT(30) DEF DecoderEnds, HttpInv, Answers
<1> QED BY <1>1, <1>2, <1>3, CompleteStep, ZenonT(30)

\* The last byte of an HTTP/1.1 body is read.
LEMMA Http1BodyEndsStep ==
    ASSUME HttpInv, NEW f \in Fetches, Http1BodyEnds(f)
    PROVE  HttpInv'
<1>1. /\ pc[f] \in Bodies /\ pc[f] \in OnHttp1 /\ pc[f] \notin OnHttp2 /\ conn[f] \in Conns /\ conn[f] # NoConn
      /\ conn[f] \notin IdleConns /\ PoolKey(conn[f]) = PoolKey(f) /\ conn[f] \in ConnOrNone
      /\ NoConn \in ConnOrNone
  <2>1. pc[f] \in Bodies /\ pc[f] \in OnHttp1 /\ pc[f] \notin OnHttp2
    BY ZenonT(30) DEF Http1BodyEnds, Bodies, OnHttp1, OnHttp2
  <2> QED BY <2>1, OneFetch, ZenonT(30)
<1>2. /\ unread' \in [Conns -> Seq(Fetches)] /\ unread'[conn[f]] = << >>
      /\ \A x \in Conns : x # conn[f] => unread'[x] = unread[x]
  <2>1. unread \in [Conns -> Seq(Fetches)] /\ unread[conn[f]] = <<f>>
    BY <1>1, ZenonT(30) DEF HttpInv, TypeOK, Answers
  <2>2. Tail(<<f>>) = << >> /\ << >> \in Seq(Fetches)
    BY SMTT(30), Z3T(30)
  <2>3. unread' = [unread EXCEPT ![conn[f]] = << >>]
    BY <2>1, <2>2, ZenonT(30) DEF Http1BodyEnds
  <2> QED BY <1>1, <2>1, <2>2, <2>3, ZenonT(30)
<1>3. CASE coded[f]
  <2>1. PICK c \in {NoConn, conn[f]} : conn' = [conn EXCEPT ![f] = c]
    BY <1>3, ZenonT(30) DEF Http1BodyEnds
  <2>2. pc' = [pc EXCEPT ![f] = "decoding"] /\ UNCHANGED POOL /\ UNCHANGED HTTP2_POOL
    BY <1>3, ZenonT(30) DEF Http1BodyEnds
  <2>3. FlagsOK'
    BY <1>3, ZenonT(30) DEF Http1BodyEnds, HttpInv, TypeOK, FlagsOK, dialVars, bodyVars
  <2>4. PoolOK(POOL') /\ IdleConns' = IdleConns /\ Http2OK(HTTP2_POOL')
    BY <2>2, PoolsAlone, ZenonT(30)
  <2>5. /\ "decoding" \notin OnHttp1 \cup OnHttp2 /\ "decoding" \notin Cold /\ "decoding" \notin Bodies
        /\ "decoding" \notin Before /\ "decoding" \in PCs /\ "decoding" \notin {"new", "dial"} \cup Ended
    BY ZenonT(30) DEF OnHttp1, OnHttp2, Cold, Bodies, Before, PCs, Ended, Streaming
  <2>6. Moves(f, "decoding", c) /\ (c = NoConn \/ Keeps(f, "decoding", c)) /\ c \in ConnOrNone
    BY <1>1, <2>1, <2>2, <2>5, ZenonT(30) DEF Moves, Keeps
  <2>7. IdleFrom(f, c)
    BY <2>4, ZenonT(30) DEF IdleFrom
  <2>8. Http2From(f, "decoding", c)
    BY <2>2, ZenonT(30) DEF Http2From
  <2> QED BY <1>1, <1>2, <2>1, <2>3, <2>4, <2>5, <2>6, <2>7, <2>8, StepKept, ZenonT(30)
<1>4. CASE ~coded[f]
  <2>1. Complete(f, keepalive[f]) /\ UNCHANGED <<dialVars, HTTP2_POOL>> /\ keepalive[f] \in BOOLEAN
    BY <1>4, ZenonT(30) DEF Http1BodyEnds, HttpInv, TypeOK
  <2> QED BY <1>1, <1>2, <2>1, CompleteStep, ZenonT(30)
<1> QED BY <1>3, <1>4, ZenonT(30)

-----------------------------------------------------------------------------
(* The theorems.                                                           *)

\* At the start nothing is open.
LEMMA InitInv == Init => HttpInv
<1> SUFFICES ASSUME Init PROVE HttpInv
  BY ZenonT(30)
<1>1. /\ \A f \in Fetches : pc[f] = "new" /\ conn[f] = NoConn
      /\ \A k \in Keys : POOL[k] = << >> /\ HTTP2_POOL[k] = NoConn
      /\ \A c \in Conns : unread[c] = << >>
  BY ZenonT(30) DEF Init
<1>2. UsedKeys = {} /\ Http2Keys = {} /\ IdleConns = {}
  BY <1>1, SMTT(30), Z3T(30) DEF UsedKeys, Http2Keys, IdleConns, Idle
<1>3. IsFiniteSet({}) /\ Cardinality({}) = 0
  BY FS_EmptySet, ZenonT(30)
<1>4. Finite
  BY <1>2, <1>3, ZenonT(30) DEF Finite
<1>5. TypeOK
  <2>1. /\ pc \in [Fetches -> {"new", "dial"} \cup Awaiting \cup Streaming \cup Ended]
        /\ conn \in [Fetches -> ConnOrNone]
        /\ reopened \in [Fetches -> BOOLEAN] /\ retried \in [Fetches -> BOOLEAN]
        /\ keepalive \in [Fetches -> BOOLEAN] /\ coded \in [Fetches -> BOOLEAN]
        /\ HTTP2_POOL \in [Keys -> ConnOrNone]
    BY ZenonT(30) DEF Init, ConnOrNone
  <2>2. POOL \in [Keys -> Seq(Conns)] /\ unread \in [Conns -> Seq(Fetches)]
    BY SMTT(30), Z3T(30) DEF Init
  <2>3. \A k \in Keys : Len(POOL[k]) <= MAX_IDLE_PER_KEY
    BY <1>1, ConstantsAssumption, SMTT(30), Z3T(30)
  <2>4. Cardinality(UsedKeys) <= MAX_POOL_KEYS /\ Cardinality(Http2Keys) <= MAX_POOL_KEYS
    BY <1>2, <1>3, ConstantsAssumption, SMTT(30), Z3T(30)
  <2> QED BY <2>1, <2>2, <2>3, <2>4, ZenonT(30) DEF TypeOK, UsedKeys, Http2Keys
<1>6. Holds /\ Unopened /\ Owned /\ Http2Apart
  BY <1>1, <1>2, ConstantsAssumption, ZenonT(30) DEF Holds, Unopened, Owned, Http2Apart, OnHttp1, OnHttp2, Cold
<1>7. PoolDistinct /\ Keyed
  BY <1>1, SMTT(30), Z3T(30) DEF PoolDistinct, Keyed
<1>8. Answers
  BY <1>1, <1>2, ZenonT(30) DEF Answers, OnHttp1, Bodies
<1> QED BY <1>4, <1>5, <1>6, <1>7, <1>8, ZenonT(30) DEF HttpInv

\* Every step keeps the invariant.
LEMMA NextInv == HttpInv /\ [Next]_vars => HttpInv'
<1> SUFFICES ASSUME HttpInv, [Next]_vars PROVE HttpInv'
  BY ZenonT(30)
<1>1. CASE UNCHANGED vars
  <2>1. IdleConns' = IdleConns /\ UsedKeys' = UsedKeys /\ Http2Keys' = Http2Keys
    BY <1>1, SMTT(30) DEF vars, poolVars, IdleConns, Idle, UsedKeys, Http2Keys
  <2>2. TypeOK' /\ Finite'
    BY <1>1, <2>1, SMTT(30) DEF vars, dialVars, bodyVars, poolVars, HttpInv, TypeOK, Finite
  <2>3. Holds' /\ Unopened'
    BY <1>1, <2>1, SMTT(30) DEF vars, dialVars, bodyVars, poolVars, HttpInv, Holds, Unopened
  <2>4. Owned' /\ Http2Apart'
    BY <1>1, <2>1, SMTT(30) DEF vars, dialVars, bodyVars, poolVars, HttpInv, Owned, Http2Apart
  <2>5. PoolDistinct' /\ Keyed'
    BY <1>1, <2>1, SMTT(30) DEF vars, dialVars, bodyVars, poolVars, HttpInv, PoolDistinct, Keyed
  <2>6. Answers'
    BY <1>1, <2>1, SMTT(30) DEF vars, dialVars, bodyVars, poolVars, HttpInv, Answers
  <2> QED BY <2>2, <2>3, <2>4, <2>5, <2>6, ZenonT(30) DEF HttpInv
<1>2. ASSUME NEW f \in Fetches, Attempt(f)
      PROVE  HttpInv'
  BY <1>2, StartStep, H2ReuseFailsStep, H1ReuseFailsStep, ColdFailsStep, DialReopensStep, TlsRetriesStep,
     DialFailsStep, OpenHttp2Step, OpenHttp1Step, Http2AnswersStep, Http1HeadStep, Http1BodyEndsStep, ZenonT(30)
     DEF Attempt
<1>3. ASSUME NEW f \in Fetches, Body(f)
      PROVE  HttpInv'
  <2>1. "broken" \in Ended /\ "cancelled" \in Ended
    BY ZenonT(30) DEF Ended
  <2> QED BY <1>3, <2>1, Http1BodyEndsStep, Http2BodyEndsStep, DecoderEndsStep, AbandonStep, ZenonT(30)
             DEF Body, BodyFails, Cancel
<1> QED BY <1>1, <1>2, <1>3, ZenonT(30) DEF Next

\* The inductive invariant holds in every reachable state.
THEOREM HttpInvariance == Spec => []HttpInv
BY InitInv, NextInv, PTL DEF Spec

\* The invariant gives each HTTP/1.1 connection one owner and its responses.
LEMMA OwnConnectionFollows == HttpInv => OwnConnection
<1> SUFFICES ASSUME HttpInv PROVE OwnConnection
  BY ZenonT(30)
<1>1. \A f \in Fetches : conn[f] # NoConn => OriginOf[conn[f]] = OriginOf[f] /\ IsolationOf[conn[f]] = IsolationOf[f]
  BY ZenonT(30) DEF HttpInv, Keyed, PoolKey
<1>2. NoConn \notin Conns /\ \A c \in Conns : Idle(c) <=> c \in IdleConns
  BY ConstantsAssumption, ZenonT(30) DEF Conns, IdleConns
<1>3. SingleOwner
  <2>1. \A c \in Conns : \A k, l \in Keys : \A i \in 1..Len(POOL[k]), j \in 1..Len(POOL[l]) :
            POOL[k][i] = c /\ POOL[l][j] = c => k = l /\ i = j
    BY SMTT(30), Z3T(30) DEF HttpInv, PoolDistinct
  <2>2. \A c \in Conns : \A f, g \in Fetches :
            /\ pc[f] \in OnHttp1 \cup {"decoding"} /\ conn[f] = c /\ conn[g] = c => f = g
            /\ Idle(c) => conn[f] # c
    BY <1>2, ZenonT(30) DEF HttpInv, Owned
  <2> QED BY <1>1, <2>1, <2>2, ZenonT(30) DEF SingleOwner, HttpInv
<1>4. OwnAnswer
  BY <1>2, ZenonT(30) DEF OwnAnswer, HttpInv, Answers
<1> QED BY <1>3, <1>4, ZenonT(30) DEF OwnConnection

\* No two fetches share an HTTP/1.1 connection or what is left on it, whatever
\* the fetches, origins and isolation keys and the caps of the pools: the
\* ownership that pool.rs and the body streams pass around is never split.
THEOREM ConnectionOwned == Spec => []OwnConnection
BY HttpInvariance, OwnConnectionFollows, PTL

-----------------------------------------------------------------------------
(* Failures.                                                               *)

\* What a step of fetch g that fails it, or its attempt, does to the pools.
Failing(g) ==
    \E p \in PCs :
        /\ pc' = [pc EXCEPT ![g] = p]
        /\ p \in Ended \ {"ok"} => UNCHANGED POOL
        /\ pc[g] = "h2reuse" /\ p \in {"h1reuse", "dial"} => remove_http2(PoolKey(g))
        /\ p = "failed" => pc[g] = "dial" \/ pc[g] \in Cold

\* Each action is such a step.
LEMMA StepFailing ==
    ASSUME TypeOK, NEW g \in Fetches, Attempt(g) \/ Body(g)
    PROVE  Failing(g)
<1> USE DEF Failing, PCs, Awaiting, Streaming, Ended, TypeOK
<1>1. CASE Start(g)
  BY <1>1, SMTT(30), Z3T(30) DEF Start, WarmOrDial
<1>2. CASE H2ReuseFails(g)
  BY <1>2, SMTT(30), Z3T(30) DEF H2ReuseFails, WarmOrDial
<1>3. CASE H1ReuseFails(g)
  BY <1>3, SMTT(30), Z3T(30) DEF H1ReuseFails
<1>4. CASE ColdFails(g)
  BY <1>4, ZenonT(30) DEF ColdFails, Cold, poolVars
<1>5. CASE DialReopens(g)
  BY <1>5, ZenonT(30) DEF DialReopens
<1>6. CASE TlsRetries(g)
  BY <1>6, ZenonT(30) DEF TlsRetries
<1>7. CASE DialFails(g)
  BY <1>7, ZenonT(30) DEF DialFails, poolVars
<1>8. CASE OpenHttp2(g)
  BY <1>8, ZenonT(30) DEF OpenHttp2
<1>9. CASE OpenHttp1(g)
  BY <1>9, ZenonT(30) DEF OpenHttp1
<1>10. CASE Http2Answers(g)
  BY <1>10, ZenonT(30) DEF Http2Answers
<1>11. CASE Http1Head(g)
  BY <1>11, SMTT(30), Z3T(30) DEF Http1Head
<1>12. CASE Http1BodyEnds(g)
  BY <1>12, SMTT(30), Z3T(30) DEF Http1BodyEnds, Complete
<1>13. CASE Http2BodyEnds(g)
  <2>1. PICK p \in {"ok", "decoding"} : pc' = [pc EXCEPT ![g] = p]
    BY <1>13, ZenonT(30) DEF Http2BodyEnds
  <2> QED BY <1>13, <2>1, ZenonT(30) DEF Http2BodyEnds
<1>14. CASE DecoderEnds(g)
  BY <1>14, SMTT(30), Z3T(30) DEF DecoderEnds, Complete
<1>15. CASE BodyFails(g) \/ Cancel(g)
  BY <1>15, SMTT(30), Z3T(30) DEF BodyFails, Cancel, Abandon, poolVars
<1> QED BY <1>1, <1>2, <1>3, <1>4, <1>5, <1>6, <1>7, <1>8, <1>9, <1>10, <1>11, <1>12, <1>13, <1>14, <1>15, ZenonT(30)
        DEF Attempt, Body

\* What FailuresContained says of one fetch.
LEMMA Contained ==
    ASSUME HttpInv, [Next]_vars, NEW f \in Fetches
    PROVE  /\ pc[f] \notin Ended /\ pc'[f] \in Ended \ {"ok"} =>
               \A k \in Keys : \A i \in 1..Len(POOL'[k]) : POOL'[k][i] # conn[f]
           /\ pc[f] = "h2reuse" /\ pc'[f] \in {"h1reuse", "dial"} =>
               \A k \in Keys : HTTP2_POOL'[k] # conn[f]
           /\ pc[f] # "failed" /\ pc'[f] = "failed" => pc[f] = "dial" \/ conn[f] = f
<1>1. CASE pc'[f] = pc[f]
  BY <1>1, ZenonT(30)
<1>2. CASE pc'[f] # pc[f]
  <2>1. Attempt(f) \/ Body(f)
    <3>1. PICK g \in Fetches : Attempt(g) \/ Body(g)
      BY <1>2, ZenonT(30) DEF Next, vars
    <3>2. Failing(g)
      BY <3>1, StepFailing, ZenonT(30) DEF HttpInv
    <3>3. g = f
      BY <1>2, <3>2, ZenonT(30) DEF Failing, HttpInv, TypeOK
    <3> QED BY <3>1, <3>3, ZenonT(30)
  <2>2. /\ pc'[f] \in Ended \ {"ok"} => UNCHANGED POOL
        /\ pc[f] = "h2reuse" /\ pc'[f] \in {"h1reuse", "dial"} => remove_http2(PoolKey(f))
        /\ pc'[f] = "failed" => pc[f] = "dial" \/ pc[f] \in Cold
    BY <2>1, StepFailing, SMTT(30), Z3T(30) DEF Failing, HttpInv, TypeOK
  <2>3. ASSUME UNCHANGED POOL
        PROVE  \A k \in Keys : \A i \in 1..Len(POOL'[k]) : POOL'[k][i] # conn[f]
    <3> SUFFICES ASSUME NEW k \in Keys, NEW i \in 1..Len(POOL[k]), POOL[k][i] = conn[f] PROVE FALSE
      BY <2>3, ZenonT(30)
    <3>1. POOL[k][i] \in Conns
      BY SMTT(30), Z3T(30) DEF HttpInv, TypeOK
    <3> QED BY <3>1, OneFetch, ZenonT(30) DEF IdleConns, Idle
  <2>4. ASSUME pc[f] = "h2reuse", remove_http2(PoolKey(f))
        PROVE  \A k \in Keys : HTTP2_POOL'[k] # conn[f]
    <3>1. conn[f] \in Conns /\ NoConn \notin Conns /\ PoolKey(conn[f]) = PoolKey(f) /\ PoolKey(f) \in Keys
      BY <2>4, OneFetch, ZenonT(30) DEF OnHttp2
    <3>2. \A k \in Keys : HTTP2_POOL'[k] = IF k = PoolKey(f) THEN NoConn ELSE HTTP2_POOL[k]
      BY <2>4, <3>1, ZenonT(30) DEF remove_http2, HttpInv, TypeOK
    <3> QED BY <3>1, <3>2, SMTT(30), Z3T(30) DEF HttpInv, Keyed
  <2>5. pc[f] \in Cold => conn[f] = f
    BY ZenonT(30) DEF HttpInv, Holds
  <2> QED BY <2>2, <2>3, <2>4, <2>5, ZenonT(30)
<1> QED BY <1>1, <1>2, ZenonT(30)

\* A failed attempt, fetch or body takes its connection with it: a reused
\* HTTP/2 client leaves its pool (fetch.rs evicts it), an HTTP/1.1 connection
\* is not returned, and only a connection of its own rejects a fetch.
THEOREM FailureContained == Spec => FailuresContained
<1>1. HttpInv /\ [Next]_vars =>
        [\A f \in Fetches :
            /\ pc[f] \notin Ended /\ pc'[f] \in Ended \ {"ok"} =>
                \A k \in Keys : \A i \in 1..Len(POOL'[k]) : POOL'[k][i] # conn[f]
            /\ pc[f] = "h2reuse" /\ pc'[f] \in {"h1reuse", "dial"} =>
                \A k \in Keys : HTTP2_POOL'[k] # conn[f]
            /\ pc[f] # "failed" /\ pc'[f] = "failed" => pc[f] = "dial" \/ conn[f] = f]_vars
  BY Contained, ZenonT(30)
<1> QED BY <1>1, HttpInvariance, PTL DEF Spec, FailuresContained
=============================================================================
