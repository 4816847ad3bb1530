------------------------------ MODULE Balancer ------------------------------
(***************************************************************************)
(* The load balancer that all calls of a client share (balancer.go).  A    *)
(* call turns its key list and its URL list into pairs and picks one of    *)
(* the least used.  What happens under the mutex is taken in three steps,  *)
(* so that nothing but the mutex keeps two calls apart.                    *)
(***************************************************************************)
EXTENDS Naturals, Sequences, FiniteSets, Pairs

CONSTANTS
  Caller,        \* goroutines that may be inside choosePair()
  Key, URL,      \* what the lists are made of
  Request,       \* the key and URL lists a call may come with
  NoRequest,     \* a caller outside choosePair()
  MaxPicks       \* bound: calls of choosePair()

ASSUME RequestAssumption ==
  /\ Request \subseteq [keys : Seq(Key \cup {Blank}), urls : Seq(URL \cup {Blank})]
  /\ NoRequest \notin Request
  /\ Blank \notin Key \cup URL

ASSUME MaxPicksAssumption == MaxPicks \in Nat

Pair == [key : Key, url : URL]

VARIABLES
  usage,         \* times each pair was chosen, guarded by mu
  mu,            \* the callers that hold the mutex
  at,            \* where each caller is
  request,       \* the lists it came with
  least,         \* its local `least`
  served,        \* history: what choosePair() returned, in order
  picks          \* calls begun, for MaxPicks

vars == <<usage, mu, at, request, least, served, picks>>

-----------------------------------------------------------------------------
(* The scan of choosePair(): the pairs no other pair is used less than.    *)
LeastUsed(pairs) ==
  {p \in pairs : \A q \in pairs : usage[p] <= usage[q]}

-----------------------------------------------------------------------------
Init ==
  /\ usage = [p \in Pair |-> 0]
  /\ mu = {}
  /\ at = [c \in Caller |-> "outside"]
  /\ request = [c \in Caller |-> NoRequest]
  /\ least = [c \in Caller |-> {}]
  /\ served = <<>>
  /\ picks = 0

(* choosePair() before the lock; lists that make no pairs are an error and *)
(* the balancer is not touched.                                            *)
Enter(c, r) ==
  /\ at[c] = "outside"
  /\ picks < MaxPicks
  /\ picks' = picks + 1
  /\ Buildable(r)
  /\ at' = [at EXCEPT ![c] = "locking"]
  /\ request' = [request EXCEPT ![c] = r]
  /\ UNCHANGED <<usage, mu, least, served>>

Refused(c, r) ==
  /\ at[c] = "outside"
  /\ picks < MaxPicks
  /\ picks' = picks + 1
  /\ ~Buildable(r)
  /\ UNCHANGED <<usage, mu, at, request, least, served>>

BrokenLock(c) ==               \* the mutex does not exclude
  /\ at[c] = "locking"
  /\ mu' = mu \cup {c}
  /\ at' = [at EXCEPT ![c] = "scanning"]
  /\ UNCHANGED <<usage, request, least, served, picks>>

Lock(c) ==
  /\ at[c] = "locking"
  /\ mu = {}
  /\ mu' = {c}
  /\ at' = [at EXCEPT ![c] = "scanning"]
  /\ UNCHANGED <<usage, request, least, served, picks>>

BrokenScan(c) ==               \* any pair will do
  /\ at[c] = "scanning"
  /\ least' = [least EXCEPT ![c] = buildPairs(request[c])]
  /\ at' = [at EXCEPT ![c] = "choosing"]
  /\ UNCHANGED <<usage, mu, request, served, picks>>

Scan(c) ==
  /\ at[c] = "scanning"
  /\ least' = [least EXCEPT ![c] = LeastUsed(buildPairs(request[c]))]
  /\ at' = [at EXCEPT ![c] = "choosing"]
  /\ UNCHANGED <<usage, mu, request, served, picks>>

BrokenChoose(c) ==             \* returns without unlocking
  \E chosen \in least[c] :
    /\ at[c] = "choosing"
    /\ usage' = [usage EXCEPT ![chosen] = @ + 1]
    /\ served' = Append(served, [pair |-> chosen, request |-> request[c]])
    /\ at' = [at EXCEPT ![c] = "outside"]
    /\ request' = [request EXCEPT ![c] = NoRequest]
    /\ least' = [least EXCEPT ![c] = {}]
    /\ UNCHANGED <<mu, picks>>

(* Any of the least used, the use counted, the mutex released.             *)
Choose(c) ==
  \E chosen \in least[c] :
    /\ at[c] = "choosing"
    /\ usage' = [usage EXCEPT ![chosen] = @ + 1]
    /\ served' = Append(served, [pair |-> chosen, request |-> request[c]])
    /\ at' = [at EXCEPT ![c] = "outside"]
    /\ request' = [request EXCEPT ![c] = NoRequest]
    /\ least' = [least EXCEPT ![c] = {}]
    /\ mu' = mu \ {c}
    /\ UNCHANGED picks

Next ==
  \E c \in Caller :
    \/ \E r \in Request : Enter(c, r) \/ Refused(c, r)
    \/ Lock(c)
    \/ Scan(c)
    \/ Choose(c)

Spec == Init /\ [][Next]_vars

(* A Go mutex hands over to a goroutine that has waited for it.            *)
FairSpec ==
  /\ Spec
  /\ \A c \in Caller :
        SF_vars(Lock(c)) /\ WF_vars(Scan(c)) /\ WF_vars(Choose(c))

-----------------------------------------------------------------------------
(* Properties.                                                             *)

(* The values the balancer and its callers take; the mutex has one holder. *)
TypeOK ==
  /\ \A c, d \in mu : c = d
  /\ usage \in [Pair -> Nat]
  /\ mu \subseteq Caller
  /\ at \in [Caller -> {"outside", "locking", "scanning", "choosing"}]
  /\ request \in [Caller -> Request \cup {NoRequest}]
  /\ least \in [Caller -> SUBSET Pair]
  /\ picks \in Nat

(* At most one call is between reading the counts and counting its own     *)
(* choice, and what it found least used still is.                          *)
ScanStaysFresh ==
  \A c \in Caller :
    at[c] = "choosing" =>
      /\ least[c] # {}
      /\ least[c] = LeastUsed(buildPairs(request[c]))

(* Rotation is even: two pairs of a list never differ by more than one use,*)
(* however many calls choose at once, as long as no other list of the      *)
(* client contains some of the pairs.                                      *)
Separate ==
  \A r, s \in Request :
    (Buildable(r) /\ Buildable(s)) =>
      \/ buildPairs(r) = buildPairs(s)
      \/ buildPairs(r) \cap buildPairs(s) = {}

Even ==
  \A r \in Request :
    Buildable(r) =>
      \A p, q \in buildPairs(r) : usage[p] <= usage[q] + 1

EvenRotation == Separate => Even

BelongsTo(p, r) ==
  \E j \in 1..Len(r.keys), k \in 1..Len(r.urls) :
    /\ p.key = r.keys[j] /\ p.url = r.urls[k]
    /\ (Len(r.keys) > 1 /\ Len(r.urls) > 1) => j = k

(* A call gets a key and a URL of its own lists, and when both lists have  *)
(* several entries the two stand at the same place.                        *)
PairsBelongTogether ==
  \A i \in 1..Len(served) : BelongsTo(served[i].pair, served[i].request)

(* A call that asked for a pair gets one: the mutex is always released.    *)
EveryCallServed == \A c \in Caller : (at[c] # "outside") ~> (at[c] = "outside")

=============================================================================
