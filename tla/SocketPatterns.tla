----------------------------- MODULE SocketPatterns -----------------------------
(***************************************************************************)
(* The RAII Socket, connect_with_timeout, reconnect_with_backoff and       *)
(* ConnectionPool of src/networking/10_socket_patterns.cpp.  A client      *)
(* reconnects with backoff, fills a connection pool, lets several users    *)
(* acquire and release its connections, and destroys everything.           *)
(*                                                                         *)
(* What connect() and poll() answer is chosen freely.  The kernel gives    *)
(* out the lowest free descriptor, so a closed one is soon used again.     *)
(***************************************************************************)
EXTENDS Integers, Sequences, FiniteSets, FiniteSetsExt, SequencesExt

CONSTANTS
    MaxAttempts,    \* max_attempts of reconnect_with_backoff
    InitialDelay,   \* its initial_delay; its factor is 2
    PoolSize,       \* size of the ConnectionPool
    MaxFd,          \* descriptors the process may open
    User,           \* callers of acquire() and release()
    MaxOps          \* bound on the number of acquisitions

INVALID == -1
Fd == 0 .. MaxFd - 1

VARIABLES
    mode,       \* [Fd -> "closed", "blocking" or "nonblocking"]
    cpc, sock,  \* connect_with_timeout: where it is, and its local Socket
    caller,     \* what the client is doing
    attempt, delay, waited,   \* reconnect_with_backoff; waited sums its sleeps
    conn,       \* the Socket that reconnect_with_backoff returned
    tried, pool_, available_, \* ConnectionPool; tried counts its connects
    held,       \* [User -> the descriptor it has acquired]
    ops

connVars == <<mode, cpc, sock>>
retryVars == <<attempt, delay, waited, conn>>
poolVars == <<tried, pool_, available_>>
vars == <<mode, cpc, sock, caller, attempt, delay, waited, conn, tried, pool_,
          available_, held, ops>>

TypeInv ==
    /\ mode \in [Fd -> {"closed", "blocking", "nonblocking"}]
    /\ cpc \in {"call", "connect", "poll", "return"}
    /\ sock \in Fd \cup {INVALID}
    /\ caller \in {"reconnect", "fill", "use", "end"}
    /\ attempt \in 1 .. MaxAttempts
    /\ delay \in Nat
    /\ waited \in Nat
    /\ conn \in Fd \cup {INVALID}
    /\ tried \in 0 .. PoolSize
    /\ pool_ \in Seq(Fd)
    /\ available_ \in Seq(0 .. PoolSize - 1)
    /\ held \in [User -> Fd \cup {INVALID}]
    /\ ops \in 0 .. MaxOps

Init ==
    /\ mode = [f \in Fd |-> "closed"]
    /\ cpc = "call"
    /\ sock = INVALID
    /\ caller = "reconnect"
    /\ attempt = 1
    /\ delay = InitialDelay
    /\ waited = 0
    /\ conn = INVALID
    /\ tried = 0
    /\ pool_ = <<>>
    /\ available_ = <<>>
    /\ held = [u \in User |-> INVALID]
    /\ ops = 0

-------------------------------------------------------------------------------
(* connect_with_timeout                                                    *)

Free == {f \in Fd : mode[f] = "closed"}

Connecting == caller \in {"reconnect", "fill"}

\* socket() and set_nonblocking(); with no descriptor left the Socket is
\* invalid and connect() fails.
OpenSocket ==
    /\ Connecting
    /\ cpc = "call"
    /\ \/ /\ Free # {}
          /\ sock' = Min(Free)
          /\ mode' = [mode EXCEPT ![Min(Free)] = "nonblocking"]
          /\ cpc' = "connect"
       \/ /\ Free = {}
          /\ sock' = INVALID
          /\ cpc' = "return"
          /\ UNCHANGED mode
    /\ UNCHANGED <<caller, retryVars, poolVars, held, ops>>

\* ~Socket() closes the descriptor it owns.
Closed(f) == [mode EXCEPT ![f] = "closed"]

\* return std::nullopt, which destroys the local Socket.
ReturnNothing ==
    /\ mode' = Closed(sock)
    /\ sock' = INVALID
    /\ cpc' = "return"

\* connect() answers at once: connected, or an error other than EINPROGRESS.
Connect ==
    /\ cpc = "connect"
    /\ \/ cpc' = "return" /\ UNCHANGED <<mode, sock>>
       \/ ReturnNothing
       \/ cpc' = "poll" /\ UNCHANGED <<mode, sock>>
    /\ UNCHANGED <<caller, retryVars, poolVars, held, ops>>

\* poll() times out, or SO_ERROR tells that the connection failed, or the
\* socket is connected and goes back to blocking mode.
Poll ==
    /\ cpc = "poll"
    /\ \/ ReturnNothing
       \/ /\ mode' = [mode EXCEPT ![sock] = "blocking"]
          /\ cpc' = "return"
          /\ UNCHANGED sock
    /\ UNCHANGED <<caller, retryVars, poolVars, held, ops>>

-------------------------------------------------------------------------------
(* reconnect_with_backoff                                                  *)

\* The Socket is moved out of the optional.
Reconnected ==
    /\ caller = "reconnect"
    /\ cpc = "return"
    /\ sock # INVALID
    /\ conn' = sock
    /\ sock' = INVALID
    /\ caller' = "fill"
    /\ cpc' = "call"
    /\ UNCHANGED <<mode, attempt, delay, waited, poolVars, held, ops>>

Slept == delay

MoreAttempts == attempt < MaxAttempts

Retry ==
    /\ caller = "reconnect"
    /\ cpc = "return"
    /\ sock = INVALID
    /\ MoreAttempts
    /\ waited' = waited + Slept
    /\ delay' = 2 * delay
    /\ attempt' = attempt + 1
    /\ cpc' = "call"
    /\ UNCHANGED <<mode, sock, caller, conn, poolVars, held, ops>>

GiveUp ==
    /\ caller = "reconnect"
    /\ cpc = "return"
    /\ sock = INVALID
    /\ ~MoreAttempts
    /\ delay' = 2 * delay
    /\ caller' = "fill"
    /\ cpc' = "call"
    /\ UNCHANGED <<mode, sock, attempt, waited, conn, poolVars, held, ops>>

-------------------------------------------------------------------------------
(* ConnectionPool                                                          *)

\* One iteration of the constructor's loop; a failed connect is skipped.
Fill ==
    /\ caller = "fill"
    /\ cpc = "return"
    /\ tried < PoolSize
    /\ tried' = tried + 1
    /\ \/ /\ sock # INVALID
          /\ available_' = Append(available_, Len(pool_))
          /\ pool_' = Append(pool_, sock)
       \/ /\ sock = INVALID
          /\ UNCHANGED <<available_, pool_>>
    /\ sock' = INVALID
    /\ cpc' = "call"
    /\ caller' = IF tried + 1 = PoolSize THEN "use" ELSE "fill"
    /\ UNCHANGED <<mode, retryVars, held, ops>>

Taken == Front(available_)

\* acquire(): the connection released last is given out first.
Acquire(u) ==
    /\ caller = "use"
    /\ held[u] = INVALID
    /\ ops < MaxOps
    /\ available_ # <<>>
    /\ held' = [held EXCEPT ![u] = pool_[Last(available_) + 1]]
    /\ available_' = Taken
    /\ ops' = ops + 1
    /\ UNCHANGED <<connVars, caller, retryVars, tried, pool_>>

IndexOf(fd) == (CHOOSE i \in 1 .. Len(pool_) : pool_[i] = fd) - 1

\* release(fd) by the user that acquired it.
Release(u) ==
    /\ caller = "use"
    /\ held[u] # INVALID
    /\ available_' = Append(available_, IndexOf(held[u]))
    /\ held' = [held EXCEPT ![u] = INVALID]
    /\ UNCHANGED <<connVars, caller, retryVars, tried, pool_, ops>>

\* The pool and the reconnected Socket go out of scope, while a caller may
\* still hold a descriptor, as main holds fd2.
Destroy ==
    /\ caller = "use"
    /\ mode' = [f \in Fd |-> IF f = conn \/ f \in Range(pool_) THEN "closed" ELSE mode[f]]
    /\ pool_' = <<>>
    /\ available_' = <<>>
    /\ conn' = INVALID
    /\ caller' = "end"
    /\ UNCHANGED <<cpc, sock, attempt, delay, waited, tried, held, ops>>

-------------------------------------------------------------------------------

Next ==
    \/ OpenSocket \/ Connect \/ Poll
    \/ Reconnected \/ Retry \/ GiveUp
    \/ Fill
    \/ \E u \in User : Acquire(u) \/ Release(u)
    \/ Destroy

Spec == Init /\ [][Next]_vars

-------------------------------------------------------------------------------
(* Properties.                                                             *)

\* "RAII socket: never leak fds": a descriptor is open exactly if a Socket
\* owns it, and no two Sockets own the same one, although descriptors are
\* moved out of optionals and numbers are used again.
Owned == ({sock, conn} \ {INVALID}) \cup Range(pool_)

NoFdLeak ==
    /\ {f \in Fd : mode[f] # "closed"} = Owned
    /\ Cardinality(Owned) =
           Len(pool_) + (IF sock = INVALID THEN 0 ELSE 1)
                      + (IF conn = INVALID THEN 0 ELSE 1)

\* A connection is either available or held by one user: two users never
\* share one, and none gets lost, whatever the order of acquire and release.
PoolExclusive ==
    /\ IsInjective(available_)
    /\ \A u, v \in User : u # v /\ held[u] = held[v] => held[u] = INVALID
    /\ {pool_[i + 1] : i \in Range(available_)}
           = Range(pool_) \ {held[u] : u \in User}

\* The n-th retry comes after sleeps that add up to InitialDelay * (2^n - 1):
\* each wait is twice the one before, and none follows the last attempt.
BackoffDoubles == waited = InitialDelay * (2 ^ (attempt - 1) - 1)
================================================================================
