------------------------------ MODULE WgAlloc -------------------------------
(***************************************************************************)
(* WireGuard addresses.  create_connection_handler and post_trial_handler   *)
(* take the address after the highest one in the Cache, under a read lock   *)
(* they release before add_conn inserts the row and the Cache entry         *)
(* (src/bin/api/http/handlers/connection.rs, trial.rs); the IPv4 arithmetic *)
(* is src/memory/connection/wireguard.rs, here on Width bits.               *)
(***************************************************************************)
EXTENDS Naturals, FiniteSets, FiniteSetsExt, Bitwise

CONSTANTS
  Conns,     \* WireGuard connections, one per request
  Width,     \* bits of an address: 32 in the code
  MaxFaults  \* bound on database errors and crashes

ASSUME WgAssumption == Width \in Nat \ {0} /\ MaxFaults \in Nat

MaxAddr == 2^Width - 1    \* u32::MAX
Addr == 0..MaxAddr
None == MaxAddr + 1       \* Option::None

-----------------------------------------------------------------------------
(* IpAddrMask: net.address and net.cidr.                                   *)

Nets == [address : Addr, cidr : 0..Width]

\* Mutant: wrapping instead of checked addition.
IncrementIpv4Wraps(ip) == (ip + 1) % 2^Width

\* checked_add.
IncrementIpv4(ip) == IF ip = MaxAddr THEN None ELSE ip + 1

\* u32::MAX << (32 - cidr); the shift by 32 is avoided.
Mask(net) == IF net.cidr = 0 THEN 0 ELSE (MaxAddr * 2^(Width - net.cidr)) % 2^Width

ContainsIpv4(net, ip) == (net.address & Mask(net)) = (ip & Mask(net))

\* u32::MAX >> cidr; the shift by 32 is avoided.
Broadcast(net) == net.address | (IF net.cidr >= Width THEN 0 ELSE shiftR(MaxAddr, net.cidr))

\* The second address after the configured one.
FirstPeerIp(net) ==
  LET base == IncrementIpv4(net.address)
      ip == IF base = None THEN None ELSE IncrementIpv4(base) IN
  IF ip # None /\ ContainsIpv4(net, ip) THEN ip ELSE None

-----------------------------------------------------------------------------
VARIABLES
  net,     \* wireguard_network of the configuration
  addr,    \* addr[c]: the address c was given, else None
  at,      \* at[c]: progress of the request that creates c
  rows,    \* connections that have a row, deleted ones included
  cache,   \* connections in the Cache
  sync,    \* get_state_from_db, which holds the write lock
  raced,   \* connections whose address was chosen while another request was between
           \* its choice and its Cache entry, or a row was unnoticed (history)
  faults

wgVars == <<net, addr, at, rows, cache, sync, raced, faults>>

NoSync == [busy |-> FALSE, rows |-> {}]

WgInit ==
  /\ net \in Nets
  /\ addr = [c \in Conns |-> None]
  /\ at = [c \in Conns |-> "new"]
  /\ rows = {} /\ cache = {}
  /\ sync = NoSync
  /\ raced = {}
  /\ faults = 0

MemFree == ~sync.busy
Fault == faults < MaxFaults /\ faults' = faults + 1
Underway == {c \in Conns : at[c] \in {"row", "cache"}}

\* Rows whose creation reported an error, and which the Cache does not show yet.
Unnoticed == {c \in rows \ cache : at[c] = "failed"}

\* get_last_wg_addr: the highest address, deleted connections included.
LastWgAddr == IF cache = {} THEN None ELSE Max({addr[c] : c \in cache})

NextAddr == IF LastWgAddr = None THEN FirstPeerIp(net) ELSE IncrementIpv4(LastWgAddr)

\* The handlers up to the release of the read lock.
Allocate(c) ==
  /\ at[c] = "new" /\ MemFree
  /\ NextAddr # None /\ ContainsIpv4(net, NextAddr)
  /\ addr' = [addr EXCEPT ![c] = NextAddr]
  /\ at' = [at EXCEPT ![c] = "row"]
  /\ raced' = IF Underway \cup Unnoticed = {} THEN raced ELSE raced \cup {c}
  /\ UNCHANGED <<net, rows, cache, sync, faults>>

\* "Failed to allocate IP" or "IP out of range".
Refuse(c) ==
  /\ at[c] = "new" /\ MemFree
  /\ NextAddr = None \/ ~ContainsIpv4(net, NextAddr)
  /\ at' = [at EXCEPT ![c] = "refused"]
  /\ UNCHANGED <<net, addr, rows, cache, sync, raced, faults>>

\* add_conn: the INSERT.
InsertRow(c) ==
  /\ at[c] = "row"
  /\ rows' = rows \cup {c}
  /\ at' = [at EXCEPT ![c] = "cache"]
  /\ UNCHANGED <<net, addr, cache, sync, raced, faults>>

\* The INSERT reports an error: it failed without a trace, or its answer was lost.
InsertFails(c) ==
  /\ at[c] = "row"
  /\ Fault
  /\ rows' \in {rows, rows \cup {c}}
  /\ at' = [at EXCEPT ![c] = "failed"]
  /\ UNCHANGED <<net, addr, cache, sync, raced>>

\* add_conn: the Cache.
InsertCache(c) ==
  /\ at[c] = "cache" /\ MemFree
  /\ cache' = cache \cup {c}
  /\ at' = [at EXCEPT ![c] = "done"]
  /\ UNCHANGED <<net, addr, rows, sync, raced, faults>>

SyncRead ==
  /\ MemFree
  /\ sync' = [busy |-> TRUE, rows |-> rows]
  /\ UNCHANGED <<net, addr, at, rows, cache, raced, faults>>

SyncInstall ==
  /\ sync.busy
  /\ cache' = sync.rows
  /\ sync' = NoSync
  /\ UNCHANGED <<net, addr, at, rows, raced, faults>>

SyncFails ==
  /\ sync.busy
  /\ Fault
  /\ sync' = NoSync
  /\ UNCHANGED <<net, addr, at, rows, cache, raced>>

\* Mutant: the Cache starts empty.
RestartEmpty ==
  /\ Fault
  /\ at' = [c \in Conns |-> IF c \in Underway THEN "failed" ELSE at[c]]
  /\ cache' = {}
  /\ sync' = NoSync
  /\ UNCHANGED <<net, addr, rows, raced>>

\* The process dies; main loads the Cache before anything else runs.
Restart ==
  /\ Fault
  /\ at' = [c \in Conns |-> IF c \in Underway THEN "failed" ELSE at[c]]
  /\ cache' = rows
  /\ sync' = NoSync
  /\ UNCHANGED <<net, addr, rows, raced>>

WgNext ==
  \/ \E c \in Conns : \/ Allocate(c) \/ Refuse(c)
                      \/ InsertRow(c) \/ InsertFails(c) \/ InsertCache(c)
  \/ SyncRead \/ SyncInstall \/ SyncFails
  \/ Restart

WgSpec == WgInit /\ [][WgNext]_wgVars

-----------------------------------------------------------------------------
(* Properties.                                                             *)

\* Two connections share an address only if the second was allocated while the
\* first, or another, was between its allocation and its Cache entry, or had a row
\* that its creation took for failed and no sync had brought to the Cache yet;
\* inserts that did fail, syncs and restarts lose no address.  wg_address is not
\* unique in the database.
UniqueAddr ==
  \A c, d \in rows : c # d /\ addr[c] = addr[d] => c \in raced \/ d \in raced

\* Every address lies between the third of the configured network and its
\* broadcast address, which is given out too: the mask arithmetic of
\* contains_ipv4 is the range it stands for, at both ends of the address space.
PeerRange ==
  \A c \in Conns : addr[c] # None => addr[c] \in (net.address + 2)..Broadcast(net)
=============================================================================
