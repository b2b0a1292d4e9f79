-------------------------------- MODULE LruMap --------------------------------
(***************************************************************************)
(* An OrderedDict used as a bounded least-recently-used map, as the two    *)
(* caches of the Python stage use it: a sequence of [key, val] records,    *)
(* oldest first, no key twice.                                             *)
(***************************************************************************)
EXTENDS Naturals, Sequences, SequencesExt

Keys(m) == {m[i].key : i \in DOMAIN m}

Place(m, k) == CHOOSE i \in DOMAIN m : m[i].key = k

Lookup(m, k) == m[Place(m, k)].val

(* pop(key, None)                                                          *)
Without(m, k) == IF k \in Keys(m) THEN RemoveAt(m, Place(m, k)) ELSE m

(* get and move_to_end; a missing key changes nothing                      *)
Touch(m, k) ==
    IF k \in Keys(m)
    THEN Append(Without(m, k), [key |-> k, val |-> Lookup(m, k)])
    ELSE m

(* popitem(last=False) while the map is larger than max_entries            *)
Newest(m, max) == SubSeq(m, IF Len(m) > max THEN Len(m) - max + 1 ELSE 1, Len(m))

(* m[k] = v, move_to_end, evict                                            *)
Put(m, k, v, max) == Newest(Append(Without(m, k), [key |-> k, val |-> v]), max)
===============================================================================
