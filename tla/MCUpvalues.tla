---------------------------- MODULE MCUpvalues ----------------------------
EXTENDS Upvalues

\* New closures and new upvalues are interchangeable: the lowest number comes first.
LowestFirst ==
  LET used == UNION {captured[f] : f \in DOMAIN captured}
      now  == UNION {captured'[f] : f \in DOMAIN captured'}
  IN  /\ \A u \in now \ used : \A v \in Upvalue \ used : u <= v
      /\ \A f \in DOMAIN captured' \ DOMAIN captured : \A g \in Closure \ DOMAIN captured : f <= g

\* A slot above the top is written before it is read, as long as GoesDown and
\* OpenAreListed hold.
InUse ==
  <<SubSeq(slots, 1, top), top, frames, location, closed, openUpvalues, captured, filling>>
============================================================================
