-------------------------- MODULE MCIdentityBundle --------------------------
\* A bundle of two sources: an unrestricted grant that never expires and a
\* low one, scoped to one subject, that expires at the first tick.
EXTENDS IdentityBundle, TLC

MCShape == {[max |-> 3, scope |-> "*", expires |-> Always],
            [max |-> 2, scope |-> "repo", expires |-> 0]}
MCSubject == {"repo", "user"}
\* Both are above the agent tier: only signed writes are followed.
MCAuthority == {2, 3}

\* The two sources are interchangeable.
SourceSymmetry == Permutations(Source)

\* What the states are told apart by. Nothing is claimed of a write that a command
\* overlapped, and nothing depends on it but the event it leaves: of such a write
\* only the step it has reached is followed.
Followed ==
  << disk, bak, log, op, {e \in events : e.quiet}, writes, now, nextKey, commands, faults,
     stranded, revived, usable,
     [s \in Source |-> IF writer[s] = Idle \/ writer[s].quiet THEN writer[s]
                       ELSE [at |-> writer[s].at]] >>
=============================================================================
