-------------------------- MODULE MCDetectionQueue --------------------------
(* Instances of DetectionQueue for TLC. *)
EXTENDS DetectionQueue, TLC

\* A message, the end of its debounce, and the ends of its leases and retries.
WorkInstants == {0, 20, 50, 80}

\* Arrivals, some further apart than IdleGap, and leases that run out one after the other.
BurstInstants == {0, 20, 40, 60}

OneId == {1}
TwoIds == {1, 2}
OneSize == {10}

WorkerSymmetry == Permutations(Workers)
=============================================================================
