------------------------------ MODULE MCRetry ------------------------------
(* Model checking of Retry. *)
EXTENDS Retry

\* client.go: 6 attempts, 300 ms, 2 s, in units of 50 ms.
ReserveRetryConfig == [maxAttempts |-> 6, baseDelay |-> 6, maxDelay |-> 40]

\* Eleven attempts shift out of nine bits; 15 times 17 is the greatest product
\* below 2^8, and a base of -15 has multiples that wrap to positive numbers.
SomeConfigs ==
    [maxAttempts : {-1, 0, 1, 11}, baseDelay : {-15, -3, 0, 1, 2, 3, 7, 15},
     maxDelay : {-1, 0, 1, 2, 5, 8, 17}]
    \cup {ReserveRetryConfig}
=============================================================================
