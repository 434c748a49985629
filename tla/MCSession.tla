----------------------------- MODULE MCSession -----------------------------
EXTENDS Session

\* Configured timeouts as u64 digits: 5000 ms, 2^31 ms and 2^32 + 5000 ms,
\* the last two beyond the i32 the wire carries.
MCConfiguredTimeouts == {<<0, 0, 0, 5000>>, <<0, 0, 32768, 0>>, <<0, 1, 0, 5000>>}
\* 100000 ms needs both low digits.
MCGrantedTimeouts == {4000, 100000}
MCPasswds == {<<1, 2>>, <<3>>}
=============================================================================
