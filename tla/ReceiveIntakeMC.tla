-------------------------- MODULE ReceiveIntakeMC ---------------------------
EXTENDS ReceiveIntake, TLC

\* Callbacks as the completion contract asks for them, with their packet, and
\* with any other names.
Named == {hints \in SUBSET Name : "packet_id" \in hints}

\* One of each way to name a dispatch.
Ways == {{"external_run_id"}, {"request_id", "run_id"}, {"accepted_external_id", "packet_id"},
         {"run_id", "packet_id"}, {"thread_key", "packet_id"}, {"request_id", "packet_id"}}
=============================================================================
