---------------------------- MODULE MCMeasurement ----------------------------
EXTENDS MeasurementProperties

Reads(delta, fit, significant) ==
    [delta |-> delta, shift |-> NoShift, valid |-> TRUE, fit |-> fit,
     significant |-> significant]

Win == [Reads(-8, TRUE, TRUE) EXCEPT !.shift = <<-7>>]
Hopeful == Reads(-9, FALSE, FALSE)
Slower == Reads(3, FALSE, FALSE)
Fine == Reads(0, TRUE, FALSE)
Breach == Reads(5, TRUE, TRUE)

MCGuardrails == <<"peak_memory_bytes", "cpu_time_ns", "binary_size_bytes">>
MCRequired == {"peak_memory_bytes", "cpu_time_ns", "binary_size_bytes"}
MCGuardrailCeiling == [peak_memory_bytes |-> 2, cpu_time_ns |-> 0]
GuardrailReads(memory, cpu) ==
    [peak_memory_bytes |-> memory, cpu_time_ns |-> cpu, binary_size_bytes |-> Fine]

MCSeedLists == {<<>>, <<"w1", "w2">>}
MCStressSeeds == <<"s1">>
MCPrimaryReadings == {Win, Hopeful, Slower, Breach}
MCGuardrailReadings ==
    {GuardrailReads(Fine, Fine), GuardrailReads(Slower, Fine), GuardrailReads(Breach, Fine)}
MCStressReadings ==
    {[peak_memory_bytes |-> Fine, cpu_time_ns |-> Slower],
     [peak_memory_bytes |-> Breach, cpu_time_ns |-> Fine]}

=============================================================================
