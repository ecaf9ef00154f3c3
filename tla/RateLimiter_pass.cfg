\* One queue, two goroutines in Allow, SetRate with limiting on and off.
\* The model stops once its calls and its clock are spent.
CONSTANTS
    Queues = {q1}
    Clients = {c1, c2}
    Caps = {0, 1, 2}
    Rates = {0, 1}
    MaxTime = 3
    MaxCalls = 5
    MaxSetRates = 2
SPECIFICATION Spec
INVARIANTS TypeOK RateBound

CHECK_DEADLOCK FALSE
