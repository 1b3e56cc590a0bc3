\* Three goroutines share the provider; two IPv4 addresses and one IPv6.
SPECIFICATION IPSpec
CONSTANTS
    Callers = {hub, udp, tcp}
    V4 = {a4, b4}
    V6 = {a6}
    Nil = Nil
    Second = 1
    Minute = 2
    MaxTime = 5
PROPERTIES
    AnswersAreCurrent
    LookupsArePaced
    CallersGetAnswers
