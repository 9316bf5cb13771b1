----------------------------- MODULE Resolvers -----------------------------
(***************************************************************************)
(* The resolvers that modules declare, lib/resolverFunctions.ts, and the   *)
(* flags that enable them, lib/diConfigUtils.ts.  A resolver is what the   *)
(* container and the awilix manager read of it: the class, its lifetime,   *)
(* whether it is public, and when it is started and disposed.              *)
(*                                                                         *)
(* opts are the options of the application, a record that may be empty.    *)
(***************************************************************************)
EXTENDS Naturals, Sequences, FiniteSets, Collections

\* an option that is false or absent, ENABLE_ALL, or a list of names
Off       == [is |-> "off",  names |-> {}]
All       == [is |-> "all",  names |-> {}]
Listed(S) == [is |-> "list", names |-> S]

IsEnabled(option, name) ==
    option.is = "all" \/ (option.is = "list" /\ name \in option.names)

\* without a name, for a manager of all queues, any list will do
IsJobQueueEnabled(option, name) ==
    \/ IsEnabled(option, name)
    \/ option.is = "list" /\ name = "none"

ResolveJobQueuesEnabled(option) ==
    IF option = Listed({}) THEN Off ELSE option

-----------------------------------------------------------------------------
\* asClass and asFunction of awilix (external), with the defaults the awilix
\* manager (external) takes
AsClass(Type, options) ==
    options ++ [of |-> Type, by |-> "plain", controller |-> "none",
                lifetime |-> "TRANSIENT", public |-> FALSE, enabled |-> TRUE,
                asyncInit |-> "none", asyncInitPriority |-> 1,
                asyncDispose |-> "none", asyncDisposePriority |-> 1,
                eagerInject |-> FALSE, queue |-> "none", queues |-> Off]

IsResolver(r) ==
    {"of", "by", "controller", "lifetime", "public", "enabled", "asyncInit",
     "asyncInitPriority", "asyncDispose", "asyncDisposePriority", "eagerInject",
     "queue", "queues"} \subseteq DOMAIN r

Singleton == [lifetime |-> "SINGLETON"]

AsSingletonClass(Type, opts)    == AsClass(Type, Singleton ++ opts)
AsSingletonFunction(Type, opts) == AsClass(Type, Singleton ++ opts)
AsClassWithConfig(Type, opts)   == AsClass(Type, opts ++ Singleton)
AsServiceClass(Type, opts)      == AsClass(Type, Singleton ++ opts ++ [public |-> TRUE])
AsUseCaseClass(Type, opts)      == AsClass(Type, Singleton ++ opts ++ [public |-> TRUE])
AsRepositoryClass(Type, opts)   == AsClass(Type, Singleton ++ opts ++ [public |-> FALSE])

AsControllerClass(Type, opts) ==
    AsClass(Type, Singleton ++ opts ++ [public |-> FALSE, controller |-> "rest"])
AsApiControllerClass(Type, opts) ==
    AsClass(Type, Singleton ++ opts ++ [public |-> FALSE, controller |-> "api"])

Streaming(kind) ==
    [public |-> FALSE, by |-> "session", controller |-> kind,
     asyncDispose |-> "closeAllConnections", asyncDisposePriority |-> 5]
AsSSEControllerClass(Type, opts) ==
    AsClass(Type, Singleton ++ opts ++ Streaming("sse"))
AsDualModeControllerClass(Type, opts) ==
    AsClass(Type, Singleton ++ opts ++ Streaming("dual"))

AsMessageQueueHandlerClass(Type, queueName, options, opts) ==
    AsClass(Type, opts ++ Singleton ++
        [by |-> "consumer", asyncInit |-> "start", asyncDispose |-> "close",
         asyncDisposePriority |-> 10,
         enabled |-> IsEnabled(options.messageQueueConsumersEnabled, queueName)])
\* deviation: workers are disposed of after the queues
AsEnqueuedJobWorkerClassLate(Type, queueName, options, opts) ==
    AsClass(Type, opts ++ Singleton ++
        [by |-> "worker", asyncInit |-> "start", asyncDispose |-> "dispose",
         asyncDisposePriority |-> 25,
         enabled |-> IsEnabled(options.enqueuedJobWorkersEnabled, queueName)])
AsEnqueuedJobWorkerClass(Type, queueName, options, opts) ==
    AsClass(Type, opts ++ Singleton ++
        [by |-> "worker", asyncInit |-> "start", asyncDispose |-> "dispose",
         asyncDisposePriority |-> 15,
         enabled |-> IsEnabled(options.enqueuedJobWorkersEnabled, queueName)])
AsPgBossProcessorClass(Type, queueName, options, opts) ==
    AsClass(Type, opts ++ Singleton ++
        [by |-> "consumer", asyncInit |-> "start", asyncInitPriority |-> 20,
         asyncDispose |-> "stop", asyncDisposePriority |-> 10,
         enabled |-> IsEnabled(options.enqueuedJobWorkersEnabled, queueName)])
\* deviation: a periodic job that nobody disposes of
AsPeriodicJobClassKept(Type, jobName, options, opts) ==
    AsClass(Type, opts ++ Singleton ++
        [by |-> "job", eagerInject |-> TRUE,
         enabled |-> IsEnabled(options.periodicJobsEnabled, jobName)])
AsPeriodicJobClass(Type, jobName, options, opts) ==
    AsClass(Type, opts ++ Singleton ++
        [by |-> "job", eagerInject |-> TRUE, asyncDispose |-> "dispose",
         enabled |-> IsEnabled(options.periodicJobsEnabled, jobName)])
AsJobQueueClass(Type, queueName, options, opts) ==
    AsClass(Type, opts ++ Singleton ++
        [by |-> "queue", public |-> TRUE, asyncInit |-> "start",
         asyncDispose |-> "dispose", asyncDisposePriority |-> 20,
         queue |-> queueName,
         enabled |-> IsJobQueueEnabled(options.jobQueuesEnabled, queueName)])
AsEnqueuedJobQueueManagerFunction(Type, options, opts) ==
    AsClass(Type, opts ++ Singleton ++
        [by |-> "manager", public |-> TRUE, asyncInit |-> "start",
         asyncInitPriority |-> 20, asyncDispose |-> "dispose",
         asyncDisposePriority |-> 20,
         queues |-> ResolveJobQueuesEnabled(options.jobQueuesEnabled),
         enabled |-> IsJobQueueEnabled(options.jobQueuesEnabled, "none")])
=============================================================================
