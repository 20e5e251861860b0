------------------------------- MODULE Mains --------------------------------
(***************************************************************************)
(* The programs of cmd/ as data: what each dependency container provides   *)
(* (container/dig.go) and what each main does with it, step by step.  The  *)
(* module Services runs them.                                              *)
(***************************************************************************)
EXTENDS Sequences, Integers, TLC

(* The steps of a main function. *)
Need(S) == [op |-> "need", what |-> S, priority |-> 0]                    \* build the services S
RegisterShutdown(n, pr) == [op |-> "register", what |-> {n}, priority |-> pr]
Migrate == [op |-> "migrate", what |-> {}, priority |-> 0]
RegisterConsumer(c) == [op |-> "consumer", what |-> {c}, priority |-> 0]  \* created, not yet run
Serve(s) == [op |-> "serve", what |-> {s}, priority |-> 0]                \* start server s
Do(c) == [op |-> "do", what |-> {c}, priority |-> 0]                      \* calls on client c

----------------------------------------------------------------------------
(* Constructors: whether what they return has to be closed, and what they   *)
(* do on an error: end the process, drop it and return nil, or nothing,     *)
(* since they call nobody that could fail.                                  *)

Constructor(closable, onError) == [closable |-> closable, onError |-> onError]

NewLogger == Constructor(TRUE, "none")
NewPostgres == Constructor(TRUE, "fatal")
NewEtcdClientService == Constructor(TRUE, "fatal")
CreateSession == Constructor(TRUE, "nil")
NewClusterConn == Constructor(TRUE, "nil")                  \* r, _ := in dig.go
NewRedisClient == Constructor(TRUE, "none")
NewElasticFacade == Constructor(FALSE, "fatal")
NewPrometheus == Constructor(TRUE, "none")
RegisterPublisher == Constructor(TRUE, "fatal")
NewHub == Constructor(TRUE, "none")
NewHttpsClientConnection == Constructor(FALSE, "fatal")
NewGRPCClientConnection == Constructor(TRUE, "fatal")
NewGRPCSClientConnection == Constructor(TRUE, "fatal")

(* All other constructors only fill in a struct. *)
Constructors ==
    [logger |-> NewLogger, postgres |-> NewPostgres, etcd |-> NewEtcdClientService,
     session |-> CreateSession, rabbit |-> NewClusterConn, redis |-> NewRedisClient,
     elastic |-> NewElasticFacade, prometheus |-> NewPrometheus,
     publisherZero |-> RegisterPublisher, publisherFirst |-> RegisterPublisher,
     hub |-> NewHub, httpsClient |-> NewHttpsClientConnection,
     grpcClient |-> NewGRPCClientConnection, grpcsClient |-> NewGRPCSClientConnection]

ClosableServices == {s \in DOMAIN Constructors : Constructors[s].closable}
FatalServices == {s \in DOMAIN Constructors : Constructors[s].onError = "fatal"}
NilServices == {s \in DOMAIN Constructors : Constructors[s].onError = "nil"}

----------------------------------------------------------------------------
(* Providers: service |-> the services its constructor takes. *)

BuildContainerForHttpServer ==
    [logger |-> {}, config |-> {}, postgres |-> {}, etcd |-> {}, srvRepository |-> {},
     srv |-> {}, serializer |-> {}, redis |-> {}, elastic |-> {},
     migrations |-> {"postgres", "logger", "redis"}, prometheus |-> {},
     handlers |-> {"prometheus", "postgres", "etcd", "serializer"}]

BuildContainerForGrpcServer ==
    [logger |-> {}, config |-> {}, postgres |-> {}, rabbit |-> {}, redis |-> {},
     srv |-> {}, serializer |-> {}, migrations |-> {"postgres", "logger", "redis"},
     myService |-> {"postgres", "srv"}, myService2 |-> {"postgres", "srv"}]

BuildContainerForCron ==
    [logger |-> {}, config |-> {}, postgres |-> {}, rabbit |-> {}, redis |-> {},
     redisRepository |-> {"redis"}, cronClient |-> {"redis", "logger"},
     cronService |-> {"redis", "cronClient", "redisRepository"}, srv |-> {},
     serializer |-> {}, migrations |-> {"postgres", "logger", "redis"}]

BuildContainerForConsumers ==
    [logger |-> {}, config |-> {}, postgres |-> {}, rabbit |-> {}, rabbitMQ |-> {},
     background |-> {"postgres"},
     publisherZero |-> {"rabbit", "background", "rabbitMQ"},
     publisherFirst |-> {"rabbit", "background", "rabbitMQ"},
     redis |-> {}, srv |-> {}, serializer |-> {}, migrations |-> {"postgres", "logger", "redis"}]

BuildContainerForBackgroundRabbitMq ==
    [logger |-> {}, config |-> {}, postgres |-> {}, rabbit |-> {}, rabbitMQ |-> {},
     background |-> {"postgres"},
     publisherZero |-> {"rabbit", "background", "rabbitMQ"},
     publisherFirst |-> {"rabbit", "background", "rabbitMQ"},
     redis |-> {}, srv |-> {}, serializer |-> {}, migrations |-> {"postgres", "logger", "redis"}]

----------------------------------------------------------------------------
(* The services that a unit of work of each server reaches. *)
Middlewares == {"logger"}                               \* around every HTTP request
EmptyHandler == {"handlers", "session"} \cup Middlewares  \* POST /empty
SayHello == {"myService", "myService2"}
BlankConsumer == {"publisherFirst", "logger"}
Push == {"publisherZero"}
CronJob == {"cronService"}
Ws == {"hub"} \cup Middlewares
SseHandler == Middlewares
ServeHTTP == {"logger"}                                 \* the balancer, without the router
BalancerRun == {"etcd", "logger"}                       \* WatchBackends and HealthCheck

----------------------------------------------------------------------------
(* The mains.  graph: the container and what main itself builds on it; kind *)
(* and uses: of each server, how it starts and stops and what its units     *)
(* reach.                                                                   *)

HttpServerMain ==
    [graph |-> BuildContainerForHttpServer @@ [session |-> {"etcd"}],
     steps |-> << Need({"postgres", "etcd", "srvRepository", "srv", "elastic", "redis",
                        "migrations", "prometheus", "handlers"}),
                  RegisterShutdown("prometheus", 200), RegisterShutdown("logger", 101),
                  RegisterShutdown("postgres", 100), Migrate, Migrate,
                  Need({"session"}), RegisterShutdown("session", 98),
                  RegisterShutdown("etcd", 99),
                  Serve("http"), RegisterShutdown("http", 1),
                  Serve("https"), RegisterShutdown("https", 1) >>,
     kind |-> [http |-> "http", https |-> "https"],
     uses |-> [http |-> EmptyHandler, https |-> EmptyHandler]]

GrpcServerMain ==
    [graph |-> BuildContainerForGrpcServer,
     steps |-> << Need({"postgres", "rabbit", "redis", "migrations", "myService", "myService2"}),
                  RegisterShutdown("logger", 101), RegisterShutdown("postgres", 100), Migrate,
                  RegisterShutdown("rabbit", 100), Migrate, RegisterShutdown("redis", 100),
                  Serve("grpc"), RegisterShutdown("grpc", 1),
                  Serve("grpcs"), RegisterShutdown("grpcs", 1) >>,
     kind |-> [grpc |-> "grpc", grpcs |-> "grpcs"],
     uses |-> [grpc |-> SayHello, grpcs |-> SayHello]]

CronMain ==
    [graph |-> BuildContainerForCron,
     steps |-> << Need({"postgres", "rabbit", "redisRepository", "redis", "cronClient",
                        "cronService", "migrations"}),
                  RegisterShutdown("logger", 101), RegisterShutdown("postgres", 100), Migrate,
                  RegisterShutdown("rabbit", 100), Migrate, RegisterShutdown("redis", 100),
                  Serve("cron"), RegisterShutdown("cron", 10) >>,
     kind |-> [cron |-> "cron"],
     uses |-> [cron |-> CronJob]]

(* The part that cmd/consumer and cmd/background_rabbit share. *)
RabbitSteps ==
    << Need({"postgres", "rabbit", "background", "redis", "publisherZero", "publisherFirst",
             "rabbitMQ", "migrations"}),
       RegisterShutdown("logger", 101), RegisterShutdown("postgres", 100), Migrate,
       RegisterShutdown("rabbit", 100), Migrate,
       RegisterShutdown("publisherZero", 9), RegisterShutdown("publisherFirst", 9),
       RegisterShutdown("redis", 100),
       RegisterConsumer("consumer"), RegisterShutdown("consumer", 10),
       RegisterConsumer("consumer1"), RegisterShutdown("consumer1", 10),
       Serve("consumer"), Serve("consumer1") >>

ConsumerMain ==
    [graph |-> BuildContainerForConsumers,
     steps |-> RabbitSteps,
     kind |-> [consumer |-> "consumer", consumer1 |-> "consumer"],
     uses |-> [consumer |-> BlankConsumer, consumer1 |-> {}]]

BackgroundRabbitMain ==
    [graph |-> BuildContainerForBackgroundRabbitMq,
     steps |-> Append(RabbitSteps, Serve("push")),
     kind |-> [consumer |-> "consumer", consumer1 |-> "consumer", push |-> "loop"],
     uses |-> [consumer |-> BlankConsumer, consumer1 |-> {}, push |-> Push]]

WebsocketServerMain ==
    [graph |-> [logger |-> {}, hub |-> {}],
     steps |-> << RegisterShutdown("logger", 101),
                  Need({"hub"}), RegisterShutdown("hub", 1),
                  Serve("http"), RegisterShutdown("http", 1),
                  Serve("https"), RegisterShutdown("https", 1) >>,
     kind |-> [http |-> "http", https |-> "https"],
     uses |-> [http |-> Ws, https |-> Ws]]

SseServerMain ==
    [graph |-> [logger |-> {}],
     steps |-> << RegisterShutdown("logger", 101),
                  Serve("http"), RegisterShutdown("http", 1),
                  Serve("https"), RegisterShutdown("https", 1) >>,
     kind |-> [http |-> "http", https |-> "https"],
     uses |-> [http |-> SseHandler, https |-> SseHandler]]

EtcdBalancerMain ==
    [graph |-> [logger |-> {}, etcd |-> {"logger"}, session |-> {"etcd"}],
     steps |-> << RegisterShutdown("logger", 101),
                  Need({"etcd"}), RegisterShutdown("etcd", 99),
                  Need({"session"}), RegisterShutdown("session", 98),
                  Serve("election"), RegisterShutdown("election", 97),
                  Serve("balancer"), Serve("http"), RegisterShutdown("http", 1) >>,
     kind |-> [election |-> "loop", balancer |-> "loop", http |-> "http"],
     uses |-> [election |-> {"session", "logger"}, balancer |-> BalancerRun, http |-> ServeHTTP]]

NoServers == [s \in {} |-> ""]

HttpClientMain ==
    [graph |-> [logger |-> {}, httpClient |-> {}, httpsClient |-> {}],
     steps |-> << RegisterShutdown("logger", 101), Need({"httpClient"}), Need({"httpsClient"}),
                  Do("httpClient"), Do("httpsClient") >>,
     kind |-> NoServers, uses |-> NoServers]

(* Both closures call the variable shutdown, which the second connection has *)
(* overwritten: each of them closes grpcClient.                              *)
GrpcClientMain ==
    [graph |-> [logger |-> {}, grpcClient |-> {}, grpcsClient |-> {}],
     steps |-> << RegisterShutdown("logger", 101),
                  Need({"grpcsClient"}), RegisterShutdown("grpcClient", 1),
                  Need({"grpcClient"}), RegisterShutdown("grpcClient", 1),
                  Do("grpcsClient"), Do("grpcClient") >>,
     kind |-> NoServers, uses |-> NoServers]

SseClientMain ==
    [graph |-> [logger |-> {}, httpClient |-> {}, httpsClient |-> {}],
     steps |-> << RegisterShutdown("logger", 101), Need({"httpClient"}), Need({"httpsClient"}),
                  Serve("listenHttps"), Serve("listenHttp") >>,
     kind |-> [listenHttps |-> "loop", listenHttp |-> "loop"],
     uses |-> [listenHttps |-> {"logger"}, listenHttp |-> {"logger"}]]

(* Run returns, then main waits for DoClientApp. *)
WebsocketClientMain ==
    [graph |-> [logger |-> {}],
     steps |-> << RegisterShutdown("logger", 101), Serve("clientApp") >>,
     kind |-> [clientApp |-> "joined"],
     uses |-> [clientApp |-> {"logger"}]]

Mains == {HttpServerMain, GrpcServerMain, CronMain, ConsumerMain, BackgroundRabbitMain,
          WebsocketServerMain, SseServerMain, EtcdBalancerMain,
          HttpClientMain, GrpcClientMain, SseClientMain, WebsocketClientMain}
=============================================================================
